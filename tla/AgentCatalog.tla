----------------------------- MODULE AgentCatalog -----------------------------
(***************************************************************************)
(* Agents and what their versions refer to: the saves of an agent and of   *)
(* its versions, the exclusive claim on the wikis a version writes, the    *)
(* connection pool those saves share, the deletes that must not pull a     *)
(* referenced skill, wiki or environment away, and the egress proxies'     *)
(* host lists that follow the saves.                                       *)
(*                                                                         *)
(* Every request is an async handler: one query of the database, or one    *)
(* call of the cluster, is one step.  A query needs a connection of the    *)
(* pool for its own duration; a claim on a wiki keeps one until its        *)
(* release.                                                                *)
(***************************************************************************)
EXTENDS Naturals, FiniteSets, FiniteSetsExt, SequencesExt

CONSTANTS
  Client,         \* concurrent requests
  Agent, Wiki, Skill, Env,
  Config,         \* the configurations that saves carry
  PoolMax,        \* connections of the pool
  MaxRequests     \* bound: requests made

None == "none"

(***************************************************************************)
(* A configuration: its environment, skills, the wikis it writes and reads *)
(* (no wiki twice), and whether it names MCP servers.                      *)
(***************************************************************************)
ASSUME AgentCatalogAssumption ==
  /\ \A c \in Config :
       /\ c.env \in Env /\ c.skills \subseteq Skill /\ c.mcp \in BOOLEAN
       /\ c.writes \subseteq Wiki /\ c.reads \subseteq Wiki
       /\ c.writes \cap c.reads = {} /\ IsFiniteSet(c.writes)
  /\ IsFiniteSet(Client)
  /\ PoolMax \in Nat \ {0} /\ MaxRequests \in Nat
  /\ None \notin Client \cup Agent \cup Wiki \cup Skill \cup Env

VARIABLES
  agents,         \* agent -> whether its row is still to come, there or gone
  versions,       \* agent -> its version rows, oldest first; the environment of
                  \* a row reads as null once that environment's row is gone
  skills, wikis,  \* rows of skills and wikis
  envs,           \* environment -> no row, or whether it allows MCP hosts
  proxy,          \* environment -> the agents whose MCP hosts its proxy lets through
  lock,           \* wiki -> the request that holds its advisory lock
  request,        \* client -> the request it makes
  made,           \* requests made so far
  mixed           \* environments that two overlapping requests were about

catalogVars == <<agents, versions, skills, wikis, envs, proxy, lock, request, made, mixed>>

EnvRow == [row : BOOLEAN, mcp : BOOLEAN]
NoEnv == [row |-> FALSE, mcp |-> FALSE]

(* `env` is the environment row as read, `prev` the environment of the     *)
(* version before, `sync` the proxies still to be refreshed.               *)
NoConfig == [env |-> None, skills |-> {}, writes |-> {}, reads |-> {}, mcp |-> FALSE]
Idle == [pc |-> "idle", agent |-> None, create |-> FALSE, config |-> NoConfig,
         on |-> None, mcp |-> FALSE, prev |-> None, version |-> 0, sync |-> <<>>,
         hosts |-> {}, conn |-> FALSE]

Latest(a) == Last(versions[a])
Live == {a \in Agent : agents[a] = "live"}
Current == {a \in Live : versions[a] # <<>>}
VersionRows == UNION {ToSet(versions[a]) : a \in Live}

(***************************************************************************)
(* The pool: a query goes out while fewer than PoolMax connections are     *)
(* kept by claims.                                                         *)
(***************************************************************************)
Kept == {c \in Client : request[c].conn}
CanQuery == Cardinality(Kept) < PoolMax

(* Ends a request, or moves it on with the given fields.                    *)
Finish(c) == request' = [request EXCEPT ![c] = Idle]
Move(c, r) == request' = [request EXCEPT ![c] = r]
Goto(c, pc) == Move(c, [request[c] EXCEPT !.pc = pc])

Rows == <<agents, versions, skills, wikis, envs>>

(* Environments whose proxy a request under way may refresh.                *)
Syncing(c) ==
  LET r == request[c] IN
  {r.config.env, r.prev, r.on} \cup ToSet(r.sync)
    \cup (IF r.agent \in Current THEN {Latest(r.agent).env} ELSE {})
Mixing == {e \in Env : Cardinality({c \in Client : e \in Syncing(c)}) > 1}
(* Overlaps, recorded for the property about the proxies at every step.     *)
Follow == mixed' = mixed \cup Mixing'

CatalogInit ==
  /\ agents = [a \in Agent |-> "new"] /\ versions = [a \in Agent |-> <<>>]
  /\ skills = Skill /\ wikis = Wiki
  /\ envs = [e \in Env |-> [row |-> TRUE, mcp |-> TRUE]]
  /\ proxy = [e \in Env |-> {}]
  /\ lock = [w \in Wiki |-> None]
  /\ request = [c \in Client |-> Idle]
  /\ made = 0 /\ mixed = {}

Arrive(c, r) ==
  /\ request[c].pc = "idle" /\ made < MaxRequests
  /\ made' = made + 1
  /\ Move(c, r)

---------------------------------------------------------------------------
(* Saves.                                                                    *)

(***************************************************************************)
(* A save reads its agent's row, if there is to be one, and then its       *)
(* environment's.                                                          *)
(***************************************************************************)
Save(c, a, g) ==
  /\ CanQuery /\ envs[g.env].row
  /\ Arrive(c, [Idle EXCEPT !.pc = "skills", !.agent = a, !.config = g,
                            !.create = (agents[a] = "new"), !.mcp = envs[g.env].mcp])
  /\ UNCHANGED <<Rows, proxy, lock>>

(* POST /v1/agents, with the id the row will get.                           *)
CreateAgent(c, a, g) == agents[a] = "new" /\ (\A d \in Client : request[d].agent # a) /\ Save(c, a, g)

(* POST /v1/agents/:id/versions.                                            *)
CreateVersion(c, a, g) == agents[a] = "live" /\ Save(c, a, g)

CheckSkillsUnlocked(c) == \* mutant: no lock is taken before the writer check
  /\ request[c].pc = "skills" /\ CanQuery
  /\ IF ~ request[c].config.skills \subseteq skills THEN Finish(c) ELSE Goto(c, "refs")
  /\ UNCHANGED <<Rows, proxy, lock, made>>

(* A missing skill refuses the save; a save that writes a wiki claims it.   *)
CheckSkills(c) ==
  LET g == request[c].config IN
  /\ request[c].pc = "skills" /\ CanQuery
  /\ IF ~ g.skills \subseteq skills THEN Finish(c)
     ELSE Goto(c, IF g.writes = {} THEN "refs" ELSE "connect")
  /\ UNCHANGED <<Rows, proxy, lock, made>>

(* acquireWikiWriteLock: a connection of its own ...                        *)
Connect(c) ==
  /\ request[c].pc = "connect" /\ CanQuery
  /\ Move(c, [request[c] EXCEPT !.pc = "lock", !.conn = TRUE])
  /\ UNCHANGED <<Rows, proxy, lock, made>>

(* ... and the wikis' locks, in the order of their ids.                     *)
Wanted(c) == {w \in request[c].config.writes : lock[w] # c}
NextWiki(c) == CHOOSE w \in Wanted(c) : TRUE
Lock(c) ==
  /\ request[c].pc = "lock"
  /\ lock[NextWiki(c)] = None
  /\ lock' = [lock EXCEPT ![NextWiki(c)] = c]
  /\ Goto(c, IF Cardinality(Wanted(c)) = 1 THEN "refs" ELSE "lock")
  /\ UNCHANGED <<Rows, proxy, made>>

Unlocked(c) == [w \in Wiki |-> IF lock[w] = c THEN None ELSE lock[w]]

TimeOutNever(c) == \* mutant: no lock_timeout is set
  FALSE

(* lock_timeout: the connection is destroyed and its locks go with it.      *)
TimeOut(c) ==
  /\ request[c].pc = "lock"
  /\ lock[NextWiki(c)] # None
  /\ lock' = Unlocked(c)
  /\ Finish(c)
  /\ UNCHANGED <<Rows, proxy, made>>

(* wikiWriterAgent: another agent whose latest version writes the wiki.     *)
WriterOtherThan(w, a) == \E b \in Current \ {a} : w \in Latest(b).writes

(* A refusal under the lock still releases it.                              *)
Refuse(c) == Move(c, [request[c] EXCEPT !.pc = "release", !.sync = <<>>])

CheckRefs(c) ==
  LET r == request[c] IN
  /\ r.pc = "refs" /\ CanQuery
  /\ IF \/ ~ (r.config.writes \cup r.config.reads) \subseteq wikis
        \/ \E w \in r.config.writes : WriterOtherThan(w, r.agent)
     THEN Refuse(c)
     ELSE Goto(c, IF r.create THEN "agent" ELSE "prev")
  /\ UNCHANGED <<Rows, proxy, lock, made>>

(* createAgent: the agent's row, then, on its own, its first version.       *)
InsertAgent(c) ==
  /\ request[c].pc = "agent" /\ CanQuery
  /\ agents' = [agents EXCEPT ![request[c].agent] = "live"]
  /\ Move(c, [request[c] EXCEPT !.pc = "insert", !.version = 1])
  /\ UNCHANGED <<versions, skills, wikis, envs, proxy, lock, made>>

(* The version before, for the environment the agent moves away from.       *)
ReadPrev(c) ==
  LET a == request[c].agent IN
  /\ request[c].pc = "prev" /\ CanQuery
  /\ Move(c, [request[c] EXCEPT !.pc = "number",
                !.prev = IF a \in Current THEN Latest(a).env ELSE None])
  /\ UNCHANGED <<Rows, proxy, lock, made>>

(* newAgentVersion: one more than the highest version.                      *)
NumberVersion(c) ==
  /\ request[c].pc = "number" /\ CanQuery
  /\ Move(c, [request[c] EXCEPT !.pc = "insert",
                !.version = Len(versions[request[c].agent]) + 1])
  /\ UNCHANGED <<Rows, proxy, lock, made>>

ToSyncOwn(r) == \* mutant: the environment the agent left is forgotten
  IF r.create /\ ~ r.config.mcp THEN <<>> ELSE <<r.config.env>>

(* Who refreshes which proxies: a new agent only when it has MCP servers,   *)
(* a new version always, and the environment it left.                       *)
ToSync(r) ==
  IF r.create
  THEN IF r.config.mcp THEN <<r.config.env>> ELSE <<>>
  ELSE <<r.config.env>> \o (IF r.prev \in {None, r.config.env} THEN <<>> ELSE <<r.prev>>)

(* The row is refused when the agent or the environment is gone (foreign    *)
(* keys) or the number is taken (unique).                                   *)
InsertVersion(c) ==
  LET r == request[c] IN
  /\ r.pc = "insert" /\ CanQuery
  /\ IF /\ r.agent \in Live /\ envs[r.config.env].row
        /\ r.version = Len(versions[r.agent]) + 1
     THEN /\ versions' = [versions EXCEPT ![r.agent] = Append(@, r.config)]
          /\ Move(c, [r EXCEPT !.pc = "release", !.sync = ToSync(r)])
     ELSE Refuse(c) /\ UNCHANGED versions
  /\ UNCHANGED <<agents, skills, wikis, envs, proxy, lock, made>>

Release(c) ==
  /\ request[c].pc = "release"
  /\ lock' = Unlocked(c)
  /\ IF request[c].sync = <<>> THEN Finish(c)
     ELSE Move(c, [request[c] EXCEPT !.pc = "hosts", !.conn = FALSE])
  /\ UNCHANGED <<Rows, proxy, made>>

(* syncEnvPolicy: the hosts of the latest versions bound to the head of     *)
(* `sync`, when its row, as read, allows them ...                           *)
HostsOf(e) == {a \in Current : Latest(a).env = e /\ Latest(a).mcp}
ReadHosts(c) ==
  LET r == request[c] IN
  /\ r.pc = "hosts" /\ (r.mcp => CanQuery)
  /\ Move(c, [r EXCEPT !.pc = "ensure",
                       !.hosts = IF r.mcp THEN HostsOf(Head(r.sync)) ELSE {}])
  /\ UNCHANGED <<Rows, proxy, lock, made>>

(* ... and the proxy restarted with them.                                   *)
Ensure(c) ==
  LET r == request[c] IN
  /\ r.pc = "ensure"
  /\ proxy' = [proxy EXCEPT ![Head(r.sync)] = r.hosts]
  /\ IF Len(r.sync) = 1 THEN Finish(c)
     ELSE Move(c, [r EXCEPT !.pc = "prevEnv", !.sync = Tail(@), !.hosts = {}])
  /\ UNCHANGED <<Rows, lock, made>>

ReadPrevEnv(c) ==
  LET r == request[c]  e == envs[Head(r.sync)] IN
  /\ r.pc = "prevEnv" /\ CanQuery
  /\ IF e.row THEN Move(c, [r EXCEPT !.pc = "hosts", !.mcp = e.mcp]) ELSE Finish(c)
  /\ UNCHANGED <<Rows, proxy, lock, made>>

---------------------------------------------------------------------------
(* Environments, skills, wikis and agents change and go.                     *)

(* PATCH /v1/environments/:id of the MCP toggle, then the proxy.            *)
PatchEnv(c, e) ==
  /\ CanQuery /\ envs[e].row
  /\ envs' = [envs EXCEPT ![e].mcp = ~ @]
  /\ Arrive(c, [Idle EXCEPT !.pc = "hosts", !.on = e, !.mcp = ~ envs[e].mcp,
                            !.sync = <<e>>])
  /\ UNCHANGED <<agents, versions, skills, wikis, proxy, lock>>

(* skillInUse and environmentInUse look at every version, wikiInUse at the  *)
(* latest ones; a use refuses the delete.                                   *)
SkillInUse(k) == \E g \in VersionRows : k \in g.skills
EnvInUse(e) == \E g \in VersionRows : g.env = e
WikiInUse(w) == \E a \in Current : w \in Latest(a).writes \cup Latest(a).reads

DeleteArrives(c, o, pc) ==
  /\ CanQuery
  /\ Arrive(c, [Idle EXCEPT !.pc = pc, !.on = o])
  /\ UNCHANGED <<Rows, proxy, lock>>

DeleteSkill(c, k) == k \in skills /\ ~ SkillInUse(k) /\ DeleteArrives(c, k, "skillGone")
DeleteWiki(c, w) == w \in wikis /\ ~ WikiInUse(w) /\ DeleteArrives(c, w, "wikiGone")
DeleteEnv(c, e) == envs[e].row /\ ~ EnvInUse(e) /\ DeleteArrives(c, e, "envTear")

SkillGone(c) ==
  /\ request[c].pc = "skillGone" /\ CanQuery
  /\ skills' = skills \ {request[c].on}
  /\ Finish(c)
  /\ UNCHANGED <<agents, versions, wikis, envs, proxy, lock, made>>

WikiGone(c) ==
  /\ request[c].pc = "wikiGone" /\ CanQuery
  /\ wikis' = wikis \ {request[c].on}
  /\ Finish(c)
  /\ UNCHANGED <<agents, versions, skills, envs, proxy, lock, made>>

(* deleteEnvironmentResources, then the row.                                *)
EnvTear(c) ==
  /\ request[c].pc = "envTear"
  /\ proxy' = [proxy EXCEPT ![request[c].on] = {}]
  /\ Goto(c, "envGone")
  /\ UNCHANGED <<Rows, lock, made>>

EnvGone(c) ==
  /\ request[c].pc = "envGone" /\ CanQuery
  /\ envs' = [envs EXCEPT ![request[c].on] = NoEnv]
  /\ Finish(c)
  /\ UNCHANGED <<agents, versions, skills, wikis, proxy, lock, made>>

(* DELETE /v1/agents/:id: the row and, by cascade, its versions; no proxy   *)
(* is refreshed.                                                            *)
DeleteAgent(c, a) ==
  /\ CanQuery /\ agents[a] = "live"
  /\ request[c].pc = "idle" /\ made < MaxRequests /\ made' = made + 1
  /\ agents' = [agents EXCEPT ![a] = "gone"]
  /\ versions' = [versions EXCEPT ![a] = <<>>]
  /\ UNCHANGED <<skills, wikis, envs, proxy, lock, request>>

---------------------------------------------------------------------------
Asked(c) ==
  \/ \E a \in Agent, g \in Config : CreateAgent(c, a, g) \/ CreateVersion(c, a, g)
  \/ \E e \in Env : PatchEnv(c, e) \/ DeleteEnv(c, e)
  \/ \E k \in Skill : DeleteSkill(c, k)
  \/ \E w \in Wiki : DeleteWiki(c, w)
  \/ \E a \in Agent : DeleteAgent(c, a)

Serve(c) ==
  \/ CheckSkills(c) \/ Connect(c) \/ Lock(c) \/ TimeOut(c) \/ CheckRefs(c)
  \/ InsertAgent(c) \/ ReadPrev(c) \/ NumberVersion(c) \/ InsertVersion(c)
  \/ Release(c) \/ ReadHosts(c) \/ Ensure(c) \/ ReadPrevEnv(c)
  \/ SkillGone(c) \/ WikiGone(c) \/ EnvTear(c) \/ EnvGone(c)

CatalogNext == (\E c \in Client : Asked(c) \/ Serve(c)) /\ Follow

CatalogSpec == CatalogInit /\ [][CatalogNext]_catalogVars

(* The event loop comes back to every handler, the pool serves its queue in *)
(* order, and Postgres cancels a lock wait when lock_timeout is over.       *)
CatalogFairSpec == CatalogSpec /\ \A c \in Client : WF_catalogVars(Serve(c) /\ Follow)

---------------------------------------------------------------------------
CatalogTypeOK ==
  /\ agents \in [Agent -> {"new", "live", "gone"}]
  /\ \A a \in Agent : ToSet(versions[a]) \subseteq Config
  /\ skills \subseteq Skill /\ wikis \subseteq Wiki
  /\ envs \in [Env -> EnvRow] /\ proxy \in [Env -> SUBSET Agent]
  /\ lock \in [Wiki -> Client \cup {None}]
  /\ Cardinality(Kept) <= PoolMax /\ made \in 0..MaxRequests

(***************************************************************************)
(* Of each wiki at most one agent is the writer, whatever saves race       *)
(* (wiki-refs.ts, repo.ts acquireWikiWriteLock).                           *)
(***************************************************************************)
SingleWriter ==
  \A w \in Wiki : Cardinality({a \in Current : w \in Latest(a).writes}) <= 1

(***************************************************************************)
(* At rest a proxy lets through the MCP hosts of the latest versions bound *)
(* to its environment, and beyond them at most hosts of deleted agents,    *)
(* unless two requests about that environment overlapped (agents-api.ts    *)
(* syncEnvPolicy).                                                         *)
(***************************************************************************)
ProxyFollowsVersions ==
  (\A c \in Client : request[c].pc = "idle") =>
    \A e \in Env \ mixed :
      LET due == IF envs[e].mcp THEN HostsOf(e) ELSE {}
      IN  /\ due \subseteq proxy[e]
          /\ proxy[e] \subseteq due \cup {a \in Agent : agents[a] = "gone"}

(***************************************************************************)
(* Every request ends: the claims of one wiki that keep the pool's         *)
(* connections while they wait cannot wedge the claim that holds the lock  *)
(* (repo.ts acquireWikiWriteLock).                                         *)
(***************************************************************************)
ClaimsFinish ==
  \A c \in Client : request[c].pc # "idle" ~> request[c].pc = "idle"
===============================================================================
