------------------------------- MODULE AgentLoop -------------------------------
(***************************************************************************)
(* The agent loop in a session's runner pods, one pod per turn: the        *)
(* transcript in memory, on the pod's disk and in the checkpoint the next  *)
(* pod resumes from; the model calls with their retries; compaction when   *)
(* the context is nearly full; the wrap-up query of a spent budget; and    *)
(* the way out, with salvage and the final status.                         *)
(***************************************************************************)
EXTENDS Naturals, Sequences, SequencesExt

CONSTANTS
  MaxTurn,       \* bound: turns of the session
  MaxCalls,      \* max_turns of a turn's query
  MaxAttempts,   \* bounded attempts of one model call (4)
  Limit,         \* the size a history may have before it is compacted
  PromptSizes,   \* sizes of prompts
  ResultSizes,   \* sizes of what tools return
  MaxResult,     \* the size a result is cut to
  HasBuiltins,   \* the agent has built-in tools, or subagents to delegate to
  Servers        \* its MCP servers

ASSUME AgentLoopAssumption ==
  /\ MaxTurn \in Nat /\ MaxCalls \in Nat \ {0} /\ MaxAttempts \in Nat \ {0}
  /\ Limit \in Nat
  /\ PromptSizes \subseteq Nat \ {0} /\ ResultSizes \subseteq Nat \ {0}
  /\ MaxResult \in Nat \ {0} /\ HasBuiltins \in BOOLEAN

(* A message: a prompt, a note or summary that stands for dropped history,  *)
(* an answer, tool uses, or their results.                                  *)
Message(k, n) == [kind |-> k, size |-> n]
Plain(m) == m.kind \in {"prompt", "note", "summary"}

VARIABLES
  turn,      \* the session's turn
  pc,        \* where the pod stands
  history,   \* session.messages
  chars,     \* msg_chars, the tracked estimate of history
  disk,      \* the transcript in the pod's session file
  kept,      \* the transcript in the session's checkpoint
  wrap,      \* the query is the wrap-up one
  tools,     \* its requests define tools
  calls,     \* num_turns of the query
  tries,     \* bounded_attempts of the model call
  late,      \* the call's patient window is over
  subtype,   \* how the query ended
  crashed    \* the turn ends as failed

budget == <<calls, tries, late>>
loopVars == <<turn, pc, history, chars, disk, kept, wrap, tools, budget, subtype, crashed>>

SizeOf(h) == FoldLeft(LAMBDA n, m : n + m.size, 0, h)

Init ==
  /\ turn = 0 /\ pc = "boot"
  /\ history = <<>> /\ chars = 0 /\ disk = <<>> /\ kept = <<>>
  /\ wrap = FALSE /\ tools = FALSE /\ calls = 0 /\ tries = 0 /\ late = FALSE
  /\ subtype = "none" /\ crashed = FALSE

---------------------------------------------------------------------------
(* query(): the loop.                                                        *)

Append1(m) ==
  /\ history' = Append(history, m)
  /\ chars' = chars + m.size

(* query() resumes a transcript and adds its prompt, saved at once.         *)
Begin(transcript, size) ==
  LET h == Append(transcript, Message("prompt", size))
  IN /\ history' = h /\ chars' = SizeOf(h) /\ disk' = h
     /\ pc' = "top"
     /\ calls' = 0 /\ tries' = 0 /\ late' = FALSE /\ subtype' = "success"

(* The checkpoint is unpacked: the transcript is on the disk again.         *)
Restore ==
  /\ pc = "boot"
  /\ disk' = kept /\ pc' = "stageSkills"
  /\ UNCHANGED <<turn, history, chars, kept, wrap, tools, budget, subtype, crashed>>

(* McpManager.start: a server whose handshake fails is left out.            *)
Connected == SUBSET Servers
Enabled(up) == HasBuiltins \/ up # {}

Start ==
  /\ pc = "start"
  /\ \E up \in Connected, n \in PromptSizes : tools' = Enabled(up) /\ Begin(disk, n)
  /\ UNCHANGED <<turn, kept, wrap, crashed>>

ShouldCompact(h, n) == Len(h) >= 3 /\ n > Limit

QueryLimit == IF wrap THEN 2 ELSE MaxCalls

SpendBudget ==
  /\ pc = "top" /\ calls >= QueryLimit
  /\ subtype' = "error_max_turns" /\ pc' = "ended"
  /\ UNCHANGED <<turn, history, chars, disk, kept, wrap, tools, budget, crashed>>

Iterate ==
  /\ pc = "top" /\ calls < QueryLimit
  /\ pc' = IF ShouldCompact(history, chars) THEN "summarise" ELSE "ask"
  /\ UNCHANGED <<turn, history, chars, disk, kept, wrap, tools, budget, subtype, crashed>>

---------------------------------------------------------------------------
(* client.create(): one model call.                                          *)

Calling == pc \in {"summarise", "ask"}

TextifiedNever(h) == h  \* mutant: the tool blocks stay

(* _textified: tool uses and results as text, for a request without tools.  *)
Textified(h) ==
  [i \in DOMAIN h |-> Message(CASE h[i].kind = "use" -> "answer"
                                [] h[i].kind = "results" -> "prompt"
                                [] OTHER -> h[i].kind, h[i].size)]

Request == IF pc = "ask" /\ tools THEN history ELSE Textified(history)

PatienceEnds ==
  /\ Calling /\ ~ late
  /\ late' = TRUE
  /\ UNCHANGED <<turn, pc, history, chars, disk, kept, wrap, tools, calls, tries, subtype, crashed>>

(* A call that raises: the turn's call ends the query, the summary's makes  *)
(* the loop drop history instead.                                           *)
CallRaises ==
  /\ pc' = IF pc = "ask" THEN "ended" ELSE "drop"
  /\ subtype' = IF pc = "ask" THEN "error_during_execution" ELSE subtype
  /\ tries' = 0 /\ late' = FALSE
  /\ UNCHANGED <<turn, history, chars, disk, kept, wrap, tools, calls, crashed>>

CallRefused == Calling /\ CallRaises

(* A 503 or a connection that failed: again until the window is over.       *)
RetryPatiently == Calling /\ late /\ CallRaises

(* Another retryable error: so many attempts, however many patient ones.    *)
RetryBounded ==
  /\ Calling
  /\ IF tries + 1 >= MaxAttempts THEN CallRaises
     ELSE /\ tries' = tries + 1
          /\ UNCHANGED <<turn, pc, history, chars, disk, kept, wrap, tools, calls, late,
                         subtype, crashed>>

---------------------------------------------------------------------------
(* Compaction.                                                               *)

(* The history is replaced, recounted and saved.                            *)
Compacted(h) ==
  /\ history' = h /\ chars' = SizeOf(h) /\ disk' = h
  /\ pc' = "ask"

Summarise ==
  /\ pc = "summarise"
  /\ Compacted(<<Message("summary", 1)>>)
  /\ tries' = 0 /\ late' = FALSE
  /\ UNCHANGED <<turn, kept, wrap, tools, calls, subtype, crashed>>

DropOneLess(h) == \* mutant: the half is cut one message too early
  LET from == {i \in DOMAIN h : i >= Len(h) \div 2 /\ Plain(h[i])}
      rest == IF from = {} THEN <<>>
              ELSE SubSeq(h, CHOOSE i \in from : \A j \in from : i <= j, Len(h))
  IN <<Message("note", 1)>> \o rest

(* drop_oldest: the newer half from its first plain user message on.        *)
DropOldest(h) ==
  LET from == {i \in DOMAIN h : i > Len(h) \div 2 /\ Plain(h[i])}
      rest == IF from = {} THEN <<>>
              ELSE SubSeq(h, CHOOSE i \in from : \A j \in from : i <= j, Len(h))
  IN <<Message("note", 1)>> \o rest

TooLong == Len(history) > 2 /\ ShouldCompact(history, SizeOf(history))

Drop ==
  /\ pc = "drop" /\ TooLong
  /\ history' = DropOldest(history)
  /\ UNCHANGED <<turn, pc, chars, disk, kept, wrap, tools, budget, subtype, crashed>>

Dropped ==
  /\ pc = "drop" /\ ~ TooLong
  /\ Compacted(history)
  /\ UNCHANGED <<turn, kept, wrap, tools, budget, subtype, crashed>>

---------------------------------------------------------------------------
(* The model's response.  Each yield posts events, which may fail: then the *)
(* exception ends the query where it stands (EmitFails).                    *)

(* What a stream's finished blocks can be, once thinking is dropped; a      *)
(* response of none of them is an answer without output.                    *)
Blocks == {"text", "tool_use"}

Respond ==
  /\ pc = "ask"
  /\ calls' = calls + 1 /\ tries' = 0 /\ late' = FALSE
  /\ \E blocks \in SUBSET Blocks : pc' = IF "tool_use" \in blocks THEN "using" ELSE "answering"
  /\ UNCHANGED <<turn, history, chars, disk, kept, wrap, tools, subtype, crashed>>

Answer ==
  /\ pc = "answering"
  /\ Append1(Message("answer", 1))
  /\ disk' = history'
  /\ pc' = "ended"
  /\ UNCHANGED <<turn, kept, wrap, tools, budget, subtype, crashed>>

UseSaved == \* mutant: the tool uses are saved before their results
  /\ pc = "using"
  /\ Append1(Message("use", 1))
  /\ disk' = history'
  /\ pc' = "running"
  /\ UNCHANGED <<turn, kept, wrap, tools, budget, subtype, crashed>>

(* The tool uses are in the history alone until their results are.          *)
Use ==
  /\ pc = "using"
  /\ Append1(Message("use", 1))
  /\ pc' = "running"
  /\ UNCHANGED <<turn, disk, kept, wrap, tools, budget, subtype, crashed>>

Capped(n) == IF n > MaxResult THEN MaxResult + 1 ELSE n

(* A tool's failure is a result, as is the use of a tool there is not.      *)
Results == {Capped(n) : n \in ResultSizes}

RunTools ==
  /\ pc = "running"
  /\ \E n \in Results : Append1(Message("results", n))
  /\ disk' = history'
  /\ pc' = "telling"
  /\ UNCHANGED <<turn, kept, wrap, tools, budget, subtype, crashed>>

Tell ==
  /\ pc = "telling"
  /\ pc' = "top"
  /\ UNCHANGED <<turn, history, chars, disk, kept, wrap, tools, budget, subtype, crashed>>

---------------------------------------------------------------------------
(* main(): the way out.                                                      *)

(* The query is over, and its state with it.                                *)
QueryOver == history' = <<>> /\ chars' = 0 /\ calls' = 0 /\ tries' = 0 /\ late' = FALSE

(* The main query spent its budget: one wrap-up query, without tools.       *)
WrapUp ==
  /\ pc = "ended" /\ ~ wrap /\ subtype = "error_max_turns"
  /\ wrap' = TRUE /\ tools' = FALSE
  /\ Begin(disk, 1)
  /\ UNCHANGED <<turn, kept, crashed>>

(* The query ended otherwise; an error of the wrap-up is not a failure.     *)
Finish ==
  /\ pc = "ended" /\ (wrap \/ subtype # "error_max_turns")
  /\ crashed' = (subtype # "success" /\ ~ wrap)
  /\ pc' = "syncOutputs"
  /\ QueryOver
  /\ UNCHANGED <<turn, disk, kept, wrap, tools, subtype>>

(* An exception of the query: the turn crashes, and goes on to salvage when *)
(* the crash itself can be posted.                                          *)
QueryRaises ==
  /\ crashed' = TRUE
  /\ pc' \in {"syncOutputs", "reporting"}
  /\ QueryOver
  /\ UNCHANGED <<turn, disk, kept, wrap, tools, subtype>>

(* A post of events failed for good where the query yields.                 *)
EmitFails == pc \in {"start", "answering", "using", "telling", "ended"} /\ QueryRaises

(* An MCP server sent what neither the handshake nor the call expects.      *)
ServerBreaksQuery == Servers # {} /\ pc \in {"start", "running"} /\ QueryRaises

(* An exception outside it: the last handler reports failed, and no more.   *)
Abort ==
  /\ crashed' = TRUE /\ pc' = "reporting"
  /\ UNCHANGED <<turn, history, chars, disk, kept, wrap, tools, budget, subtype>>

(* A step of salvage that fails is passed over, unless the event that says  *)
(* so fails as well.                                                        *)
SaveCheckpoint ==
  /\ pc = "saveCheckpoint"
  /\ \/ /\ pc' \in {"saved", "reporting"}
        /\ UNCHANGED <<turn, history, chars, disk, kept, wrap, tools, budget, subtype, crashed>>
     \/ Abort

(* The pod is gone, and what it did not post.                               *)
PodGone ==
  /\ pc' = "rest"
  /\ QueryOver
  /\ disk' = <<>> /\ wrap' = FALSE /\ tools' = FALSE
  /\ subtype' = "none" /\ crashed' = FALSE
  /\ UNCHANGED turn

(* The final status is posted, with the checkpoint if there is one.         *)
Report ==
  /\ pc \in {"saved", "reporting"}
  /\ kept' = IF pc = "saved" THEN disk ELSE kept
  /\ PodGone

Evict == pc # "rest" /\ PodGone /\ UNCHANGED kept

(* A follow-up: a new pod.                                                  *)
FollowUp ==
  /\ pc = "rest" /\ turn < MaxTurn
  /\ turn' = turn + 1 /\ pc' = "boot"
  /\ UNCHANGED <<history, chars, disk, kept, wrap, tools, budget, subtype, crashed>>

---------------------------------------------------------------------------
Call == CallRefused \/ RetryPatiently \/ RetryBounded \/ Summarise \/ Respond

Loop ==
  \/ Restore \/ Start \/ SpendBudget \/ Iterate \/ Drop \/ Dropped
  \/ Answer \/ Use \/ Tell
  \/ WrapUp \/ Finish \/ SaveCheckpoint
---------------------------------------------------------------------------
(* A transcript a strict backend takes: it begins with a plain user         *)
(* message, and tool uses and their results come in pairs.                  *)
Valid(h) ==
  /\ Plain(Head(h))
  /\ \A i \in 1..(Len(h) - 1) : h[i].kind = "use" <=> h[i + 1].kind = "results"
  /\ h[Len(h)].kind # "use"

ToolBlocks(h) == \E i \in DOMAIN h : h[i].kind \in {"use", "results"}

(***************************************************************************)
(* Every request carries a valid transcript (compact.py, "a leading        *)
(* tool_result without its tool_use is an invalid transcript"), and no     *)
(* tool blocks when it defines no tools (query.py, _textified): after a    *)
(* resume from whatever checkpoint, a compaction, a degraded compaction.   *)
(***************************************************************************)
RequestsAreValid ==
  Calling => Valid(Request) /\ (ToolBlocks(Request) => pc = "ask" /\ tools)

(***************************************************************************)
(* "Transcript persistence is pair-atomic ... a crash at any yield can     *)
(* never persist a dangling tool_use" (query.py): what is on disk, and in  *)
(* the checkpoint, can be resumed from.                                    *)
(***************************************************************************)
SavedIsValid ==
  /\ disk # <<>> => Valid(disk)
  /\ kept # <<>> => Valid(kept)

(***************************************************************************)
(* A pod comes to its end, whatever calls and posts fail: retries are      *)
(* bounded, by attempts or by the window, the budget is spent, and         *)
(* compaction ends - but for one history that dropping its older half      *)
(* gives back unchanged, on which the loop's "drop oldest until the        *)
(* history fits" (query.py) never ends: a note, a prompt that was saved by *)
(* a crashed turn, and the prompt of this one, together too long.          *)
(***************************************************************************)
Stuck ==
  /\ pc = "drop" /\ TooLong
  /\ [i \in DOMAIN history |-> history[i].kind] = <<"note", "prompt", "prompt">>

PodEnds == pc = "boot" ~> (pc = "rest" \/ Stuck)
===============================================================================
