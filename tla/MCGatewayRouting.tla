--------------------------- MODULE MCGatewayRouting ----------------------------
(* Small instances of GatewayRouting. *)
EXTENDS GatewayRouting
CONSTANTS gpt, ext

Rules(target, conds) == [target |-> target, conds |-> conds]
\* A budget on the endpoint that bears the routing's name, then the other one;
\* and a classifier and a share before a last resort that may be away.
MCRoutings == {
  [rules |-> <<Rules(gpt, {"cost", "available"})>>, terminal |-> "reject"],
  [rules |-> <<Rules(ext, {"classify", "chance"})>>, terminal |-> gpt]}
===============================================================================
