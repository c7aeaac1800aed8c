--------------------------- MODULE MCTerminalOutbox ----------------------------
(***************************************************************************)
(* Two terminal events of one dispatch, of different types.                *)
(***************************************************************************)
EXTENDS TerminalOutbox

CONSTANTS e1, e2

MCEvent == {e1, e2}
OneDispatch == [e \in MCEvent |-> "dispatch"]
TwoTypes == [e \in MCEvent |-> IF e = e1 THEN "run.completed" ELSE "run.failed"]
AllNames == SUBSET {"dispatchId", "eventType"}
================================================================================
