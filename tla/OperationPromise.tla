--------------------------- MODULE OperationPromise ----------------------------
(***************************************************************************)
(* What the claim fence of native operations promises for each operation   *)
(* id, crashes and redeliveries included: the native change is made at     *)
(* most once; one verdict is reached and never revised; a verdict that the *)
(* change was not made, or was made, is the truth, and after any verdict   *)
(* the change is not made any more.                                        *)
(***************************************************************************)
CONSTANT Id

VARIABLES
    made,    \* the ids whose native change was made
    verdict  \* the verdict reached for each id

Verdict == {"none", "noStart", "done", "unknown"}

Init ==
    /\ made = {}
    /\ verdict = [i \in Id |-> "none"]

Make(i) ==
    /\ i \notin made
    /\ verdict[i] = "none"
    /\ made' = made \cup {i}
    /\ UNCHANGED verdict

Conclude(i, v) ==
    /\ verdict[i] = "none"
    /\ v = "noStart" => i \notin made
    /\ v = "done" => i \in made
    /\ verdict' = [verdict EXCEPT ![i] = v]
    /\ UNCHANGED made

Next ==
    \E i \in Id : \/ Make(i)
                  \/ \E v \in Verdict \ {"none"} : Conclude(i, v)

Spec == Init /\ [][Next]_<<made, verdict>>
================================================================================
