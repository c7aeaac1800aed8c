------------------------------ MODULE MCNativeOps ------------------------------
(***************************************************************************)
(* Two commands on two operation ids.                                      *)
(***************************************************************************)
EXTENDS NativeOps

CONSTANTS c1, c2, i1, i2

MCCommand == {c1, c2}
MCId == {i1, i2}
MCIdOf == [c \in MCCommand |-> IF c = c1 THEN i1 ELSE i2]
OneChecked == {i2}
================================================================================
