-------------------------- MODULE MCProfileSupervisor --------------------------
(* A dispatch and a structured job of one profile, under two binding       *)
(* epochs.                                                                 *)
EXTENDS ProfileSupervisor

CONSTANTS d1, j1, p1, e1, e2

MCProfileOf == [w \in {d1, j1} |-> p1]
MCEpochOf == [w \in {d1, j1} |-> IF w = j1 THEN e2 ELSE e1]
================================================================================
