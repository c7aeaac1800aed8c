------------------------------ MODULE MCLocalApps ------------------------------
(* Instances of LocalApps: repositories with the same start command, the   *)
(* bridge b and a profile worker w.                                        *)
EXTENDS LocalApps

CONSTANTS a1, a2, r1, r2, p1, p2, b, w

MCCommand == {"pnpm dev", "make"}
MCStartCommand == [a \in App |-> "pnpm dev"]
MCStartup == [a \in App |-> <<"make", "pnpm dev">>]
MCAllowed == {"pnpm dev"}
MCMethod == {"POST", "TRACE"}
MCPath == {<<"api", ".", "openclaw", "", "x">>, <<"api", "openclaw", "..", "x">>,
           <<"api">>}
MCPort == [a \in App |-> IF a = a1 THEN 3052 ELSE 3053]
MCAppOf == [r \in Dispatch |-> IF r = r1 \/ Cardinality(App) = 1 THEN a1 ELSE a2]

================================================================================
