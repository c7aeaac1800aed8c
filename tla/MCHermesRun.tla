------------------------------ MODULE MCHermesRun ------------------------------
(* Two dispatches for HermesRun: one agent, one session, one lock key.     *)
EXTENDS HermesRun, TLC

CONSTANTS d1, d2, agentKey, session

MCDispatch == {d1, d2}
MCSession == {session}
MCKey == {agentKey}

SharedKeyOf == d1 :> agentKey @@ d2 :> agentKey
OneSession == d1 :> session @@ d2 :> session

NoneOf == {}
OneDispatch == {d1}
OtherDispatch == {d2}
================================================================================
