----------------------------- MODULE MCAgentSync -------------------------------
(* Instances of AgentSync: a profile, and a workspace of the older kind.   *)
EXTENDS AgentSync

CONSTANTS a1, a2

NewRelay == {{"v1", "v2", "v3"}}
OldRelay == {{"v1", "v2", "v3"}, {"v1"}}

\* All contents are documents, or there are some of other kinds.
SomeKinds == {<<"text", "text", "text", "text">>, <<"text", "nul", "large", "garbled">>}

================================================================================
