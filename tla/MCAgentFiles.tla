------------------------------ MODULE MCAgentFiles -----------------------------
(* Instances of AgentFiles: two operations at a path of two contents.      *)
EXTENDS AgentFiles, TLC

CONSTANTS o1, o2, c1, c2

\* Every command but writes of what is there already and creations for the version
\* of a file other than the one to be created.
MCAsked == {c \in Command : CASE c.action = "create" -> c.base \in {Absent, c.content}
                              [] c.action = "write"  -> c.base # c.content
                              [] OTHER               -> TRUE}

\* Operations and contents are interchangeable; none is chosen by name.
Alike == Permutations(Op) \cup Permutations(Content)

================================================================================
