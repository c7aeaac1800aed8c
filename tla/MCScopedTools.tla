----------------------------- MODULE MCScopedTools -----------------------------
(* Payloads for ScopedTools: two tools with one callable name, one with an *)
(* alias that is the callable name of another, one that collides with a    *)
(* tool of Hermes and one that has no route.                               *)
EXTENDS ScopedTools, TLC

CONSTANTS r1, r2, mail, copy, agentApi, api, shadow, noRoute

MCTool == {mail, copy, agentApi, api, shadow, noRoute}
MCName == {"x_mail", "web", "agentApi", "linkcrest_agent_api", "linkcrest.agentApi"}
MCCallableOf == mail :> "x_mail" @@ copy :> "x_mail" @@ api :> "agentApi"
                @@ agentApi :> "linkcrest_agent_api"
                @@ shadow :> "web" @@ noRoute :> "x_mail"
MCAliasesOf == [t \in MCTool |-> IF t = agentApi THEN {"agentApi", "linkcrest.agentApi"}
                                 ELSE {}]
MCPayload == {<<>>, <<noRoute, mail, copy, api>>, <<agentApi, api, copy>>, <<mail, shadow>>}

================================================================================
