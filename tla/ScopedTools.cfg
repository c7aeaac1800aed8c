SPECIFICATION Spec
CONSTANTS
    r1 = r1
    r2 = r2
    mail = mail
    copy = copy
    agentApi = agentApi
    api = api
    shadow = shadow
    noRoute = noRoute
    Run = {r1, r2}
    NoRun = NoRun
    Payload <- MCPayload
    Tool <- MCTool
    NoTool = NoTool
    Stub = Stub
    Name <- MCName
    BuiltIn = {"web"}
    StubName = {"agentApi", "linkcrest_agent_api", "linkcrest.agentApi"}
    RealName = {"linkcrest_agent_api", "linkcrest.agentApi"}
    Visible = {"x_mail", "agentApi", "linkcrest_agent_api", "web"}
    CallableOf <- MCCallableOf
    AliasesOf <- MCAliasesOf
    Usable = {mail, copy, agentApi, api, shadow}
CHECK_DEADLOCK FALSE
INVARIANTS Consistent RunsAreApart
