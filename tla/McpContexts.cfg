SPECIFICATION McpSpec
CONSTANTS
    ChatCalls = {p1, p2}
    RunCalls = {n1}
    Servers = {m1}
    NoSet = NoSet
INVARIANT ServersStayUp
\* All prompts and runs over, nothing is left to do.
CHECK_DEADLOCK FALSE
