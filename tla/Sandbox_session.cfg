\* Two calls, two tool calls per code.
SPECIFICATION FairSession
CONSTANTS
    Calls = 2
    ToolCalls = 2
CHECK_DEADLOCK FALSE
INVARIANTS ResultIsOwn QuietBetweenCalls SessionKept
PROPERTY ImplementsSandboxCall
