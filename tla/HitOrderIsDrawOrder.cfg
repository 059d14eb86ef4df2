CONSTANTS
    Windows = {w1, w2}
    WorkspaceCount = 2
    RuleWorkspaces = {1}
    RuleOnTop = {TRUE, FALSE}
    None = None
    Panel = Panel
SPECIFICATION Spec
INVARIANT HitOrderIsDrawOrder
CHECK_DEADLOCK FALSE
