SPECIFICATION Spec
CONSTANTS
    ap = ap  in = in  tl = tl
    Approvals <- OneApproval
    Inputs <- OneInput
    Tools <- OneTool
    Verdicts <- YesOrNo
    MaxCalls = 2
    Counts <- FewMishaps
INVARIANTS ToolsSound RowsAgree
PROPERTIES OnlyAwaitReopens
CHECK_DEADLOCK FALSE
