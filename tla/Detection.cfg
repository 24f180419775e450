SPECIFICATION Spec
CONSTANTS
    nospan = nospan
    Types <- MCTypes
    CriticalTypes = {"phone", "email", "inn", "card_number", "cvv"}
    Detectors = 5
    Supports <- MCSupports
    OfferedTexts <- MCTexts
    OfferedPolicies <- MCPolicies
    Spans <- MCSpans
    Shapes <- MCShapes
    MaxRecordLines = 2
    MaxRecordSize = 6
    WindowSize = 4
    NoSpan = nospan
INVARIANTS MaskedExactly StrongestNames EvidenceIsLocal MasksHideAPart
CHECK_DEADLOCK FALSE
