\* Bounded inputs of the pure algorithms; two delays, instants of a hundredth.
SPECIFICATION Spec
CONSTANTS
    Texts <- MCTexts
    Runes <- MCRunes
    Items <- MCItems
    Truths = {"true"}
    Falsehoods = {"0"}
    Positive = {"n8"}
    Durations = {"n8"}
    Certified = {"x"}
    Refused = Refused
    Absent = Absent
    Null = Null
    Other = Other
    Blank <- MCBlank
    Amounts <- MCAmounts
    Times <- MCTimes
    Instant <- MCInstant
    Offset <- MCOffset
    ZeroTime = 0
    Objects <- MCObjects
    Canonical <- MCCanonical
    Delays = {0, 1, 2, 3, 4, 5, 6, 7, 8, 9, 10, 11, 12}
    LastAttempt = 8
    LastInstant = 120
    Precision = 2
    Characters = {"a", ":"}
    Separator = ":"
    LastCharacter = 2
INVARIANTS DelayIsCappedPower OrderFailsWithinSecondOnly KeysAreUnambiguous AcceptsTheContract DefaultsAreAcceptable ToolsAgree
PROPERTY StableUnderRedeploy
\* The last attempt and the last instant have no successor.
CHECK_DEADLOCK FALSE
