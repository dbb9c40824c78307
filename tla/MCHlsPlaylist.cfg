CONSTANTS
    FragmentDuration = 1
    MinDuration = 1
    MaxFragments = 9
    DeleteDelay = 1
    MaxTime = 4
    MaxSessions = 2
    MaxMetas = 2
    Lead = 3
    MaxFaults = 1
    NoFragment = NoFragment
SPECIFICATION Spec
INVARIANTS TypeOK  ListsAgree SegmentsConsecutive TrimmedStartsWithKey TrimmedExactly
CHECK_DEADLOCK FALSE
