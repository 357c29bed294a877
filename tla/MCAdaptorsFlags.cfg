\* A vector<bool> into which one array after another is converted.
SPECIFICATION Spec
CONSTANTS
    Type <- MCFlags
    Message <- MCMessage
    Number <- MCNumber
    Count <- MCCount
    MaxItems = 2
    PERIOD = 4
    Unset = Unset
INVARIANTS
    Overwritten
CHECK_DEADLOCK FALSE
