SPECIFICATION CheckSpec
CONSTANTS
    Letter = {1, 2}
    MaxLen = 2
    MaxAdds = 3
    Object <- MCObject
    NoName = NoName
    MaxChecked = 1
INVARIANT AclComplete
CHECK_DEADLOCK FALSE
