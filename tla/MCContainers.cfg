SPECIFICATION MCSpec
CONSTANTS
    a = a
    b = b
    Kinds = {"deque", "vector"}
    Values = {a, b}
    Default = a
    MaxSize = 6
    Ranges <- MCRanges
    Nodes = {n1, n2, n3, n4}
    Lists = {x, y}
    Tmp = tmp
CHECK_DEADLOCK FALSE
INVARIANTS
    SlotsSafe
    LinksFollow
PROPERTIES
    IsBoundedSequence
