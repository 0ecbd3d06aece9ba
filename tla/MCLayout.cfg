CONSTANTS
    Blocks = {b1, b2, b3}
    None = None
    GroupIds = {1, 2, 3, 4, 5, 6, 7, 8}
    MaxChildren = 2
    MaxWaiting = 1
    Scenarios = {{"drag", "delete"}, {"focus", "close", "magnify", "insert", "delete", "ephemeral", "container"}, {"focus", "close", "clear", "replace", "split", "insertAt"}, {"resize", "delete"}, {"create", "close", "magnify"}}
SYMMETRY BlockSymmetry
CHECK_DEADLOCK FALSE
SPECIFICATION LayoutSpec
INVARIANTS
    TreeKept
PROPERTIES
    StepsKeep
