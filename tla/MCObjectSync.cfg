CONSTANTS
    Base = b0
    NewBlocks = {b1, b2}
    MaxVersion = 12
    Scenarios = {{"create", "close"}, {"create", "command"}, {"create", "close", "reinit"}, {"create", "cleanup"}, {"create", "crash"}, {"create", "close", "overlap"}}
CHECK_DEADLOCK FALSE
SPECIFICATION SyncSpec
INVARIANTS
    BlocksAgree
PROPERTIES
    ClosedStaysClosed
    Settles
