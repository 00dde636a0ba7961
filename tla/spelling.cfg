CONSTANTS
    None = None
    Digits = 3
    Provisioners = {p1}
    Readers = {}
    Requests <- Respelled
SPECIFICATION Spec
INVARIANT SameConfigIsNoOp
