SPECIFICATION Spec
CONSTANTS
    NoPet = NoPet
    NoUser = NoUser
    Pets = {p1, p2}
    Users = {u1}
    Stored = {p1, u1}
    Requests = {r1, r2, r3}
SYMMETRY RequestSymmetry
INVARIANTS
    TypeInv
    NoLostPut
    AnswersCurrent
PROPERTIES
    OnlyPutsKill
CHECK_DEADLOCK FALSE
