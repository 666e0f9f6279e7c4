SPECIFICATION Spec
CONSTANTS
    MaxSlots = 4
    HandleGens = 3
    o1 = o1
    o2 = o2
    Objects <- MCObjects
    Rights = {"REVOKE"}
    REVOKE = "REVOKE"
    NoObject = NoObject
    MaxGrants = 4
SYMMETRY MCSymmetry
INVARIANTS TableSound AuthorityIsGranted LineageNarrows
PROPERTIES StaysDead RevokeDisarms
CHECK_DEADLOCK FALSE
