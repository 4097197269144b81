\* The approval of a sales document under quorum, delegation, edits and voids.
CONSTANTS
    u1 = u1
    u2 = u2
    u3 = u3
    s1 = s1
    s2 = s2
    Users = {u1, u2, u3}
    Admins = {}
    InitialHolders = {u1, u2}
    Designs <- TwoOrAll
    Sessions = {s1, s2}
    Nobody = Nobody
    MaxVisits = 5
    MaxEdits = 1
    MaxChanges = 2
SPECIFICATION Spec
SYMMETRY Symmetry
INVARIANTS
    TypeOK
    QuorumReallyMet
    DocumentAndInboxAgree
PROPERTY NoEditInReview
CHECK_DEADLOCK FALSE
