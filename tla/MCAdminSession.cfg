CONSTANTS
    Browser = {b1, b2}
    Request = {r1}
    NoToken = NoToken
    Ttl = 2
    MaxNow = 5
    MaxDrift = 1
    MaxSteps = 1
    MaxLogins = 2
SYMMETRY Symmetry
SPECIFICATION Spec
INVARIANT TypeOK
PROPERTY EndedStaysEnded
PROPERTY AcceptedIsYoung
PROPERTY HonouredWithinTtl
CHECK_DEADLOCK FALSE
