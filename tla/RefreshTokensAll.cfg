SPECIFICATION Spec
CONSTANTS
    t1 = t1
    t2 = t2
    t3 = t3
    t4 = t4
    f1 = f1
    f2 = f2
    u1 = u1
    c1 = c1
    c2 = c2
    NoToken = NoToken
    NoFamily = NoFamily
    NoUser = NoUser
    Tokens <- FourTokens
    Families <- TwoFamilies
    Users <- OneUser
    Calls <- TwoCalls
    MaxRevokes = 1
    RedisErrors = TRUE
CHECK_DEADLOCK FALSE
SYMMETRY Symmetry
INVARIANTS
    CurrentTokenUsable
    RevokedStaysDead
    RevokeUserReachesAll
PROPERTIES
    ImplementsTokenFamilies
