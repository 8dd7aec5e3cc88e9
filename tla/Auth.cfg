SPECIFICATION Spec
CHECK_DEADLOCK FALSE
CONSTANTS
    a1 = a1
    a2 = a2
    b1 = b1
    b2 = b2
    e1 = e1
    e2 = e2
    p1 = p1
    Users = {u1, u2, u3}
    Emails = {e1, e2, e3}
    Subjects = {s1}
    Passwords = {p1, p2}
    Tokens = {t1, t2, t3, t4}
    Families = {f1, f2, f3}
    Calls <- Actors
    RequestKinds = {"signup", "login", "codeLogin", "oauth", "refresh", "logout", "email",
                    "password", "reset", "disable", "enable", "role", "adminEmail", "delete"}
    Admin = u1
    Member = u2
    NoUser = NoUser
    NoName = NoName
    NoPassword = NoPassword
    NoToken = NoToken
    NoFamily = NoFamily
    Second = 2
    MaxTime = 3
    MaxRequests = 3
    Identifiers <- Things
    Challenges = {1}
    VerifyTokens = {1}
    Requests <- Actors
    NoIdentifier = NoIdentifier
    NoChallenge = NoChallenge
    NoVerifyToken = NoVerifyToken
    MaxAttempt = 2
    Providers <- Things
    OAuthStates = {s2, s3}
    OAuthSubjects = {x1, x2}
    Callbacks <- Actors
    Gateways <- Things
    WebRequests <- Actors
    MaxTokens = 3
    Members = {m1, m2}
    Admins = {m2}
    Titles <- Things
    Consoles <- Actors
    Edits = {d1}
    MaxAdminFaults = 1
SYMMETRY Symmetry
INVARIANTS
    RevocationHolds
    OnlyByCode
    GuessesBounded
    LoginMatchesStart
    OverlapIsNoReplay
    CookieIsCurrent
    DeletedUserOwnsNothing
PROPERTIES
    SubjectKeepsOwner
    SessionsAreFamilies
