CONSTANTS
    None = None
    NoToken = NoToken
    s1 = s1  s2 = s2  o1 = o1  o2 = o2  u1 = u1  u2 = u2
    ann = ann  bob = bob
    User = {u1, u2}
    UserName = {ann, bob}
    admin = ann
    Process = {p1, p2}
    Client = {c1, c2}
    AccessTTL = 1
    RefreshTTL = 3
    MaxTime = 4
    Source = {s1, s2}
    Object = {o1, o2}
    SourceOf <- MCSourceOf
    AlertRule = {r1, r2}
    Change = {h1}
    MaxAttempts = 3
    Request = {q1, q2}
    MaxPairs = 4
    Traffic <- MCTraffic
SPECIFICATION Spec
SYMMETRY Symmetric
CHECK_DEADLOCK FALSE
INVARIANTS
    PeopleIntegrity
    RightsExpire
    ScopeAgrees
    EveryMatchNotified
    InboxComplete
    WebhookAccount
    SessionEndsAtLogout
    StartsMigrated
