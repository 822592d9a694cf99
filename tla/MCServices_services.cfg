SPECIFICATION ServicesSpec

CONSTANTS
    Readers = {p1}
    Writers = {w1, w2}
    Attempts = {a1, a2}
    MaxAttempts = 2
    Duration = 2
    email = email
    phone = phone
    Channels = {email, phone}
    Mails = {email}
    Templates = {email}
    Chain <- MCChain
    Retried = {"resend", "fcm", "onesignal"}
    Retries = 2
    Days = {0, 1}
    DayLength = 4
    RuleIds = {1, 2}
    RuleChoices <- MCRuleChoices
    Closures <- MCClosures
    Windows <- MCWindows
    Generations = {m1, m2}
    ForwardAt = 3
    BackAt = 6
    Shift = 1
    q1 = q1
    q2 = q2
    q3 = q3
    tab1 = tab1
    tab2 = tab2
    Sends = {q1, q2, q3}
    Tabs = {tab1, tab2}
    Tab <- MCTab
    Verifications = {y1, y2}
    HoldRequests = {h1, h2}
    Customers = {c1, c2}
    Nobody = Nobody

INVARIANTS
    KeptAnswersAreRight
    FewFailuresPerWindow
    PromiseKept
    CopiesAccounted
    FailsAfterAll
    SlotsDoNotOverlap
    WindowsCompose
    SessionSurvives

PROPERTIES
    AnswersCatchUp
    LockoutEnds
    RequestsEnd
    RowFollowsMoney
    SlotIsKept

CHECK_DEADLOCK FALSE
