CONSTANTS
    r1 = r1
    r2 = r2
    u1 = u1
    u2 = u2
    m1 = m1
    m2 = m2
    i1 = i1
    editor = editor
    p1 = p1
    Requests = {r1, r2}
    RowIds = {m1, m2}
    Invitations = {i1}
    Users = {u1, u2}
    Roles = {"admin", "owner"}
    Catalog = {editor}
    Permissions = {p1}
    Slug = "acme"
    Global = "global"
    Faults = {"policy", "commit", "crash"}
    s3 = s3
    ann = ann
    bob = bob
    Sockets = {r1, r2, s3}
    People = {ann, bob}
    Rooms = {room}
    Owner <- MCOwner
    MaxFrames = 2
    Visits = {r1, r2}
    Links = {l1}
    Addresses = {home}
    Secrets = {x1, x2}
    Devices = {m1, m2}
    Browsers = {m1, m2}
    Calls = {r1, r2}
    e3 = e3
    Signals = {r1, r2}
    Entries = {u1, u2, e3}
    Cases = {m1, m2}
    Threshold = 2
SYMMETRY Sym
SPECIFICATION PeopleSpec
INVARIANTS
    PolicyMirrorsRows
    MemberOnce
    MembersAreServed
    LinkWorksOnce
    OtpFlagsAgree
    OtpSecretProven
    PreferenceFollowsDevices
    OneActiveIncident
    OccurrencesAddUp
    BurstsAreNoticed
PROPERTIES
    
    MessagesArrive
CHECK_DEADLOCK FALSE
