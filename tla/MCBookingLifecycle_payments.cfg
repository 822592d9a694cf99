CONSTANTS
    u1 = u1
    u2 = u2
    k1 = k1
    k2 = k2
    t1 = t1
    t2 = t2
    e1 = e1
    e2 = e2
    r1 = r1
    r2 = r2
    w1 = w1
    x1 = x1
    Users = {u1}
    NoUser = NoUser
    Slots = {1}
    StartsAt <- MCStartsAt1
    ClientKeys = {k1}
    Amounts = {3}
    BasePrice = 5
    GroupSizes = {}
    Recurrences = {}
    Entries = {}
    NoEntry = NoEntry
    Windows = {}
    Txs = {t1, t2}
    Vias = {"lookup", "execute", "return"}
    NoBooking = NoBooking
    Requests = {r1}
    Cancellers = {x1}
    WebhookKeys = {w1}
    NoWebhookKey = NoWebhookKey
    Instants = {0, 100}
    MaxWebhooks = 2
SYMMETRY Sym
CHECK_DEADLOCK FALSE
SPECIFICATION Spec
INVARIANTS
    RefundsCovered
    ConfirmedOnlyIfCaptured

    
    
