CONSTANTS
    u1 = u1
    u2 = u2
    k1 = k1
    k2 = k2
    t1 = t1
    t2 = t2
    e1 = e1
    e2 = e2
    r1 = r1
    r2 = r2
    w1 = w1
    x1 = x1
    Users = {u1, u2}
    NoUser = NoUser
    Slots = {1}
    StartsAt <- MCStartsAt1
    ClientKeys = {k1}
    Amounts = {3}
    BasePrice = 5
    GroupSizes = {}
    Recurrences = {}
    Entries = {e1, e2}
    NoEntry = NoEntry
    Windows = {{1}}
    Txs = {}
    Vias = {"lookup"}
    NoBooking = NoBooking
    Requests = {}
    Cancellers = {}
    WebhookKeys = {}
    NoWebhookKey = NoWebhookKey
    Instants = {0}
    MaxWebhooks = 0
SPECIFICATION Spec
INVARIANTS
    CancellationPossible
