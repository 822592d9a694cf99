CONSTANTS
    u1 = u1
    u2 = u2
    k1 = k1
    k2 = k2
    t1 = t1
    t2 = t2
    e1 = e1
    e2 = e2
    r1 = r1
    r2 = r2
    w1 = w1
    x1 = x1
    Users = {u1, u2}
    NoUser = NoUser
    Slots = {1, 2}
    StartsAt <- MCStartsAt2
    ClientKeys = {}
    Amounts = {3}
    BasePrice = 5
    GroupSizes = {}
    Recurrences <- MCRecurrences1
    Entries = {e1}
    NoEntry = NoEntry
    Windows = {{1, 2}}
    Txs = {}
    Vias = {"lookup"}
    NoBooking = NoBooking
    Requests = {}
    Cancellers = {}
    WebhookKeys = {}
    NoWebhookKey = NoWebhookKey
    Instants = {0, 11, 31}
    MaxWebhooks = 0
SYMMETRY Sym
SPECIFICATION Spec
PROPERTIES
    FreshBookingHasItsSlot
    EntryServedOnce
