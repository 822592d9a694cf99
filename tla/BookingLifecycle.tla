-------------------------- MODULE BookingLifecycle --------------------------
(***************************************************************************)
(* One resource's slots, the bookings on them, their payments and their    *)
(* waitlist: the handlers of /slots, /bookings, /waitlist and              *)
(* /payments/verify and the two maintenance tasks, over the rows they      *)
(* share.                                                                  *)
(*                                                                         *)
(* Every handler is one transaction and one action, with two exceptions.   *)
(* The provider service commits the transaction row before the endpoint    *)
(* commits what the payment means to the booking, so the verification of a *)
(* payment is VerifyFetch and VerifyApply with anything, a crash included, *)
(* between them.  And cancel_booking decides on the rows it has read, which *)
(* nothing locks: StartCancel reads and FinishCancel writes.  A request    *)
(* that is rejected leaves no trace and has no action.                     *)
(*                                                                         *)
(* A booking is identified by its idempotency key (unique in the table),   *)
(* so the table is a function from every possible key to a row, "absent"   *)
(* until the insert.                                                       *)
(***************************************************************************)
EXTENDS BookingPolicy, FiniteSets, Sequences

CONSTANTS
    Users,          \* customers
    NoUser,
    Slots,          \* slots of the resource, numbered in the order of starts_at
    StartsAt,       \* starts_at of each slot, in minutes
    ClientKeys,     \* Idempotency-Key values the clients send with POST /bookings
    Amounts,        \* quoted amounts, after promo code and group surcharge
    BasePrice,      \* base_price_minor of the resource
    GroupSizes,     \* participants of a group booking
    Recurrences,    \* the slots a recurring request resolves to, as sequences
    Entries,        \* waitlist entry ids
    NoEntry,
    Windows,        \* the sets of slots a desired_start_at/desired_end_at range covers
    Txs,            \* payment transaction ids
    Vias,           \* kinds of payment provider that are enabled
    NoBooking,
    Requests,       \* verifications that may be in flight together
    Cancellers,     \* cancellations that may be in flight together
    WebhookKeys,    \* Idempotency-Key values sent with POST /payments/verify
    NoWebhookKey,
    Instants,       \* the times the clock may show
    MaxWebhooks     \* bound on the rows of payment_webhooks

MaxRepeat == 26     \* upper bound of repeat_count

ASSUME SlotsAssumption ==
    /\ Slots \subseteq Nat \ {0}
    /\ StartsAt \in [Slots -> Nat]
ASSUME PriceAssumption == Amounts \subseteq Nat /\ BasePrice \in Nat
ASSUME GroupAssumption == GroupSizes \subseteq Nat \ {0}
ASSUME RecurrenceAssumption ==
    \A chain \in Recurrences :
        /\ chain \in Seq(Slots)
        /\ Len(chain) <= MaxRepeat
        /\ \A i, j \in 1 .. Len(chain) : chain[i] = chain[j] => i = j
ASSUME WaitlistAssumption == NoEntry \notin Entries /\ Windows \subseteq SUBSET Slots
ASSUME ViaAssumption == Vias \subseteq {"lookup", "execute", "return"}
ASSUME AbsenceAssumption == NoUser \notin Users /\ NoWebhookKey \notin WebhookKeys
ASSUME ClockAssumption == Instants \subseteq Nat /\ 0 \in Instants

VARIABLES
    now,            \* the server's clock
    slot,           \* slot[s]: status and hold_expires_at
    hold,           \* the redis key booking:slot-hold:{s}
    booking,        \* booking[k]: the row whose idempotency_key is k
    entry,          \* entry[e]: the waitlist entry
    tx,             \* tx[t]: the payment transaction row; the status it gets from
                    \* verifications is PaymentGateway's
    charge,         \* what the payment provider knows of transaction t
    believed,       \* transactions said to be completed while the charge was not paid
    verifying,      \* verifications between their two commits
    webhookKeys,    \* idempotency keys found in payment_webhooks
    webhooks,       \* number of rows of payment_webhooks
    payout,         \* payout[k]: sum of the Payout rows of booking k
    refunded,       \* refunded[k]: sum of the RefundRecord rows of booking k
    cancelling,     \* cancellations that have read their rows and not yet committed
    crossed         \* bookings whose cancellation was decided on rows since changed

inventoryVars == <<slot, hold, booking>>
paymentVars == <<tx, charge, believed, verifying, webhookKeys, webhooks>>
cancelVars == <<cancelling, crossed>>
moneyVars == <<payout, refunded, cancelVars>>
vars == <<now, slot, hold, booking, entry, tx, charge, believed, verifying,
          webhookKeys, webhooks, payout, refunded, cancelling, crossed>>

-----------------------------------------------------------------------------
(* Rows.                                                                   *)

ClientKey(k) == <<"client", k>>
GroupKey(u, s, n) == <<"group", u, s, n>>
RecurringKey(u, s, i) == <<"recurring", u, s, i>>
WaitlistKey(e, s) == <<"waitlist", e, s>>

BookingKeys ==
    {ClientKey(k) : k \in ClientKeys}
        \cup {GroupKey(u, s, n) : u \in Users, s \in Slots, n \in GroupSizes}
        \cup (UNION {{RecurringKey(u, chain[i], i - 1) : u \in Users, i \in DOMAIN chain} :
                     chain \in Recurrences})
        \cup {WaitlistKey(e, s) : e \in Entries, s \in Slots}

NoSlot == 0

AbsentBooking == [status |-> "absent", payment |-> "pending", refund |-> "none",
                  user |-> NoUser, slot |-> NoSlot, amount |-> 0]

\* Mutant: the booking_slot row is not inserted.
NewBookingWithoutSlot(u, s, amount) ==
    [AbsentBooking EXCEPT !.status = "pending", !.user = u, !.amount = amount]

NewBooking(u, s, amount) ==
    [AbsentBooking EXCEPT !.status = "pending", !.user = u, !.slot = s, !.amount = amount]

\* A hold_expires_at of NULL is 0.
OpenSlot == [status |-> "open", expires |-> 0]
BookedSlot == [status |-> "booked", expires |-> 0]
HeldSlot(until) == [status |-> "held", expires |-> until]

NoHold == [owner |-> NoUser, until |-> 0]

\* get_slot_hold_owner: redis drops the key when its TTL is over.
HoldOwner(s) == IF hold[s].until > now THEN hold[s].owner ELSE NoUser

\* A booking that still claims its slot.
Live(k) == booking[k].status \in {"pending", "confirmed"}

\* The keys of K under which nothing has been booked yet.
Unused(K) == {k \in K : booking[k].status = "absent"}

-----------------------------------------------------------------------------
(* Holds.                                                                  *)

Lapsed(s) == slot[s].status = "held" /\ slot[s].expires \in 1 .. now

\* The slots after _normalise_expired_hold has seen those of S.
Normalised(S) == [s \in Slots |-> IF s \in S /\ Lapsed(s) THEN OpenSlot ELSE slot[s]]

\* POST /slots/{s}/hold: SET NX EX in redis, then the row.  A slot that is
\* already HELD is not refused: only the redis key is.
HoldSlot(u, s) ==
    /\ slot[s].status # "booked"
    /\ HoldOwner(s) = NoUser
    /\ hold' = [hold EXCEPT ![s] = [owner |-> u, until |-> now + HoldMinutes]]
    /\ slot' = [slot EXCEPT ![s] = HeldSlot(now + HoldMinutes)]
    /\ UNCHANGED <<now, booking, entry, paymentVars, moneyVars>>

\* Mutant: only the redis key is released.
ReleaseKeyOnly(u, s) ==
    /\ HoldOwner(s) = u
    /\ hold' = [hold EXCEPT ![s] = NoHold]
    /\ UNCHANGED <<now, slot, booking, entry, paymentVars, moneyVars>>

\* POST /slots/{s}/release by the holder of the redis key.
ReleaseSlot(u, s) ==
    /\ HoldOwner(s) = u
    /\ hold' = [hold EXCEPT ![s] = NoHold]
    /\ slot' = [slot EXCEPT ![s] = IF @.status = "held" THEN OpenSlot ELSE @]
    /\ UNCHANGED <<now, booking, entry, paymentVars, moneyVars>>

\* GET /slots: opens the lapsed holds among the slots asked for, and leaves
\* the pending bookings behind those holds as they are.
ListSlots(first, last) ==
    LET asked == {s \in Slots : first <= s /\ s <= last}
    IN  /\ \E s \in asked : Lapsed(s)
        /\ slot' = Normalised(asked)
        /\ UNCHANGED <<now, hold, booking, entry, paymentVars, moneyVars>>

-----------------------------------------------------------------------------
(* Creating bookings.                                                      *)

\* Mutant: a slot may be booked that is booked already.
BookableAgain(u, s) ==
    /\ InBookingWindow(StartsAt[s], now)
    /\ HoldOwner(s) \in {NoUser, u}

\* validate_slot_booking_request.
Bookable(u, s) ==
    /\ Normalised({s})[s].status # "booked"
    /\ InBookingWindow(StartsAt[s], now)
    /\ HoldOwner(s) \in {NoUser, u}
    /\ slot[s].status = "held" /\ slot[s].expires > now => HoldOwner(s) = u

\* A hold that is still running keeps its expiry, otherwise a new one starts.
HoldExpiry(row, minutes) == IF row.expires <= now THEN now + minutes ELSE row.expires

\* create_or_get_idempotent_booking, once for each key of rows: insert the
\* booking, hold its slot for it, drop the redis hold its own user had.  The
\* transaction has seen the slots of seen, and the others stay as in slots.
Reserve(rows, bookings, slots, seen, minutes) ==
    /\ booking' = [k \in BookingKeys |-> IF k \in DOMAIN rows THEN rows[k] ELSE bookings[k]]
    /\ slot' = [s \in Slots |->
                  IF \E k \in DOMAIN rows : rows[k].slot = s
                  THEN HeldSlot(HoldExpiry(seen[s], minutes))
                  ELSE slots[s]]
    /\ hold' = [s \in Slots |->
                  IF \E k \in DOMAIN rows : rows[k].slot = s /\ rows[k].user = HoldOwner(s)
                  THEN NoHold
                  ELSE hold[s]]

\* POST /bookings.  A key its user has used before returns the old row, a key
\* of another user violates the unique constraint: neither changes anything.
CreateBooking(u, s, k, amount) ==
    /\ Unused({ClientKey(k)}) # {}
    /\ Bookable(u, s)
    /\ Reserve([x \in {ClientKey(k)} |-> NewBooking(u, s, amount)],
               booking, Normalised({s}), Normalised({s}), HoldMinutes)
    /\ UNCHANGED <<now, entry, paymentVars, moneyVars>>

\* POST /bookings/group: the key is derived from user, slot and participants,
\* and looked up only after the slot has been validated.
CreateGroupBooking(u, s, n) ==
    /\ Bookable(u, s)
    /\ Reserve([k \in Unused({GroupKey(u, s, n)}) |->
                    NewBooking(u, s, BasePrice + GroupSurcharge(n))],
               booking, Normalised({s}), Normalised({s}), HoldMinutes)
    /\ UNCHANGED <<now, entry, paymentVars, moneyVars>>

\* Mutant: only the base slot of the chain is validated.
CreateRecurringUnvalidated(u, chain) ==
    LET keys == {RecurringKey(u, chain[i], i - 1) : i \in DOMAIN chain}
    IN  /\ Bookable(u, chain[1])
        /\ Reserve([k \in Unused(keys) |-> NewBooking(u, k[3], BasePrice)],
                   booking, Normalised({chain[1]}), Normalised({chain[1]}), HoldMinutes)
        /\ UNCHANGED <<now, entry, paymentVars, moneyVars>>

\* POST /bookings/recurring: all the slots are validated before the first is booked.
CreateRecurringBookings(u, chain) ==
    LET chosen == {chain[i] : i \in DOMAIN chain}
        keys == {RecurringKey(u, chain[i], i - 1) : i \in DOMAIN chain}
    IN  /\ \A s \in chosen : Bookable(u, s)
        /\ Reserve([k \in Unused(keys) |-> NewBooking(u, k[3], BasePrice)],
                   booking, Normalised(chosen), Normalised(chosen), HoldMinutes)
        /\ UNCHANGED <<now, entry, paymentVars, moneyVars>>

-----------------------------------------------------------------------------
(* Waitlist.                                                               *)

JoinWaitlist(u, e, W) ==
    /\ entry[e].status = "absent"
    /\ entry' = [entry EXCEPT ![e] = [status |-> "active", user |-> u, wants |-> W]]
    /\ UNCHANGED <<now, inventoryVars, paymentVars, moneyVars>>

\* PATCH /waitlist/{e}: the owner may move the window and set is_active either way.
UpdateEntry(e, W, status) ==
    /\ entry[e].status \in {"active", "inactive"}
    /\ entry' = [entry EXCEPT ![e].wants = W, ![e].status = status]
    /\ UNCHANGED <<now, inventoryVars, paymentVars, moneyVars>>

WithdrawEntry(e) ==
    /\ entry[e].status \in {"active", "inactive"}
    /\ entry' = [entry EXCEPT ![e].status = "deleted"]
    /\ UNCHANGED <<now, inventoryVars, paymentVars, moneyVars>>

Waiting(s) == {e \in Entries : entry[e].status = "active" /\ s \in entry[e].wants}

\* Mutant: the entries are read once, before the loop.
IsPromotionStale(plan, released) ==
    \A s \in released :
        Waiting(s) = {plan[s]} \/ (Waiting(s) = {} /\ plan[s] = NoEntry)

\* plan[s] is the entry the loop over the released slots serves with slot s.
\* The query has no LIMIT, so two entries left for one slot raise
\* MultipleResultsFound: then there is no plan and the transaction fails.
IsPromotion(plan, released) ==
    \A s \in released :
        LET left == {e \in Waiting(s) : \A r \in released : r < s => plan[r] # e}
        IN  left = {plan[s]} \/ (left = {} /\ plan[s] = NoEntry)

\* promote_waitlist_entries_for_slots on top of what the transaction has done
\* so far to the bookings and the slots.
Promote(released, bookings, slots, seen) ==
    \E plan \in [released -> Entries \cup {NoEntry}] :
        LET served == {s \in released : plan[s] # NoEntry}
            keys == {WaitlistKey(plan[s], s) : s \in served}
        IN  /\ IsPromotion(plan, released)
            /\ Reserve([k \in Unused(keys) |-> NewBooking(entry[k[2]].user, k[3], BasePrice)],
                       bookings, slots, seen, PromotionMinutes)
            /\ entry' = [e \in Entries |->
                           IF \E s \in served : plan[s] = e
                           THEN [entry[e] EXCEPT !.status = "inactive"]
                           ELSE entry[e]]

-----------------------------------------------------------------------------
(* Cancelling, and the maintenance tasks.                                  *)

\* Mutant: a booking that was never paid is refunded too.
RefundAlways(k) == RefundAmount(booking[k].amount, StartsAt[booking[k].slot], now)

RefundDue(k) ==
    IF booking[k].payment = "completed"
    THEN RefundAmount(booking[k].amount, StartsAt[booking[k].slot], now)
    ELSE 0

\* Mutant: a refund of half the price does not show.
CancelledWithFullRefund(k, row, due) ==
    LET full == due > 0 /\ due = row.amount
    IN  [booking[k] EXCEPT
            !.status = "cancelled",
            !.refund = IF full THEN "pending" ELSE "none",
            !.payment = IF full THEN "refunded" ELSE @]

\* The row of booking k after a cancellation that read row and refunds due.  The
\* session writes the columns that it has changed, and no others.
CancelledBooking(k, row, due) ==
    LET refund == IF due > 0 THEN "pending" ELSE "none"
    IN  [booking[k] EXCEPT
            !.status = "cancelled",
            !.refund = IF refund = row.refund THEN @ ELSE refund,
            !.payment = IF due > 0 /\ due = row.amount THEN "refunded" ELSE @]

\* The slot likewise, opened by a cancellation that read the slot read.
OpenedSlot(s, read) ==
    [status |-> IF read.status = "open" THEN slot[s].status ELSE "open",
     expires |-> IF read.expires = 0 THEN slot[s].expires ELSE 0]

\* The cancellation c has read rows that are not what is there now.
Overtaken(c) == booking[c.key] # c.row \/ slot[c.row.slot] # c.slot

\* Mutant: the slot stays as it is.
CancelKeepingSlot(c) ==
    /\ Promote({}, [booking EXCEPT ![c.key] = CancelledBooking(c.key, c.row, c.due)], slot, slot)
    /\ refunded' = [refunded EXCEPT ![c.key] = @ + c.due]
    /\ crossed' = IF Overtaken(c) THEN crossed \cup {c.key} ELSE crossed
    /\ UNCHANGED <<now, paymentVars, payout>>

\* Mutant: the released slot is not offered to the waitlist.
CancelWithoutPromotion(c) ==
    /\ Promote({},
               [booking EXCEPT ![c.key] = CancelledBooking(c.key, c.row, c.due)],
               [slot EXCEPT ![c.row.slot] = OpenedSlot(c.row.slot, c.slot)],
               slot)
    /\ refunded' = [refunded EXCEPT ![c.key] = @ + c.due]
    /\ crossed' = IF Overtaken(c) THEN crossed \cup {c.key} ELSE crossed
    /\ UNCHANGED <<now, paymentVars, payout>>

\* What the cancellation c writes.  To its session the slot is open, whatever has
\* become of the row.
WriteCancellation(c) ==
    LET s == c.row.slot
    IN  /\ Promote({s},
                   [booking EXCEPT ![c.key] = CancelledBooking(c.key, c.row, c.due)],
                   [slot EXCEPT ![s] = OpenedSlot(s, c.slot)],
                   [slot EXCEPT ![s] = OpenSlot])
        /\ refunded' = [refunded EXCEPT ![c.key] = @ + c.due]
        /\ crossed' = IF Overtaken(c) THEN crossed \cup {c.key} ELSE crossed
        /\ UNCHANGED <<now, paymentVars, payout>>

\* What a cancellation reads and decides.
ReadBy(x, k) == [by |-> x, key |-> k, row |-> booking[k],
                 slot |-> slot[booking[k].slot], due |-> RefundDue(k)]

\* POST /bookings/{k}/cancel, and the same under /slots, with nothing in between.
CancelBooking(k) ==
    /\ Live(k)
    /\ WriteCancellation(ReadBy(NoUser, k))
    /\ UNCHANGED cancelling

\* The same when other requests may commit between its reads and its commit: the
\* rows are read without a lock and have no version.
StartCancel(x, k) ==
    /\ Live(k)
    /\ \A c \in cancelling : c.by # x
    /\ cancelling' = cancelling \cup {ReadBy(x, k)}
    /\ UNCHANGED <<now, inventoryVars, entry, paymentVars, payout, refunded, crossed>>

FinishCancel(c) ==
    /\ WriteCancellation(c)
    /\ cancelling' = cancelling \ {c}

\* The promotion raises, or the process dies.
AbandonCancel(c) ==
    /\ cancelling' = cancelling \ {c}
    /\ UNCHANGED <<now, inventoryVars, entry, paymentVars, payout, refunded, crossed>>

\* booking_release_expired_holds_task.  Its comparison is strict.
ReleaseExpiredHolds ==
    LET expired == {s \in Slots : slot[s].status = "held" /\ 0 < slot[s].expires /\ slot[s].expires < now}
    IN  /\ expired # {}
        /\ slot' = [s \in Slots |-> IF s \in expired THEN OpenSlot ELSE slot[s]]
        /\ booking' = [k \in BookingKeys |->
                         IF booking[k].status = "pending" /\ booking[k].slot \in expired
                         THEN [booking[k] EXCEPT !.status = "cancelled"]
                         ELSE booking[k]]
        /\ UNCHANGED <<now, hold, entry, paymentVars, moneyVars>>

\* booking_promote_waitlist_task.
PromoteWaitlist ==
    /\ \E e \in Entries : entry[e].status = "active"
    /\ Promote({s \in Slots : slot[s].status = "open"}, booking, slot, slot)
    /\ UNCHANGED <<now, paymentVars, moneyVars>>

-----------------------------------------------------------------------------
(* Payments.  A "lookup" provider (Khalti) is asked for the state of the   *)
(* charge; verifying with an "execute" provider (PayPal) is what captures  *)
(* the money, and works once; and a "return" provider (eSewa, Stripe) may  *)
(* be taken to have the money as soon as the customer is back from it.     *)

StartTransaction(k, t, via) ==
    /\ tx[t].status = "absent"
    /\ tx' = [tx EXCEPT ![t] = [status |-> "initiated", booking |-> k, via |-> via]]
    /\ charge' = [charge EXCEPT ![t] = "open"]
    /\ UNCHANGED <<now, inventoryVars, entry, believed, verifying, webhookKeys, webhooks, moneyVars>>

\* POST /bookings/{k}/checkout.
Checkout(k, t, via) ==
    /\ Live(k)
    /\ booking[k].payment # "completed"
    /\ StartTransaction(k, t, via)

\* POST /payments/initiate with a booking_id: the booking is not looked at.
InitiatePayment(k, t, via) ==
    /\ booking[k].status # "absent"
    /\ StartTransaction(k, t, via)

\* The customer, at the provider's site.
CustomerActs(t) ==
    /\ charge[t] = "open"
    /\ \E outcome \in {"dead", IF tx[t].via = "execute" THEN "approved" ELSE "paid"} :
          charge' = [charge EXCEPT ![t] = outcome]
    /\ UNCHANGED <<now, inventoryVars, entry, tx, believed, verifying, webhookKeys, webhooks, moneyVars>>

\* Mutant: a charge still pending at the provider counts as completed.
LookupOptimistic(t) ==
    IF charge[t] \in {"open", "paid"} THEN {"completed"} ELSE {"failed", "cancelled"}

\* What a lookup answers, mapped to our PaymentStatus.  eSewa's callback is believed
\* when its status API does not answer, and a session of Stripe's that is complete
\* counts as completed whether or not it is paid.
LookupResults(t) ==
    CASE tx[t].via = "return" -> {"completed", "failed", "pending", "cancelled"}
      [] tx[t].via # "return" /\ charge[t] = "open" -> {"pending", "failed"}
      [] tx[t].via # "return" /\ charge[t] = "paid" -> {"completed"}
      [] tx[t].via # "return" /\ charge[t] \notin {"open", "paid"} -> {"failed", "cancelled"}

\* The first commit of POST /payments/verify: provider.verify_payment stores
\* the status of the transaction.  A key found in payment_webhooks is answered
\* from the stored row, and an execution that fails raises: nothing changes.
VerifyFetch(r, t, key) ==
    /\ tx[t].status # "absent"
    /\ \A v \in verifying : v.request # r
    /\ key \notin webhookKeys
    /\ \E result \in {"completed", "failed", "pending", "cancelled"} :
          /\ IF tx[t].via = "execute"
             THEN /\ charge[t] = "approved"
                  /\ result \in {"completed", "failed"}
                  /\ charge' = [charge EXCEPT ![t] = IF result = "completed" THEN "paid" ELSE "dead"]
             ELSE /\ result \in LookupResults(t)
                  /\ charge' = charge
          /\ believed' = IF result = "completed" /\ charge'[t] # "paid"
                         THEN believed \cup {t}
                         ELSE believed
          /\ verifying' = verifying \cup {[request |-> r, tx |-> t, key |-> key, result |-> result]}
    /\ UNCHANGED <<now, inventoryVars, entry, tx, webhookKeys, webhooks, moneyVars>>

\* Mutant: a failed payment takes the confirmation back.
SettledOrReopened(k, result) ==
    IF result = "completed"
    THEN [booking EXCEPT ![k].status = "confirmed", ![k].payment = "completed"]
    ELSE [booking EXCEPT ![k].status = "pending", ![k].payment = "failed"]

\* What the result of a verification makes of its booking.
Settled(k, result) ==
    CASE result = "completed" ->
            [booking EXCEPT ![k].status = "confirmed", ![k].payment = "completed"]
      [] result = "failed" -> [booking EXCEPT ![k].payment = "failed"]
      [] OTHER -> booking

\* The second commit: what the result means to the booking, and the webhook
\* row.  The status the booking has by now is not looked at.
VerifyApply(v) ==
    LET k == tx[v.tx].booking
        s == booking[k].slot
    IN  /\ webhooks < MaxWebhooks
        /\ booking' = Settled(k, v.result)
        /\ slot' = IF v.result = "completed" THEN [slot EXCEPT ![s] = BookedSlot] ELSE slot
        /\ payout' = IF v.result = "completed"
                     THEN [payout EXCEPT ![k] = @ + booking[k].amount]
                     ELSE payout
        /\ verifying' = verifying \ {v}
        /\ webhookKeys' = webhookKeys \cup ({v.key} \ {NoWebhookKey})
        /\ webhooks' = webhooks + 1
        /\ UNCHANGED <<now, hold, entry, tx, charge, believed, refunded, cancelVars>>

\* The process dies, or the database fails, between the two commits.
VerifyCrash(v) ==
    /\ verifying' = verifying \ {v}
    /\ UNCHANGED <<now, inventoryVars, entry, tx, charge, believed, webhookKeys, webhooks, moneyVars>>

-----------------------------------------------------------------------------
Tick ==
    /\ \E t \in Instants : t > now /\ now' = t
    /\ UNCHANGED <<inventoryVars, entry, paymentVars, moneyVars>>

Init ==
    /\ now = 0
    /\ slot = [s \in Slots |-> OpenSlot]
    /\ hold = [s \in Slots |-> NoHold]
    /\ booking = [k \in BookingKeys |-> AbsentBooking]
    /\ entry = [e \in Entries |-> [status |-> "absent", user |-> NoUser, wants |-> {}]]
    /\ tx = [t \in Txs |-> [status |-> "absent", booking |-> NoBooking, via |-> "lookup"]]
    /\ charge = [t \in Txs |-> "absent"]
    /\ believed = {}
    /\ verifying = {}
    /\ webhookKeys = {}
    /\ webhooks = 0
    /\ payout = [k \in BookingKeys |-> 0]
    /\ refunded = [k \in BookingKeys |-> 0]
    /\ cancelling = {}
    /\ crossed = {}

Next ==
    \/ Tick
    \/ \E u \in Users, s \in Slots : HoldSlot(u, s)
    \/ \E u \in Users, s \in Slots : ReleaseSlot(u, s)
    \/ \E first, last \in Slots : ListSlots(first, last)
    \/ \E u \in Users, s \in Slots, k \in ClientKeys, a \in Amounts : CreateBooking(u, s, k, a)
    \/ \E u \in Users, s \in Slots, n \in GroupSizes : CreateGroupBooking(u, s, n)
    \/ \E u \in Users, chain \in Recurrences : CreateRecurringBookings(u, chain)
    \/ \E u \in Users, e \in Entries, W \in Windows : JoinWaitlist(u, e, W)
    \/ \E e \in Entries, W \in Windows, st \in {"active", "inactive"} : UpdateEntry(e, W, st)
    \/ \E e \in Entries : WithdrawEntry(e)
    \/ \E k \in BookingKeys : CancelBooking(k)
    \/ \E x \in Cancellers, k \in BookingKeys : StartCancel(x, k)
    \/ \E c \in cancelling : FinishCancel(c)
    \/ \E c \in cancelling : AbandonCancel(c)
    \/ ReleaseExpiredHolds
    \/ PromoteWaitlist
    \/ \E k \in BookingKeys, t \in Txs, via \in Vias : Checkout(k, t, via)
    \/ \E k \in BookingKeys, t \in Txs, via \in Vias : InitiatePayment(k, t, via)
    \/ \E t \in Txs : CustomerActs(t)
    \/ \E r \in Requests, t \in Txs, key \in WebhookKeys \cup {NoWebhookKey} : VerifyFetch(r, t, key)
    \/ \E v \in verifying : VerifyApply(v)
    \/ \E v \in verifying : VerifyCrash(v)

Spec == Init /\ [][Next]_vars

-----------------------------------------------------------------------------
(* What holds.                                                             *)

SlotRow == [status : {"open", "held", "booked"}, expires : Nat]

HoldRow == [owner : Users \cup {NoUser}, until : Nat]

BookingRow == [status : {"absent", "pending", "confirmed", "cancelled"},
               payment : {"pending", "completed", "failed", "refunded"},
               refund : {"none", "pending"},
               user : Users \cup {NoUser},
               slot : Slots \cup {NoSlot},
               amount : Nat]

EntryRow == [status : {"absent", "active", "inactive", "deleted"},
             user : Users \cup {NoUser},
             wants : SUBSET Slots]

TxRow == [status : {"absent", "initiated"},
          booking : BookingKeys \cup {NoBooking},
          via : {"lookup", "execute", "return"}]

Verification == [request : Requests, tx : Txs, key : WebhookKeys \cup {NoWebhookKey},
                 result : {"completed", "failed", "pending", "cancelled"}]

Cancellation == [by : Cancellers, key : BookingKeys, row : BookingRow, slot : SlotRow, due : Nat]

\* Every row has the type of its table, and every foreign key leads to a row: a
\* booking has a slot, a waiting entry a user, a transaction a booking, a
\* verification in flight a transaction, and a cancellation in flight the slot and
\* the price its booking still has.
TypeOK ==
    /\ now \in Instants
    /\ slot \in [Slots -> SlotRow]
    /\ hold \in [Slots -> HoldRow]
    /\ booking \in [BookingKeys -> BookingRow]
    /\ entry \in [Entries -> EntryRow]
    /\ tx \in [Txs -> TxRow]
    /\ charge \in [Txs -> {"absent", "open", "approved", "paid", "dead"}]
    /\ believed \subseteq Txs
    /\ verifying \subseteq Verification
    /\ webhookKeys \subseteq WebhookKeys
    /\ webhooks \in Nat
    /\ payout \in [BookingKeys -> Nat]
    /\ refunded \in [BookingKeys -> Nat]
    /\ cancelling \subseteq Cancellation
    /\ crossed \subseteq BookingKeys
    /\ \A k \in BookingKeys : booking[k].status # "absent" => booking[k].slot \in Slots
    /\ \A t \in Txs : tx[t].status # "absent" =>
          tx[t].booking \in BookingKeys /\ booking[tx[t].booking].status # "absent"
    /\ \A v \in verifying : tx[v.tx].status # "absent"
    /\ \A c \in cancelling :
          /\ booking[c.key].status # "absent"
          /\ c.row.slot = booking[c.key].slot /\ c.row.amount = booking[c.key].amount

\* A slot shown as booked is one somebody has a confirmed booking for, whatever
\* holds, double bookings, late payments and cancellations happened on it: nobody
\* finds a slot taken that is in fact free for ever, unless a booking of it was
\* cancelled on rows that had changed since the cancellation read them.
BookedSlotHasConfirmedBooking ==
    \A s \in Slots : slot[s].status = "booked" =>
        \E k \in BookingKeys : /\ booking[k].slot = s
                               /\ booking[k].status = "confirmed" \/ k \in crossed

\* A held slot is held for somebody: either redis has (or had, until the hold
\* expired) a holder for at least as long as the row says, or a booking waits
\* for its payment.  Creating a booking deletes the redis key and a release
\* deletes it without looking for bookings, so the two must hand over exactly.
HeldSlotHasHolder ==
    \A s \in Slots : slot[s].status = "held" =>
        \/ hold[s].owner # NoUser /\ hold[s].until >= slot[s].expires
        \/ \E k \in BookingKeys : booking[k].status = "pending" /\ booking[k].slot = s

\* However often a booking is paid, cancelled, revived by a late callback and
\* cancelled again, it is refunded at most once for every time it was confirmed,
\* with the price of a booking still confirmed set aside for its own refund.  The
\* bound is what was confirmed, which is more than was received when one charge is
\* confirmed twice.  Two cancellations that both read the booking as live each
\* write a refund: those bookings are excepted.
RefundsCovered ==
    \A k \in BookingKeys \ crossed :
        refunded[k] + (IF booking[k].status = "confirmed" THEN booking[k].amount ELSE 0)
            <= payout[k]

\* A booking is confirmed, counted as paid or paid out to the provider only if
\* the payment provider really has the money of one of its transactions, be it
\* that another transaction of the booking failed or that a crash hit between
\* the two commits of the verification.  Only eSewa's and Stripe's word is taken
\* for it: there the answer "completed" is enough.
ConfirmedOnlyIfCaptured ==
    \A k \in BookingKeys :
        (booking[k].status = "confirmed" \/ booking[k].payment \in {"completed", "refunded"}
            \/ payout[k] > 0)
        => \E t \in Txs : /\ tx[t].booking = k
                          /\ charge[t] = "paid" \/ (tx[t].via = "return" /\ t \in believed)

\* Status, payment and slot of a booking move together: confirming it takes the
\* slot and owes the provider the amount, a confirmed booking only ends by a
\* cancellation that frees the slot, and the refund status tells whether money
\* went back.  A cancellation that other requests have overtaken may keep none of
\* this.
BookingStep(k) ==
    /\ booking[k].status # "confirmed" /\ booking'[k].status = "confirmed" =>
          /\ booking'[k].payment = "completed"
          /\ slot'[booking'[k].slot].status = "booked"
          /\ payout'[k] = payout[k] + booking[k].amount
    /\ booking[k].status = "confirmed" /\ booking'[k].status # "confirmed" =>
          /\ booking'[k].status = "cancelled"
          /\ slot'[booking[k].slot].status # "booked"
          /\ (booking'[k].refund = "pending") = (refunded'[k] > refunded[k])

\* The cancellations that end here after others have changed their rows.
OvertakenOnes == {c \in cancelling \ cancelling' : Overtaken(c)}

StatusMovesWithSlotAndMoney ==
    [][\A k \in BookingKeys : BookingStep(k) \/ \E c \in OvertakenOnes : c.key = k]_vars

\* A booking that comes into being, by whichever of the five ways, finds its
\* slot not booked, or takes the place of a booking of that slot cancelled in the
\* same transaction, or that an overtaken cancellation was about.  It has some time
\* left to be paid, and, if a customer asked
\* for it, takes no slot another customer holds, however many slots the request
\* covers.  (The booking it replaces need not be the one the slot is booked for:
\* cancel_booking opens the slot of a pending booking without looking.)
FreshBookingHasItsSlot ==
    [][\A k \in BookingKeys :
          booking[k].status = "absent" /\ booking'[k].status # "absent" =>
              LET s == booking'[k].slot
              IN  /\ slot'[s].status = "held" /\ slot'[s].expires > now
                  /\ \/ slot[s].status # "booked"
                     \/ \E c \in BookingKeys : /\ booking[c].slot = s /\ Live(c)
                                               /\ booking'[c].status = "cancelled"
                     \/ \E c \in OvertakenOnes : c.row.slot = s
                  /\ k[1] # "waitlist" => HoldOwner(s) \in {NoUser, booking'[k].user}]_vars

\* A booked slot goes back to the public only past entries that have had it: every
\* entry waiting for it before the step has been given a booking of this very slot
\* before.  (Such an entry, set active again, gets its old booking back, which no
\* longer takes the slot.)
WaitlistFirst ==
    [][\A s \in Slots : slot[s].status = "booked" /\ slot'[s].status = "open" =>
          \A e \in Waiting(s) : booking[WaitlistKey(e, s)].status # "absent"]_vars

\* One cancellation or one run of the promotion task reserves at most one slot
\* for a waitlist entry: the loop over the slots sees the entries it has served.
EntryServedOnce ==
    [][\A e \in Entries, r, s \in Slots :
          LET fresh(q) == /\ booking[WaitlistKey(e, q)].status = "absent"
                          /\ booking'[WaitlistKey(e, q)].status # "absent"
          IN  fresh(r) /\ fresh(s) => r = s]_vars

\* The abstract account of each booking, and this system as one that keeps it.
Ledger == INSTANCE BookingLedger WITH
              Bookings <- BookingKeys,
              status <- [k \in BookingKeys |-> booking[k].status],
              price <- [k \in BookingKeys |-> booking[k].amount]

\* Each booking of this system is an account of BookingLedger: no interleaving of
\* callbacks, crashes, tasks and cancellations credits, refunds or reopens it
\* otherwise than the ledger's steps do, of which the cancellation overtaken by
\* another request is one.
LedgerRefinement == Ledger!LedgerSpec

-----------------------------------------------------------------------------
(* What the documentation says and the code does not do.                   *)

\* docs/analysis/business-rules.md:57 (BR-02): no two bookings that are
\* confirmed or wait for their payment overlap on a resource.
NoOverlap ==
    \A j, k \in BookingKeys :
        Live(j) /\ Live(k) /\ booking[j].slot = booking[k].slot => j = k

\* docs/edge-cases/README.md:62: never auto-confirm on a stale hold; and
\* docs/detailed-design/state-machine-diagram.md:40 leaves Cancelled only for
\* a refund.
CancelledIsFinal ==
    [][\A k \in BookingKeys :
          booking[k].status = "cancelled" => booking'[k].status = "cancelled"]_vars

\* finance/models/payment.py:145: the idempotency key of a webhook is there "to
\* safely replay provider callbacks": a charge is paid out to the provider once.
OneChargeOnePayout ==
    \A k \in BookingKeys :
        payout[k] <= booking[k].amount
                        * Cardinality({t \in Txs : tx[t].booking = k /\ charge[t] = "paid"})

\* docs/requirements/requirements-document.md:100 (FR-WL-002, BR-05): when a
\* booking is cancelled the first eligible entry is promoted, so a live booking
\* can be cancelled however many customers wait.
CancellationPossible ==
    \A k \in BookingKeys : Live(k) =>
        LET released == {booking[k].slot}
        IN  \E plan \in [released -> Entries \cup {NoEntry}] : IsPromotion(plan, released)

\* docs/analysis/business-rules.md:87 (BR-03): more than 24 hours ahead the
\* cancellation of a confirmed booking pays everything back.
EarlyCancellationRefunded ==
    [][\A k \in BookingKeys :
          /\ booking[k].status = "confirmed" /\ booking'[k].status = "cancelled"
          /\ now < StartsAt[booking[k].slot] - FullRefundLead
          => refunded'[k] = refunded[k] + booking[k].amount]_vars
=============================================================================
