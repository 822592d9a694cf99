------------------------- MODULE BookingSafetyProofs -------------------------
(***************************************************************************)
(* The safety invariants of BookingLifecycle and its refinement of the     *)
(* ledger, on top of type correctness.                                     *)
(***************************************************************************)
EXTENDS BookingLifecycleProofs

(***************************************************************************)
(* What the handlers do to bookings, slots and money, family by family.    *)
(***************************************************************************)

\* k came into being as a pending booking that nobody has paid.
Opened(k) ==
    /\ booking[k].status = "absent"
    /\ booking'[k].status = "pending"
    /\ booking'[k].payment = "pending"

\* Reserve leaves a row alone or opens it, and a slot alone or gives it to a
\* booking it opens.
LEMMA ReserveEffect ==
    ASSUME TypeOK,
           NEW rows, NEW bookings, NEW slots, NEW seen, NEW minutes,
           Fresh(rows), Revised(bookings),
           Reserve(rows, bookings, slots, seen, minutes)
    PROVE  /\ \A k \in BookingKeys : booking'[k] = bookings[k] \/ Opened(k)
           /\ \A s \in Slots :
                 \/ slot'[s] = slots[s] /\ hold'[s] = hold[s]
                 \/ /\ slot'[s].status = "held"
                    /\ \E k \in BookingKeys : Opened(k) /\ booking'[k].slot = s
  <1>1. ASSUME NEW k \in BookingKeys, k \in DOMAIN rows
        PROVE  Opened(k) /\ booking'[k] = rows[k]
    BY <1>1 DEF Reserve, Fresh, Unused, Opened
  <1>2. ASSUME NEW k \in BookingKeys, k \notin DOMAIN rows
        PROVE  booking'[k] = bookings[k]
    BY <1>2 DEF Reserve
  <1>3. ASSUME NEW s \in Slots, ~\E k \in DOMAIN rows : rows[k].slot = s
        PROVE  slot'[s] = slots[s] /\ hold'[s] = hold[s]
    BY <1>3 DEF Reserve
  <1>4. ASSUME NEW s \in Slots, NEW k \in DOMAIN rows, rows[k].slot = s
        PROVE  /\ slot'[s].status = "held"
               /\ k \in BookingKeys /\ Opened(k) /\ booking'[k].slot = s
    <2>1. k \in BookingKeys
      BY DEF Fresh, Unused
    <2>2. slot'[s].status = "held"
      BY <1>4 DEF Reserve, HeldSlot
    <2>3. QED
      BY <1>1, <1>4, <2>1, <2>2
  <1>5. QED
    BY <1>1, <1>2, <1>3, <1>4

\* The slots of a handler that has opened some whose hold lapsed.
MayNormalise(slots, s) == slots[s] = slot[s] \/ (slot[s].status = "held" /\ slots[s] = OpenSlot)

\* A row is left alone or opened, and so is the slot: what creating bookings and
\* running the promotion task do.  A slot may also be opened because its hold lapsed.
Opening ==
    /\ \A k \in BookingKeys : booking'[k] = booking[k] \/ Opened(k)
    /\ \A s \in Slots :
          \/ MayNormalise(slot', s) /\ hold'[s] = hold[s]
          \/ /\ slot'[s].status = "held"
             /\ \E k \in BookingKeys : Opened(k) /\ booking'[k].slot = s
    /\ UNCHANGED <<paymentVars, moneyVars>>

LEMMA OpeningByReserve ==
    ASSUME TypeOK,
           NEW rows, NEW slots, NEW minutes,
           Fresh(rows),
           \A s \in Slots : MayNormalise(slots, s),
           Reserve(rows, booking, slots, slots, minutes),
           UNCHANGED <<paymentVars, moneyVars>>
    PROVE  Opening
  BY BookingIsRevised, ReserveEffect DEF Opening, MayNormalise

\* Every action that creates bookings without cancelling one is an Opening.
LEMMA OpeningActions ==
    ASSUME TypeOK,
           \/ \E u \in Users, s \in Slots, k \in ClientKeys, a \in Amounts : CreateBooking(u, s, k, a)
           \/ \E u \in Users, s \in Slots, n \in GroupSizes : CreateGroupBooking(u, s, n)
           \/ \E u \in Users, chain \in Recurrences : CreateRecurringBookings(u, chain)
           \/ PromoteWaitlist
    PROVE  Opening
  <1>1. CASE PromoteWaitlist
    <2>1. PICK rows : Fresh(rows) /\ Reserve(rows, booking, slot, slot, PromotionMinutes)
      BY <1>1, PromotionRows DEF PromoteWaitlist
    <2>2. UNCHANGED <<paymentVars, moneyVars>>
      BY <1>1 DEF PromoteWaitlist
    <2>3. \A s \in Slots : MayNormalise(slot, s)
      BY DEF MayNormalise
    <2>4. QED
      BY <2>1, <2>2, <2>3, OpeningByReserve
  <1>2. CASE ~PromoteWaitlist
    <2>1. PICK rows, S : /\ Fresh(rows)
                         /\ Reserve(rows, booking, Normalised(S), Normalised(S), HoldMinutes)
      BY <1>2, CreateRows DEF CreateBooking, CreateGroupBooking, CreateRecurringBookings
    <2>2. UNCHANGED <<paymentVars, moneyVars>>
      BY <1>2 DEF CreateBooking, CreateGroupBooking, CreateRecurringBookings
    <2>3. \A s \in Slots : MayNormalise(Normalised(S), s)
      BY DEF Normalised, Lapsed, MayNormalise
    <2>4. QED
      BY <2>1, <2>2, <2>3, OpeningByReserve
  <1>3. QED
    BY <1>1, <1>2

\* What c has just read is what is there.
ReadNow(c) ==
    /\ Live(c.key)
    /\ c.row = booking[c.key] /\ c.slot = slot[c.row.slot]
    /\ c.due = RefundDue(c.key)

\* A cancellation, in one step or at the end of two, ends the booking it is about,
\* opens its slot, gives back what it has found due, and otherwise opens at most a
\* booking for whoever waited.
Cancelling(c) ==
    /\ Decided(c)
    /\ ReadNow(c) \/ c \in cancelling \ cancelling'
    /\ booking'[c.key] = CancelledBooking(c.key, c.row, c.due)
    /\ \A b \in BookingKeys \ {c.key} : booking'[b] = booking[b] \/ Opened(b)
    /\ \A s \in Slots :
          \/ s # c.row.slot /\ slot'[s] = slot[s] /\ hold'[s] = hold[s]
          \/ s = c.row.slot /\ slot'[s] = OpenedSlot(s, c.slot) /\ hold'[s] = hold[s]
          \/ /\ slot'[s].status = "held"
             /\ \E b \in BookingKeys : Opened(b) /\ booking'[b].slot = s
    /\ refunded' = [refunded EXCEPT ![c.key] = @ + c.due]
    /\ crossed' = IF Overtaken(c) THEN crossed \cup {c.key} ELSE crossed
    /\ cancelling' \subseteq cancelling
    /\ UNCHANGED <<paymentVars, payout>>

LEMMA CancelEffect ==
    ASSUME TypeOK, NEW c, Cancels(c), ReadNow(c) \/ c \in cancelling \ cancelling'
    PROVE  Cancelling(c)
  <1> DEFINE bookings == [booking EXCEPT ![c.key] = CancelledBooking(c.key, c.row, c.due)]
             slots == [slot EXCEPT ![c.row.slot] = OpenedSlot(c.row.slot, c.slot)]
             seen == [slot EXCEPT ![c.row.slot] = OpenSlot]
  <1>1. /\ Decided(c)
        /\ Promote({c.row.slot}, bookings, slots, seen)
        /\ refunded' = [refunded EXCEPT ![c.key] = @ + c.due]
        /\ crossed' = IF Overtaken(c) THEN crossed \cup {c.key} ELSE crossed
        /\ cancelling' \subseteq cancelling
        /\ UNCHANGED <<paymentVars, payout>>
    BY DEF Cancels, WriteCancellation
  <1>2. c.row.slot \in Slots /\ Revised(bookings)
    BY <1>1, CancellationSlots, CancellationRevises
  <1>3. bookings[c.key] = CancelledBooking(c.key, c.row, c.due)
    BY <1>1 DEF TypeOK, Decided
  <1>4. \A b \in BookingKeys \ {c.key} : bookings[b] = booking[b]
    BY DEF TypeOK
  <1>5. \A s \in Slots : slots[s] = IF s = c.row.slot THEN OpenedSlot(s, c.slot) ELSE slot[s]
    BY <1>2 DEF TypeOK
  <1> HIDE DEF bookings, slots, seen
  <1>6. \E rows : Fresh(rows) /\ Reserve(rows, bookings, slots, seen, PromotionMinutes)
    BY <1>1, <1>2, PromotionRows
  <1>7. /\ \A b \in BookingKeys : booking'[b] = bookings[b] \/ Opened(b)
        /\ \A s \in Slots :
              \/ slot'[s] = slots[s] /\ hold'[s] = hold[s]
              \/ /\ slot'[s].status = "held"
                 /\ \E b \in BookingKeys : Opened(b) /\ booking'[b].slot = s
    BY <1>2, <1>6, ReserveEffect
  <1>8. c.key \in BookingKeys /\ ~Opened(c.key)
    BY <1>1 DEF Decided, Opened
  <1>9. /\ booking'[c.key] = CancelledBooking(c.key, c.row, c.due)
        /\ \A b \in BookingKeys \ {c.key} : booking'[b] = booking[b] \/ Opened(b)
    BY <1>3, <1>4, <1>7, <1>8
  <1>10. \A s \in Slots :
          \/ s # c.row.slot /\ slot'[s] = slot[s] /\ hold'[s] = hold[s]
          \/ s = c.row.slot /\ slot'[s] = OpenedSlot(s, c.slot) /\ hold'[s] = hold[s]
          \/ /\ slot'[s].status = "held"
             /\ \E b \in BookingKeys : Opened(b) /\ booking'[b].slot = s
    BY <1>5, <1>7
  <1>11. QED
    BY <1>1, <1>9, <1>10 DEF Cancelling

\* Both ways of cancelling are cancellations of what they have read.
LEMMA CancelAction ==
    ASSUME TypeOK
    PROVE  /\ \A k \in BookingKeys : CancelBooking(k) =>
                 \E c : Cancels(c) /\ Cancelling(c) /\ ReadNow(c)
           /\ \A c \in cancelling : FinishCancel(c) => Cancels(c) /\ Cancelling(c)
  <1>1. ASSUME NEW k \in BookingKeys, CancelBooking(k)
        PROVE  \E c : Cancels(c) /\ Cancelling(c) /\ ReadNow(c)
    <2>1. Live(k) /\ Cancels(ReadBy(NoUser, k))
      BY <1>1, CancelActions
    <2>2. ReadNow(ReadBy(NoUser, k))
      BY <2>1, ReadsAreDecided DEF ReadNow
    <2>3. QED
      BY <2>1, <2>2, CancelEffect
  <1>2. ASSUME NEW c \in cancelling, FinishCancel(c)
        PROVE  Cancels(c) /\ Cancelling(c)
    <2>1. Cancels(c)
      BY <1>2, CancelActions
    <2>2. c \in cancelling \ cancelling'
      BY <1>2 DEF FinishCancel
    <2>3. QED
      BY <2>1, <2>2, CancelEffect
  <1>3. QED
    BY <1>1, <1>2

\* The cancellation of what is there now is overtaken by nobody, and opens the slot.
LEMMA NotOvertaken ==
    ASSUME TypeOK, NEW c, Decided(c)
    PROVE  /\ ReadNow(c) => ~Overtaken(c)
           /\ OpenedSlot(c.row.slot, c.slot).status \in {slot[c.row.slot].status, "open"}
           /\ c.slot.status # "open" => OpenedSlot(c.row.slot, c.slot).status = "open"
           /\ ~Overtaken(c) => OpenedSlot(c.row.slot, c.slot).status = "open"
  BY DEF ReadNow, Overtaken, OpenedSlot

\* What applying a verification does to the booking v is about.
Applying(k) ==
    \/ /\ booking' = [booking EXCEPT ![k].status = "confirmed", ![k].payment = "completed"]
       /\ slot' = [slot EXCEPT ![booking[k].slot] = BookedSlot]
       /\ payout' = [payout EXCEPT ![k] = @ + booking[k].amount]
       /\ UNCHANGED <<hold, refunded, cancelVars>>
    \/ /\ booking' = [booking EXCEPT ![k].payment = "failed"]
       /\ UNCHANGED <<slot, payout, hold, refunded, cancelVars>>

\* The other verifications change nothing but the webhooks.
LEMMA ApplyAction ==
    ASSUME TypeOK, NEW v \in verifying, VerifyApply(v)
    PROVE  /\ v.tx \in Txs /\ tx[v.tx].booking \in BookingKeys
           /\ booking[tx[v.tx].booking] \in BookingRow
           /\ booking[tx[v.tx].booking].status # "absent"
           /\ booking[tx[v.tx].booking].slot \in Slots
           /\ \/ v.result = "completed" /\ Applying(tx[v.tx].booking)
              \/ v.result = "failed" /\ Applying(tx[v.tx].booking)
              \/ UNCHANGED <<slot, hold, booking, moneyVars>>
  <1>1. v \in Verification /\ v.tx \in Txs /\ tx[v.tx].status # "absent"
    BY DEF TypeOK, Verification
  <1>2. /\ tx[v.tx].booking \in BookingKeys
        /\ booking[tx[v.tx].booking] \in BookingRow
        /\ booking[tx[v.tx].booking].status # "absent"
        /\ booking[tx[v.tx].booking].slot \in Slots
    BY <1>1 DEF TypeOK
  <1>3. CASE v.result = "completed"
    BY <1>1, <1>2, <1>3 DEF VerifyApply, Settled, Applying
  <1>4. CASE v.result = "failed"
    BY <1>1, <1>2, <1>4 DEF VerifyApply, Settled, Applying
  <1>5. CASE v.result \notin {"completed", "failed"}
    BY <1>1, <1>2, <1>5 DEF VerifyApply, Settled, moneyVars
  <1>6. QED
    BY <1>1, <1>2, <1>3, <1>4, <1>5

\* A step of the hold endpoints or of the listing.
Holding ==
    \/ \E u \in Users, s \in Slots : HoldSlot(u, s)
    \/ \E u \in Users, s \in Slots : ReleaseSlot(u, s)
    \/ \E first, last \in Slots : ListSlots(first, last)

\* The cancellations that begin have read what is there.
Reading ==
    /\ \A c \in cancelling' \ cancelling : c.key \in BookingKeys /\ ReadNow(c)
    /\ UNCHANGED <<slot, hold, booking, payout, refunded, crossed>>

LEMMA ReadingActions ==
    ASSUME TypeOK,
           \/ \E x \in Cancellers, k \in BookingKeys : StartCancel(x, k)
           \/ \E c \in cancelling : AbandonCancel(c)
    PROVE  Reading
  <1>1. ASSUME NEW x \in Cancellers, NEW k \in BookingKeys, StartCancel(x, k)
        PROVE  Reading
    <2>1. Live(k) /\ cancelling' = cancelling \cup {ReadBy(x, k)}
      BY <1>1 DEF StartCancel
    <2>2. ReadBy(x, k).key = k /\ ReadNow(ReadBy(x, k))
      BY <2>1, ReadsAreDecided DEF ReadNow
    <2>3. UNCHANGED <<slot, hold, booking, payout, refunded, crossed>>
      BY <1>1 DEF StartCancel, inventoryVars
    <2>4. QED
      BY <2>1, <2>2, <2>3 DEF Reading
  <1>2. ASSUME NEW c \in cancelling, AbandonCancel(c)
        PROVE  Reading
    BY <1>2 DEF AbandonCancel, Reading, inventoryVars
  <1>3. QED
    BY <1>1, <1>2

\* Every step opens bookings, cancels one, lapses expired ones, applies a
\* verification, or leaves the bookings and the money alone.
LEMMA StepSources ==
    ASSUME TypeOK, [Next]_vars
    PROVE  \/ Opening
           \/ \E c : Cancels(c) /\ Cancelling(c)
           \/ ReleaseExpiredHolds
           \/ \E v \in verifying : VerifyApply(v)
           \/ Holding /\ UNCHANGED <<booking, moneyVars>>
           \/ Reading
  <1>1. CASE \/ \E u \in Users, s \in Slots, k \in ClientKeys, a \in Amounts : CreateBooking(u, s, k, a)
             \/ \E u \in Users, s \in Slots, n \in GroupSizes : CreateGroupBooking(u, s, n)
             \/ \E u \in Users, chain \in Recurrences : CreateRecurringBookings(u, chain)
             \/ PromoteWaitlist
    BY <1>1, OpeningActions
  <1>2. CASE (\E k \in BookingKeys : CancelBooking(k)) \/ (\E c \in cancelling : FinishCancel(c))
    BY <1>2, CancelAction
  <1>3. CASE \E v \in verifying : VerifyApply(v)
    BY <1>3
  <1>4. CASE ReleaseExpiredHolds
    BY <1>4
  <1>5. CASE Holding
    BY <1>5 DEF Holding, HoldSlot, ReleaseSlot, ListSlots, moneyVars
  <1>6. CASE \/ \E x \in Cancellers, k \in BookingKeys : StartCancel(x, k)
             \/ \E c \in cancelling : AbandonCancel(c)
    BY <1>6, ReadingActions
  <1>7. CASE UNCHANGED <<slot, hold, booking, moneyVars>>
    BY <1>7 DEF Reading, moneyVars, cancelVars
  <1>8. CASE Tick \/ UNCHANGED vars
    <2>1. UNCHANGED <<slot, hold, booking, moneyVars>>
      BY <1>8 DEF Tick, inventoryVars, moneyVars, cancelVars, vars
    <2>2. QED
      BY <1>7, <2>1
  <1>9. CASE \/ \E u \in Users, e \in Entries, W \in Windows : JoinWaitlist(u, e, W)
             \/ \E e \in Entries, W \in Windows, st \in {"active", "inactive"} : UpdateEntry(e, W, st)
             \/ \E e \in Entries : WithdrawEntry(e)
    <2>1. UNCHANGED <<slot, hold, booking, moneyVars>>
      BY <1>9 DEF JoinWaitlist, UpdateEntry, WithdrawEntry, inventoryVars
    <2>2. QED
      BY <1>7, <2>1
  <1>10. CASE \/ \E k \in BookingKeys, t \in Txs, via \in Vias : Checkout(k, t, via)
              \/ \E k \in BookingKeys, t \in Txs, via \in Vias : InitiatePayment(k, t, via)
              \/ \E t \in Txs : CustomerActs(t)
              \/ \E r \in Requests, t \in Txs, key \in WebhookKeys \cup {NoWebhookKey} : VerifyFetch(r, t, key)
              \/ \E v \in verifying : VerifyCrash(v)
    <2>1. UNCHANGED <<slot, hold, booking, moneyVars>>
      BY <1>10 DEF Checkout, InitiatePayment, StartTransaction, CustomerActs, VerifyFetch, VerifyCrash,
                   inventoryVars
    <2>2. QED
      BY <1>7, <2>1
  <1>11. QED
    BY <1>1, <1>2, <1>3, <1>4, <1>5, <1>6, <1>8, <1>9, <1>10 DEF Next, Holding

\* The same, with a verification reduced to what it does to its booking.
LEMMA StepKinds ==
    ASSUME TypeOK, [Next]_vars
    PROVE  \/ Opening
           \/ \E c : Cancelling(c)
           \/ ReleaseExpiredHolds
           \/ \E k \in BookingKeys : /\ booking[k] \in BookingRow
                                     /\ booking[k].status # "absent"
                                     /\ booking[k].slot \in Slots
                                     /\ Applying(k)
           \/ Holding /\ UNCHANGED <<booking, moneyVars>>
           \/ Reading
  <1>1. ASSUME NEW v \in verifying, VerifyApply(v)
        PROVE  \/ \E k \in BookingKeys : /\ booking[k] \in BookingRow
                                         /\ booking[k].status # "absent"
                                         /\ booking[k].slot \in Slots
                                         /\ Applying(k)
               \/ Reading
    BY <1>1, ApplyAction DEF moneyVars, cancelVars, Reading
  <1>2. QED
    BY <1>1, StepSources

\* Whose cancellation was overtaken once, stays on the list, and no cancellation is
\* under way that has not begun.
LEMMA CrossedStay ==
    ASSUME TypeOK, [Next]_vars
    PROVE  /\ crossed \subseteq crossed'
           /\ Reading \/ cancelling' \subseteq cancelling
  <1>1. CASE Opening
    BY <1>1 DEF Opening, moneyVars, cancelVars
  <1>2. CASE \E c : Cancelling(c)
    BY <1>2 DEF Cancelling
  <1>3. CASE ReleaseExpiredHolds
    BY <1>3 DEF ReleaseExpiredHolds, moneyVars, cancelVars
  <1>4. CASE \E k \in BookingKeys : Applying(k)
    BY <1>4 DEF Applying, cancelVars
  <1>5. CASE UNCHANGED moneyVars
    BY <1>5 DEF moneyVars, cancelVars
  <1>6. CASE Reading
    BY <1>6 DEF Reading
  <1>7. QED
    BY <1>1, <1>2, <1>3, <1>4, <1>5, <1>6, StepKinds

(***************************************************************************)
(* Money.  RefundsCovered is not inductive alone: a pending booking that   *)
(* counted as paid could be refunded without a payout.                     *)
(***************************************************************************)

PendingUnpaid ==
    \A k \in BookingKeys : booking[k].status \in {"absent", "pending"} =>
        booking[k].payment \in {"pending", "failed"}

\* What a cancellation under way has decided: a refund of a confirmed booking only,
\* and no more than its price.
Fits(c) ==
    /\ c.row.status \in {"pending", "confirmed"}
    /\ c.due \in 0 .. c.row.amount
    /\ c.row.status # "confirmed" => c.due = 0

MoneyInv ==
    /\ TypeOK /\ PendingUnpaid /\ RefundsCovered
    /\ \A c \in cancelling : Fits(c)

\* A refund is due for confirmed bookings only.
LEMMA ReadsFit ==
    ASSUME TypeOK, PendingUnpaid, NEW c, c.key \in BookingKeys, ReadNow(c)
    PROVE  Fits(c)
  <1>1. Live(c.key) /\ c.row = booking[c.key] /\ c.due = RefundDue(c.key)
    BY DEF ReadNow
  <1>2. booking[c.key].status # "confirmed" => booking[c.key].payment # "completed"
    BY <1>1 DEF PendingUnpaid, Live
  <1>3. RefundDue(c.key) \in 0 .. booking[c.key].amount
    BY <1>1, ReadsAreDecided
  <1>4. QED
    BY <1>1, <1>2, <1>3 DEF Fits, Live, RefundDue

LEMMA CancellingFits ==
    ASSUME MoneyInv, NEW c, Cancelling(c)
    PROVE  Fits(c) /\ c.due \in 0 .. booking[c.key].amount
  <1>1. Fits(c)
    BY ReadsFit DEF MoneyInv, Cancelling, Decided
  <1>2. QED
    BY <1>1 DEF Fits, Cancelling, Decided

LEMMA MoneyStep == MoneyInv /\ [Next]_vars => MoneyInv'
  <1> SUFFICES ASSUME MoneyInv, [Next]_vars PROVE MoneyInv'
    OBVIOUS
  <1>1. /\ TypeOK /\ PendingUnpaid /\ RefundsCovered /\ TypeOK'
        /\ \A c \in cancelling : Fits(c)
    BY TypesPreserved DEF MoneyInv
  <1>2. /\ booking \in [BookingKeys -> BookingRow]
        /\ booking' \in [BookingKeys -> BookingRow]
        /\ payout \in [BookingKeys -> Nat]
        /\ refunded \in [BookingKeys -> Nat]
    BY <1>1 DEF TypeOK
  <1>3. \A k \in BookingKeys : booking[k].amount \in Nat /\ payout[k] \in Nat /\ refunded[k] \in Nat
    BY <1>2 DEF BookingRow
  <1>4. CASE Opening
    <2>1. UNCHANGED <<payout, refunded, cancelling, crossed>>
      BY <1>4 DEF Opening, moneyVars, cancelVars
    <2>2. ASSUME NEW k \in BookingKeys
          PROVE  booking'[k] = booking[k] \/ Opened(k)
      BY <1>4 DEF Opening
    <2>3. PendingUnpaid'
      BY <1>1, <2>2 DEF PendingUnpaid, Opened
    <2>4. RefundsCovered'
      BY <1>1, <1>3, <2>1, <2>2 DEF RefundsCovered, Opened
    <2>5. QED
      BY <1>1, <2>1, <2>3, <2>4 DEF MoneyInv
  <1>5. ASSUME NEW c, Cancelling(c)
        PROVE  MoneyInv'
    <2> DEFINE k == c.key
    <2>1. /\ Decided(c)
          /\ booking'[k] = CancelledBooking(k, c.row, c.due)
          /\ \A b \in BookingKeys \ {k} : booking'[b] = booking[b] \/ Opened(b)
          /\ refunded' = [refunded EXCEPT ![k] = @ + c.due]
          /\ crossed' = IF Overtaken(c) THEN crossed \cup {k} ELSE crossed
          /\ payout' = payout
          /\ cancelling' \subseteq cancelling
      BY <1>5 DEF Cancelling
    <2>2. booking'[k].status = "cancelled" /\ k \in BookingKeys
      BY <1>1, <2>1, CancellationRevises DEF Decided
    <2>3. Fits(c) /\ c.due \in 0 .. booking[k].amount
      BY <1>5, CancellingFits
    <2>4. PendingUnpaid'
      BY <1>1, <2>1, <2>2 DEF PendingUnpaid, Opened
    <2>5. ASSUME NEW b \in BookingKeys \ crossed'
          PROVE  refunded'[b] + (IF booking'[b].status = "confirmed" THEN booking'[b].amount ELSE 0)
                     <= payout'[b]
      <3>1. /\ b \notin crossed /\ payout'[b] = payout[b]
            /\ refunded[b] + (IF booking[b].status = "confirmed" THEN booking[b].amount ELSE 0)
                  <= payout[b]
        BY <1>1, <2>1 DEF RefundsCovered
      <3>2. CASE b = k
        <4>1. ~Overtaken(c)
          BY <2>1, <3>2
        <4>2. c.row = booking[k]
          BY <4>1 DEF Overtaken
        <4>3. refunded'[k] = refunded[k] + c.due
          BY <1>2, <2>1, <2>2
        <4>4. booking[k].status # "confirmed" => c.due = 0
          BY <2>3, <4>2 DEF Fits
        <4> HIDE DEF k
        <4>5. QED
          BY <1>3, <2>2, <2>3, <3>1, <3>2, <4>3, <4>4
      <3>3. CASE b # k
        <4>1. refunded'[b] = refunded[b]
          BY <1>2, <2>1, <3>3
        <4>2. booking'[b] = booking[b] \/ Opened(b)
          BY <2>1, <3>3
        <4>3. QED
          BY <1>3, <3>1, <4>1, <4>2 DEF Opened
      <3>4. QED
        BY <3>2, <3>3
    <2>6. QED
      BY <1>1, <2>1, <2>4, <2>5 DEF MoneyInv, RefundsCovered
  <1>6. CASE ReleaseExpiredHolds
    <2>1. UNCHANGED <<payout, refunded, cancelling, crossed>>
      BY <1>6 DEF ReleaseExpiredHolds, moneyVars, cancelVars
    <2>2. ASSUME NEW k \in BookingKeys
          PROVE  \/ booking'[k] = booking[k]
                 \/ booking[k].status = "pending" /\ booking'[k].status = "cancelled"
      <3>1. \/ booking'[k] = booking[k]
            \/ /\ booking[k].status = "pending"
               /\ booking'[k] = [booking[k] EXCEPT !.status = "cancelled"]
        BY <1>6 DEF ReleaseExpiredHolds
      <3>2. [booking[k] EXCEPT !.status = "cancelled"].status = "cancelled"
        BY <1>2 DEF BookingRow
      <3>3. QED
        BY <3>1, <3>2
    <2>3. PendingUnpaid'
      BY <1>1, <2>2 DEF PendingUnpaid
    <2>4. RefundsCovered'
      BY <1>1, <1>3, <2>1, <2>2 DEF RefundsCovered
    <2>5. QED
      BY <1>1, <2>1, <2>3, <2>4 DEF MoneyInv
  <1>7. ASSUME NEW k \in BookingKeys, booking[k] \in BookingRow, Applying(k)
        PROVE  MoneyInv'
    <2>1. CASE booking' = [booking EXCEPT ![k].status = "confirmed", ![k].payment = "completed"]
               /\ payout' = [payout EXCEPT ![k] = @ + booking[k].amount]
               /\ UNCHANGED <<refunded, cancelling, crossed>>
      <3>1. /\ booking'[k].status = "confirmed" /\ booking'[k].amount = booking[k].amount
            /\ payout'[k] = payout[k] + booking[k].amount
        BY <1>2, <1>7, <2>1 DEF BookingRow
      <3>2. \A b \in BookingKeys \ {k} : booking'[b] = booking[b] /\ payout'[b] = payout[b]
        BY <1>2, <2>1
      <3>3. PendingUnpaid'
        BY <1>1, <3>1, <3>2 DEF PendingUnpaid
      <3>4. ASSUME NEW b \in BookingKeys \ crossed
            PROVE  refunded'[b] + (IF booking'[b].status = "confirmed" THEN booking'[b].amount ELSE 0)
                       <= payout'[b]
        <4>1. refunded[b] + (IF booking[b].status = "confirmed" THEN booking[b].amount ELSE 0)
                  <= payout[b]
          BY <1>1 DEF RefundsCovered
        <4>2. CASE b = k
          BY <1>3, <2>1, <3>1, <4>1, <4>2
        <4>3. CASE b # k
          BY <1>3, <2>1, <3>2, <4>1, <4>3
        <4>4. QED
          BY <4>2, <4>3
      <3>5. QED
        BY <1>1, <2>1, <3>3, <3>4 DEF MoneyInv, RefundsCovered
    <2>2. CASE booking' = [booking EXCEPT ![k].payment = "failed"]
               /\ UNCHANGED <<payout, refunded, cancelling, crossed>>
      <3>1. \A b \in BookingKeys : /\ booking'[b].status = booking[b].status
                                   /\ booking'[b].amount = booking[b].amount
                                   /\ booking'[b].payment \in {booking[b].payment, "failed"}
        BY <1>2, <2>2 DEF BookingRow
      <3>2. QED
        BY <1>1, <2>2, <3>1 DEF MoneyInv, PendingUnpaid, RefundsCovered
    <2>3. QED
      BY <1>7, <2>1, <2>2 DEF Applying, cancelVars
  <1>8. CASE UNCHANGED <<booking, moneyVars>>
    BY <1>1, <1>8 DEF MoneyInv, PendingUnpaid, RefundsCovered, moneyVars, cancelVars
  <1>9. CASE Reading
    <2>1. UNCHANGED <<booking, payout, refunded, crossed>>
      BY <1>9 DEF Reading
    <2>2. \A c \in cancelling' : Fits(c)
      BY <1>1, <1>9, ReadsFit DEF Reading
    <2>3. PendingUnpaid' /\ RefundsCovered'
      BY <1>1, <2>1 DEF PendingUnpaid, RefundsCovered
    <2>4. QED
      BY <1>1, <2>2, <2>3 DEF MoneyInv, Fits
  <1>10. QED
    BY <1>1, <1>4, <1>5, <1>6, <1>7, <1>8, <1>9, StepKinds

LEMMA MoneyInit == Init => MoneyInv
  BY InitTypes DEF Init, MoneyInv, PendingUnpaid, RefundsCovered, AbsentBooking

\* The cancellations under way have decided on refunds that were due.
LEMMA MoneyInvariant == Spec => []MoneyInv
  <1>1. Init => MoneyInv
    BY MoneyInit
  <1>2. MoneyInv /\ [Next]_vars => MoneyInv'
    BY MoneyStep
  <1>3. QED
    BY <1>1, <1>2, PTL DEF Spec

\* The refunds of a booking are covered by what was credited for its confirmations,
\* unless a cancellation of it was decided on rows that had changed when it committed.
THEOREM RefundsAreCovered == Spec => []RefundsCovered
  <1>1. MoneyInv => RefundsCovered
    BY DEF MoneyInv
  <1>2. QED
    BY <1>1, MoneyInvariant, PTL

(***************************************************************************)
(* The ledger.                                                             *)
(***************************************************************************)

LEMMA LedgerStart == Init => Ledger!LedgerInit
  BY DEF Init, Ledger!LedgerInit, AbsentBooking

\* One booking through one step: the account step it takes.
LEMMA AccountStep ==
    ASSUME MoneyInv, [Next]_vars, NEW k \in BookingKeys
    PROVE  \/ /\ UNCHANGED <<booking[k].status, booking[k].amount, payout[k], refunded[k]>>
           \/ /\ booking[k].status = "absent" /\ booking'[k].status = "pending"
              /\ UNCHANGED <<payout[k], refunded[k]>>
           \/ /\ booking[k].status # "absent" /\ booking'[k].status = "confirmed"
              /\ payout'[k] = payout[k] + booking[k].amount
              /\ UNCHANGED <<booking[k].amount, refunded[k]>>
           \/ /\ booking[k].status = "pending" /\ booking'[k].status = "cancelled"
              /\ UNCHANGED <<booking[k].amount, payout[k], refunded[k]>>
           \/ /\ booking[k].status = "confirmed" /\ booking'[k].status = "cancelled"
              /\ refunded'[k] - refunded[k] \in 0 .. booking[k].amount
              /\ UNCHANGED <<booking[k].amount, payout[k]>>
           \/ /\ k \in crossed'
              /\ booking[k].status # "absent" /\ booking'[k].status = "cancelled"
              /\ refunded'[k] - refunded[k] \in 0 .. booking[k].amount
              /\ UNCHANGED <<booking[k].amount, payout[k]>>
  <1>1. TypeOK /\ PendingUnpaid
    BY DEF MoneyInv
  <1>2. /\ booking \in [BookingKeys -> BookingRow]
        /\ payout \in [BookingKeys -> Nat]
        /\ refunded \in [BookingKeys -> Nat]
    BY <1>1 DEF TypeOK
  <1>3. CASE Opening
    BY <1>3 DEF Opening, Opened, moneyVars
  <1>4. ASSUME NEW c, Cancelling(c)
        PROVE  \/ c.key # k /\ (booking'[k] = booking[k] \/ Opened(k)) /\ UNCHANGED <<payout[k], refunded[k]>>
               \/ /\ booking[k].status # "absent" /\ booking'[k].status = "cancelled"
                  /\ \/ k \in crossed'
                     \/ booking[k].status = "pending" /\ refunded'[k] = refunded[k]
                     \/ booking[k].status = "confirmed"
                  /\ refunded'[k] - refunded[k] \in 0 .. booking[k].amount
                  /\ UNCHANGED <<booking[k].amount, payout[k]>>
    <2>1. /\ Decided(c)
          /\ booking'[c.key] = CancelledBooking(c.key, c.row, c.due)
          /\ \A b \in BookingKeys \ {c.key} : booking'[b] = booking[b] \/ Opened(b)
          /\ refunded' = [refunded EXCEPT ![c.key] = @ + c.due]
          /\ crossed' = IF Overtaken(c) THEN crossed \cup {c.key} ELSE crossed
          /\ payout' = payout
      BY <1>4 DEF Cancelling
    <2>2. CASE c.key = k
      <3>1. /\ booking[k].status # "absent" /\ booking'[k].status = "cancelled"
            /\ booking'[k].amount = booking[k].amount
        BY <1>1, <2>1, <2>2, CancellationRevises DEF Decided
      <3>2. Fits(c) /\ c.due \in 0 .. booking[k].amount
        BY <1>4, <2>2, CancellingFits
      <3>3. refunded'[k] = refunded[k] + c.due /\ refunded[k] \in Nat
        BY <1>2, <2>1, <2>2
      <3>4. booking[k].amount \in Nat
        BY <1>2 DEF BookingRow
      <3>5. refunded'[k] - refunded[k] \in 0 .. booking[k].amount
        BY <3>2, <3>3, <3>4
      <3>6. CASE Overtaken(c)
        BY <2>1, <2>2, <3>1, <3>5, <3>6
      <3>7. CASE ~Overtaken(c)
        <4>1. c.row = booking[k]
          BY <2>2, <3>7 DEF Overtaken
        <4>2. \/ booking[k].status = "pending" /\ c.due = 0
              \/ booking[k].status = "confirmed"
          BY <3>2, <4>1 DEF Fits
        <4>3. \/ booking[k].status = "pending" /\ refunded'[k] = refunded[k]
              \/ booking[k].status = "confirmed"
          BY <3>3, <4>2
        <4>4. QED
          BY <2>1, <3>1, <3>5, <4>3
      <3>8. QED
        BY <3>6, <3>7
    <2>3. CASE c.key # k
      BY <1>2, <2>1, <2>3
    <2>4. QED
      BY <2>2, <2>3
  <1>5. CASE ReleaseExpiredHolds
    <2>1. \/ booking'[k] = booking[k]
          \/ /\ booking[k].status = "pending"
             /\ booking'[k] = [booking[k] EXCEPT !.status = "cancelled"]
      BY <1>5 DEF ReleaseExpiredHolds
    <2>2. /\ [booking[k] EXCEPT !.status = "cancelled"].status = "cancelled"
          /\ [booking[k] EXCEPT !.status = "cancelled"].amount = booking[k].amount
      BY <1>2 DEF BookingRow
    <2>3. UNCHANGED <<payout, refunded>>
      BY <1>5 DEF ReleaseExpiredHolds, moneyVars
    <2>4. QED
      BY <2>1, <2>2, <2>3
  <1>6. ASSUME NEW c \in BookingKeys, booking[c].status # "absent", Applying(c)
        PROVE  \/ /\ booking[k].status # "absent" /\ booking'[k].status = "confirmed"
                  /\ payout'[k] = payout[k] + booking[k].amount
                  /\ UNCHANGED <<booking[k].amount, refunded[k]>>
               \/ UNCHANGED <<booking[k].status, booking[k].amount, payout[k], refunded[k]>>
    <2>1. booking[c] \in BookingRow /\ payout[c] \in Nat
      BY <1>2
    <2>2. CASE c = k
      BY <1>2, <1>6, <2>1, <2>2 DEF Applying, BookingRow
    <2>3. CASE c # k
      BY <1>2, <1>6, <2>3 DEF Applying
    <2>4. QED
      BY <2>2, <2>3
  <1>7. CASE UNCHANGED <<booking, moneyVars>> \/ Reading
    BY <1>7 DEF moneyVars, Reading
  <1>8. CASE \E c : Cancelling(c)
    BY <1>4, <1>8 DEF Opened
  <1>9. QED
    BY <1>1, <1>3, <1>5, <1>6, <1>7, <1>8, StepKinds

LEMMA LedgerSteps == MoneyInv /\ MoneyInv' /\ [Next]_vars => [Ledger!LedgerNext]_Ledger!ledgerVars
  <1> SUFFICES ASSUME MoneyInv, MoneyInv', [Next]_vars PROVE Ledger!LedgerNext
    OBVIOUS
  <1> DEFINE statuses == [k \in BookingKeys |-> booking[k].status]
             prices == [k \in BookingKeys |-> booking[k].amount]
  <1>1. /\ booking' \in [BookingKeys -> BookingRow]
        /\ payout' \in [BookingKeys -> Nat]
        /\ refunded' \in [BookingKeys -> Nat]
        /\ crossed' \subseteq BookingKeys
    BY DEF MoneyInv, TypeOK
  <1>2. /\ statuses' \in [BookingKeys -> {"absent", "pending", "confirmed", "cancelled"}]
        /\ prices' \in [BookingKeys -> Nat]
    BY <1>1 DEF BookingRow
  <1>3. ASSUME NEW k \in BookingKeys
        PROVE  \/ Ledger!Same(k) \/ Ledger!Open(k) \/ Ledger!Confirm(k)
               \/ Ledger!Lapse(k) \/ Ledger!Revoke(k) \/ Ledger!RevokeAgain(k)
    <2>1. booking'[k].amount \in Nat
      BY <1>1 DEF BookingRow
    <2>2. QED
      BY <2>1, AccountStep
      DEF Ledger!Same, Ledger!Open, Ledger!Confirm, Ledger!Lapse, Ledger!Revoke,
          Ledger!RevokeAgain
  <1>4. crossed \subseteq crossed'
    BY CrossedStay DEF MoneyInv
  <1>5. QED
    BY <1>1, <1>2, <1>3, <1>4 DEF Ledger!LedgerNext

\* Each booking is an account of the ledger: it is credited its price by every
\* confirmation and debited at most that by the end of one, or by a cancellation that
\* others have overtaken, which the ledger tells apart.
THEOREM KeepsTheLedger == Spec => LedgerRefinement
  <1>1. Init => MoneyInv /\ Ledger!LedgerInit
    BY MoneyInit, LedgerStart
  <1>2. MoneyInv /\ [Next]_vars => MoneyInv'
    BY MoneyStep
  <1>3. MoneyInv /\ MoneyInv' /\ [Next]_vars => [Ledger!LedgerNext]_Ledger!ledgerVars
    BY LedgerSteps
  <1>4. QED
    BY <1>1, <1>2, <1>3, PTL DEF Spec, LedgerRefinement, Ledger!LedgerSpec

\* What the ledger promises, whoever keeps it.
Balanced ==
    /\ \A k \in BookingKeys :
          booking[k].amount \in Nat /\ payout[k] \in Nat /\ refunded[k] \in Nat
    /\ RefundsCovered

LEMMA LedgerBalances == Balanced /\ [Ledger!LedgerNext]_Ledger!ledgerVars => Balanced'
  <1> SUFFICES ASSUME Balanced, [Ledger!LedgerNext]_Ledger!ledgerVars,
                      NEW k \in BookingKeys
               PROVE  /\ booking'[k].amount \in Nat /\ payout'[k] \in Nat
                      /\ refunded'[k] \in Nat
                      /\ k \notin crossed' =>
                         refunded'[k] + (IF booking'[k].status = "confirmed"
                                         THEN booking'[k].amount ELSE 0) <= payout'[k]
    BY DEF Balanced, RefundsCovered
  <1> DEFINE statuses == [b \in BookingKeys |-> booking[b].status]
             prices == [b \in BookingKeys |-> booking[b].amount]
  <1>1. /\ statuses[k] = booking[k].status /\ statuses'[k] = booking'[k].status
        /\ prices[k] = booking[k].amount /\ prices'[k] = booking'[k].amount
    OBVIOUS
  <1>2. /\ booking[k].amount \in Nat /\ payout[k] \in Nat /\ refunded[k] \in Nat
        /\ k \notin crossed =>
           refunded[k] + (IF booking[k].status = "confirmed" THEN booking[k].amount ELSE 0)
               <= payout[k]
    BY DEF Balanced, RefundsCovered
  <1>3. CASE UNCHANGED <<statuses, prices, payout, refunded, crossed>>
    BY <1>1, <1>2, <1>3
  <1>4. CASE Ledger!LedgerNext
    <2>1. booking'[k].amount \in Nat /\ payout'[k] \in Nat /\ refunded'[k] \in Nat
      <3>1. /\ prices' \in [BookingKeys -> Nat] /\ payout' \in [BookingKeys -> Nat]
            /\ refunded' \in [BookingKeys -> Nat]
        BY <1>4 DEF Ledger!LedgerNext
      <3>2. prices'[k] \in Nat
        BY <3>1
      <3>3. QED
        BY <1>1, <3>1, <3>2
    <2>2. \/ Ledger!Same(k) \/ Ledger!Open(k) \/ Ledger!Confirm(k)
          \/ Ledger!Lapse(k) \/ Ledger!Revoke(k) \/ Ledger!RevokeAgain(k)
      BY <1>4 DEF Ledger!LedgerNext
    <2>3. crossed \subseteq crossed'
      BY <1>4 DEF Ledger!LedgerNext
    <2>4. QED
      BY <1>2, <2>1, <2>2, <2>3
      DEF Ledger!Same, Ledger!Open, Ledger!Confirm, Ledger!Lapse, Ledger!Revoke,
          Ledger!RevokeAgain
  <1>5. QED
    BY <1>3, <1>4 DEF Ledger!ledgerVars

\* The ledger alone, without slots, clocks and callbacks, keeps the refunds covered:
\* whatever implements its steps gives back no more than it credited for confirmations,
\* but for the bookings whose cancellations were overtaken.
THEOREM LedgerCoversRefunds == LedgerRefinement => []RefundsCovered
  <1>1. Ledger!LedgerInit => Balanced
    <2> SUFFICES ASSUME Ledger!LedgerInit, NEW k \in BookingKeys
                 PROVE  /\ booking[k].amount = 0 /\ payout[k] = 0 /\ refunded[k] = 0
                        /\ booking[k].status = "absent"
      BY DEF Balanced, RefundsCovered
    <2> DEFINE statuses == [b \in BookingKeys |-> booking[b].status]
               prices == [b \in BookingKeys |-> booking[b].amount]
    <2>1. statuses[k] = booking[k].status /\ prices[k] = booking[k].amount
      OBVIOUS
    <2>2. /\ statuses = [b \in BookingKeys |-> "absent"] /\ prices = [b \in BookingKeys |-> 0]
          /\ payout[k] = 0 /\ refunded[k] = 0
      BY DEF Ledger!LedgerInit
    <2>3. statuses[k] = "absent" /\ prices[k] = 0
      BY <2>2
    <2>4. QED
      BY <2>1, <2>2, <2>3
  <1>2. Balanced => RefundsCovered
    BY DEF Balanced
  <1>3. QED
    BY <1>1, <1>2, LedgerBalances, PTL DEF LedgerRefinement, Ledger!LedgerSpec

(***************************************************************************)
(* Slots.  Each invariant is inductive relative to type correctness.       *)
(***************************************************************************)

\* A booking other than the cancelled one keeps its row or was absent before.
LEMMA OthersKeepTheirRows ==
    ASSUME TypeOK, [Next]_vars, NEW k \in BookingKeys, booking[k].status # "absent"
    PROVE  /\ booking'[k].slot = booking[k].slot
           /\ \/ booking'[k].status = booking[k].status
              \/ slot'[booking[k].slot].status # "booked" /\ booking'[k].status = "cancelled"
              \/ slot'[booking[k].slot] = BookedSlot /\ booking'[k].status = "confirmed"
              \/ k \in crossed' /\ booking'[k].status = "cancelled"
  <1>1. /\ booking \in [BookingKeys -> BookingRow] /\ slot \in [Slots -> SlotRow]
        /\ booking[k].slot \in Slots
    BY DEF TypeOK
  <1>2. CASE Opening
    BY <1>2 DEF Opening, Opened
  <1>3. ASSUME NEW c, Cancelling(c)
        PROVE  /\ booking'[k].slot = booking[k].slot
               /\ \/ booking'[k].status = booking[k].status
                  \/ slot'[booking[k].slot].status # "booked" /\ booking'[k].status = "cancelled"
                  \/ k \in crossed' /\ booking'[k].status = "cancelled"
    <2>1. CASE c.key = k
      <3>1. Decided(c) /\ booking'[k] = CancelledBooking(k, c.row, c.due)
        BY <1>3, <2>1 DEF Cancelling
      <3>2. /\ booking'[k].status = "cancelled" /\ booking'[k].slot = booking[k].slot
            /\ c.row.slot = booking[k].slot
        BY <2>1, <3>1, CancellationRevises DEF Decided
      <3>3. CASE Overtaken(c)
        BY <1>3, <2>1, <3>2, <3>3 DEF Cancelling
      <3>4. CASE ~Overtaken(c)
        <4>1. OpenedSlot(c.row.slot, c.slot).status = "open"
          BY <3>1, <3>4, NotOvertaken
        <4>2. \/ slot'[booking[k].slot] = OpenedSlot(c.row.slot, c.slot)
              \/ slot'[booking[k].slot].status = "held"
          BY <1>1, <1>3, <3>2 DEF Cancelling
        <4>3. QED
          BY <3>2, <4>1, <4>2
      <3>5. QED
        BY <3>3, <3>4
    <2>2. CASE c.key # k
      BY <1>3, <2>2 DEF Cancelling, Opened
    <2>3. QED
      BY <2>1, <2>2
  <1>4. CASE ReleaseExpiredHolds
    <2>1. \/ booking'[k] = booking[k]
          \/ /\ booking'[k] = [booking[k] EXCEPT !.status = "cancelled"]
             /\ slot'[booking[k].slot] = OpenSlot
      BY <1>1, <1>4 DEF ReleaseExpiredHolds
    <2>2. /\ [booking[k] EXCEPT !.status = "cancelled"].status = "cancelled"
          /\ [booking[k] EXCEPT !.status = "cancelled"].slot = booking[k].slot
      BY <1>1 DEF BookingRow
    <2>3. OpenSlot.status # "booked"
      BY DEF OpenSlot
    <2>4. \/ booking'[k] = booking[k]
          \/ /\ booking'[k].status = "cancelled"
             /\ booking'[k].slot = booking[k].slot
             /\ slot'[booking[k].slot].status # "booked"
      BY <2>1, <2>2, <2>3, Zenon
    <2>5. QED
      BY <2>4
  <1>5. ASSUME NEW c \in BookingKeys, Applying(c)
        PROVE  /\ booking'[k].slot = booking[k].slot
               /\ \/ booking'[k].status = booking[k].status
                  \/ slot'[booking[k].slot] = BookedSlot /\ booking'[k].status = "confirmed"
    BY <1>1, <1>5 DEF Applying, BookingRow
  <1>6. CASE UNCHANGED booking
    BY <1>6
  <1>7. QED
    BY <1>2, <1>3, <1>4, <1>5, <1>6, StepKinds DEF Reading

\* A slot that a step makes booked is the slot of the booking it confirms.
LEMMA BookedByConfirmation ==
    ASSUME TypeOK, [Next]_vars, NEW s \in Slots, slot'[s].status = "booked"
    PROVE  \/ slot[s].status = "booked"
           \/ \E k \in BookingKeys : booking'[k].status = "confirmed" /\ booking'[k].slot = s
  <1>1. booking \in [BookingKeys -> BookingRow] /\ slot \in [Slots -> SlotRow]
    BY DEF TypeOK
  <1>2. CASE Opening
    BY <1>2 DEF Opening, MayNormalise, OpenSlot
  <1>3. ASSUME NEW c, Cancelling(c)
        PROVE  slot[s].status = "booked"
    BY <1>3, NotOvertaken DEF Cancelling
  <1>4. CASE ReleaseExpiredHolds
    BY <1>4 DEF ReleaseExpiredHolds, OpenSlot
  <1>5. ASSUME NEW c \in BookingKeys, Applying(c)
        PROVE  \/ slot[s].status = "booked"
               \/ \E k \in BookingKeys : booking'[k].status = "confirmed" /\ booking'[k].slot = s
    BY <1>1, <1>5 DEF Applying, BookingRow
  <1>6. CASE Holding
    BY <1>1, <1>6 DEF Holding, HoldSlot, ReleaseSlot, ListSlots, Normalised, HeldSlot, OpenSlot
  <1>7. CASE UNCHANGED slot
    BY <1>7
  <1>8. QED
    BY <1>2, <1>3, <1>4, <1>5, <1>6, <1>7, StepKinds DEF Reading

\* Only a booking that exists has been cancelled.
CrossedExist == \A k \in crossed : booking[k].status # "absent"

LEMMA CrossedExistStep == TypeOK /\ CrossedExist /\ [Next]_vars => CrossedExist'
  <1> SUFFICES ASSUME TypeOK, CrossedExist, [Next]_vars, NEW k \in crossed'
               PROVE  booking'[k].status # "absent"
    BY DEF CrossedExist
  <1>1. k \in BookingKeys
    BY TypesPreserved DEF TypeOK
  <1>2. k \in crossed \/ booking[k].status # "absent"
    <2>1. CASE Opening
      BY <2>1 DEF Opening, moneyVars, cancelVars
    <2>2. CASE \E c : Cancelling(c)
      BY <2>2 DEF Cancelling, Decided
    <2>3. CASE ReleaseExpiredHolds
      BY <2>3 DEF ReleaseExpiredHolds, moneyVars, cancelVars
    <2>4. CASE \E c \in BookingKeys : Applying(c)
      BY <2>4 DEF Applying, cancelVars
    <2>5. CASE UNCHANGED moneyVars
      BY <2>5 DEF moneyVars, cancelVars
    <2>6. CASE Reading
      BY <2>6 DEF Reading
    <2>7. QED
      BY <2>1, <2>2, <2>3, <2>4, <2>5, <2>6, StepKinds
  <1>3. booking[k].status # "absent"
    BY <1>2 DEF CrossedExist
  <1>4. QED
    BY <1>1, <1>3, OthersKeepTheirRows

BookedInv == TypeOK /\ CrossedExist /\ BookedSlotHasConfirmedBooking

LEMMA BookedStep == BookedInv /\ [Next]_vars => BookedInv'
  <1> SUFFICES ASSUME BookedInv, [Next]_vars,
                      NEW s \in Slots, slot'[s].status = "booked"
               PROVE  \E k \in BookingKeys :
                         booking'[k].slot = s /\ (booking'[k].status = "confirmed" \/ k \in crossed')
    BY CrossedExistStep, TypesPreserved DEF BookedInv, BookedSlotHasConfirmedBooking
  <1>1. TypeOK /\ CrossedExist /\ BookedSlotHasConfirmedBooking /\ crossed \subseteq crossed'
    BY CrossedStay DEF BookedInv
  <1>2. CASE slot[s].status = "booked"
    <2>1. PICK k \in BookingKeys :
              booking[k].slot = s /\ (booking[k].status = "confirmed" \/ k \in crossed)
      BY <1>1, <1>2 DEF BookedSlotHasConfirmedBooking
    <2>2. booking[k].status # "absent"
      BY <1>1, <2>1 DEF CrossedExist
    <2>3. QED
      BY <1>1, <2>1, <2>2, OthersKeepTheirRows
  <1>3. CASE slot[s].status # "booked"
    BY <1>1, <1>3, BookedByConfirmation
  <1>4. QED
    BY <1>2, <1>3

\* A slot shown as booked always has a confirmed booking behind it, or one that was
\* cancelled on rows changed meanwhile.
THEOREM BookedSlotsAreConfirmed == Spec => []BookedSlotHasConfirmedBooking
  <1>1. Init => BookedInv
    BY InitTypes DEF Init, BookedInv, CrossedExist, BookedSlotHasConfirmedBooking, OpenSlot
  <1>2. BookedInv /\ [Next]_vars => BookedInv'
    BY BookedStep
  <1>3. BookedInv => BookedSlotHasConfirmedBooking
    BY DEF BookedInv
  <1>4. QED
    BY <1>1, <1>2, <1>3, PTL DEF Spec

(***************************************************************************)
(* HeldSlotHasHolder is not inductive alone: a cancellation that has read  *)
(* the slot as open leaves it held, and ends the booking it is held for.   *)
(***************************************************************************)

\* The slot is held for k, and no cancellation of k will leave it so.
Claims(k, s) ==
    /\ booking[k].status = "pending" /\ booking[k].slot = s
    /\ \A c \in cancelling : c.key = k => c.slot.status # "open"

HeldBySomebody ==
    \A s \in Slots : slot[s].status = "held" =>
        \/ hold[s].owner # NoUser /\ hold[s].until >= slot[s].expires
        \/ \E k \in BookingKeys : Claims(k, s)

\* Nobody is cancelling a booking that has just come into being.
LEMMA OpenedClaims ==
    ASSUME TypeOK, NEW k \in BookingKeys, NEW s, Opened(k), booking'[k].slot = s,
           cancelling' \subseteq cancelling
    PROVE  Claims(k, s)'
  <1>1. \A c \in cancelling' : c.key # k
    BY DEF TypeOK, Opened
  <1>2. QED
    BY <1>1 DEF Claims, Opened

\* A held slot that a step leaves held keeps a booking that claims it.
LEMMA PendingKeepsItsSlot ==
    ASSUME TypeOK, [Next]_vars, NEW s \in Slots,
           slot[s].status = "held", slot'[s].status = "held",
           NEW k \in BookingKeys, Claims(k, s)
    PROVE  \E b \in BookingKeys : Claims(b, s)'
  <1>1. booking \in [BookingKeys -> BookingRow] /\ slot \in [Slots -> SlotRow]
    BY DEF TypeOK
  <1>2. booking[k].status = "pending" /\ booking[k].slot = s
    BY DEF Claims
  <1>3. CASE booking'[k].status = "pending" /\ booking'[k].slot = s /\ cancelling' \subseteq cancelling
    BY <1>3 DEF Claims
  <1>4. CASE Opening
    <2>1. booking'[k] = booking[k] /\ cancelling' = cancelling
      BY <1>2, <1>4 DEF Opening, Opened, moneyVars, cancelVars
    <2>2. QED
      BY <1>2, <1>3, <2>1
  <1>5. ASSUME NEW c, Cancelling(c)
        PROVE  \E b \in BookingKeys : Claims(b, s)'
    <2>1. cancelling' \subseteq cancelling /\ Decided(c)
      BY <1>5 DEF Cancelling
    <2>2. CASE c.key = k
      <3>1. c.row.slot = s
        BY <1>2, <2>1, <2>2 DEF Decided
      <3>2. c.slot.status # "open"
        BY <1>5, <2>2, <3>1 DEF Cancelling, ReadNow, Claims
      <3>3. OpenedSlot(c.row.slot, c.slot).status = "open"
        BY <2>1, <3>2, NotOvertaken
      <3>4. \E b \in BookingKeys : Opened(b) /\ booking'[b].slot = s
        BY <1>5, <3>1, <3>3 DEF Cancelling
      <3>5. QED
        BY <2>1, <3>4, OpenedClaims
    <2>3. CASE c.key # k
      <3>1. booking'[k] = booking[k]
        BY <1>2, <1>5, <2>3 DEF Cancelling, Opened
      <3>2. QED
        BY <1>2, <1>3, <2>1, <3>1
    <2>4. QED
      BY <2>2, <2>3
  <1>6. CASE ReleaseExpiredHolds
    <2>1. booking'[k] = booking[k] /\ cancelling' = cancelling
      BY <1>1, <1>2, <1>6 DEF ReleaseExpiredHolds, OpenSlot, moneyVars, cancelVars
    <2>2. QED
      BY <1>2, <1>3, <2>1
  <1>7. ASSUME NEW c \in BookingKeys, Applying(c)
        PROVE  \E b \in BookingKeys : Claims(b, s)'
    <2>1. booking'[k].status = "pending" /\ booking'[k].slot = s
      BY <1>1, <1>2, <1>7 DEF Applying, BookingRow, BookedSlot
    <2>2. cancelling' = cancelling
      BY <1>7 DEF Applying, cancelVars
    <2>3. QED
      BY <1>3, <2>1, <2>2
  <1>8. CASE UNCHANGED <<booking, moneyVars>>
    BY <1>2, <1>3, <1>8 DEF moneyVars, cancelVars
  <1>9. CASE Reading
    <2>1. booking'[k] = booking[k]
      BY <1>9 DEF Reading
    <2>2. ASSUME NEW c \in cancelling', c.key = k
          PROVE  c.slot.status # "open"
      BY <1>2, <1>9, <2>2 DEF Reading, ReadNow, Claims
    <2>3. QED
      BY <1>2, <2>1, <2>2 DEF Claims
  <1>10. QED
    BY <1>4, <1>5, <1>6, <1>7, <1>8, <1>9, StepKinds

LEMMA HeldStep == TypeOK /\ HeldBySomebody /\ [Next]_vars => HeldBySomebody'
  <1> SUFFICES ASSUME TypeOK, HeldBySomebody, [Next]_vars,
                      NEW s \in Slots, slot'[s].status = "held"
               PROVE  \/ hold'[s].owner # NoUser /\ hold'[s].until >= slot'[s].expires
                      \/ \E k \in BookingKeys : Claims(k, s)'
    BY DEF HeldBySomebody
  <1>1. /\ booking \in [BookingKeys -> BookingRow]
        /\ slot \in [Slots -> SlotRow]
        /\ hold \in [Slots -> HoldRow]
        /\ now + HoldMinutes \in Nat
    BY NowIsNat DEF TypeOK, HoldMinutes
  <1>2. CASE slot'[s] = slot[s] /\ hold'[s] = hold[s]
    BY <1>2, PendingKeepsItsSlot DEF HeldBySomebody
  <1>3. CASE Opening
    <2>1. cancelling' = cancelling
      BY <1>3 DEF Opening, moneyVars, cancelVars
    <2>2. \/ slot'[s] = slot[s] /\ hold'[s] = hold[s]
          \/ \E k \in BookingKeys : Opened(k) /\ booking'[k].slot = s
      BY <1>3 DEF Opening, MayNormalise, OpenSlot
    <2>3. QED
      BY <1>2, <2>1, <2>2, OpenedClaims
  <1>4. ASSUME NEW c, Cancelling(c)
        PROVE  \/ hold'[s].owner # NoUser /\ hold'[s].until >= slot'[s].expires
               \/ \E k \in BookingKeys : Claims(k, s)'
    <2>1. cancelling' \subseteq cancelling /\ Decided(c)
      BY <1>4 DEF Cancelling
    <2>2. CASE s = c.row.slot /\ slot'[s] = OpenedSlot(s, c.slot) /\ hold'[s] = hold[s]
      <3>1. slot[s].status = "held"
        BY <2>1, <2>2, NotOvertaken
      <3>2. CASE \E k \in BookingKeys : Claims(k, s)
        BY <3>1, <3>2, PendingKeepsItsSlot
      <3>3. CASE hold[s].owner # NoUser /\ hold[s].until >= slot[s].expires
        <4>1. slot'[s].expires \in {0, slot[s].expires}
          BY <2>2 DEF OpenedSlot
        <4>2. hold[s].until \in Nat /\ slot[s].expires \in Nat
          BY <1>1 DEF HoldRow, SlotRow
        <4>3. QED
          BY <2>2, <3>3, <4>1, <4>2
      <3>4. QED
        BY <3>1, <3>2, <3>3 DEF HeldBySomebody
    <2>3. CASE slot'[s] = slot[s] /\ hold'[s] = hold[s]
      BY <1>2, <2>3
    <2>4. CASE \E k \in BookingKeys : Opened(k) /\ booking'[k].slot = s
      BY <2>1, <2>4, OpenedClaims
    <2>5. QED
      BY <1>4, <2>2, <2>3, <2>4 DEF Cancelling
  <1>5. CASE ReleaseExpiredHolds
    <2>1. slot'[s] = slot[s] /\ hold'[s] = hold[s]
      BY <1>1, <1>5 DEF ReleaseExpiredHolds, OpenSlot
    <2>2. QED
      BY <1>2, <2>1
  <1>6. ASSUME NEW c \in BookingKeys, Applying(c)
        PROVE  slot'[s] = slot[s] /\ hold'[s] = hold[s]
    BY <1>1, <1>6 DEF Applying, BookedSlot
  <1>7. ASSUME NEW u \in Users, NEW r \in Slots, HoldSlot(u, r)
        PROVE  \/ slot'[s] = slot[s] /\ hold'[s] = hold[s]
               \/ hold'[s].owner # NoUser /\ hold'[s].until >= slot'[s].expires
    BY <1>1, <1>7, AbsenceAssumption DEF HoldSlot, HeldSlot
  <1>8. ASSUME NEW u \in Users, NEW r \in Slots, ReleaseSlot(u, r)
        PROVE  slot'[s] = slot[s] /\ hold'[s] = hold[s]
    BY <1>1, <1>8 DEF ReleaseSlot, OpenSlot
  <1>9. ASSUME NEW first \in Slots, NEW last \in Slots, ListSlots(first, last)
        PROVE  slot'[s] = slot[s] /\ hold'[s] = hold[s]
    BY <1>1, <1>9 DEF ListSlots, Normalised, OpenSlot
  <1>10. CASE Reading
    BY <1>2, <1>10 DEF Reading
  <1>11. QED
    BY <1>2, <1>3, <1>4, <1>5, <1>6, <1>7, <1>8, <1>9, <1>10, StepKinds DEF Holding

\* A held slot is held by somebody in redis or by a booking that awaits payment.
THEOREM HeldSlotsHaveHolders == Spec => []HeldSlotHasHolder
  <1>1. Init => HeldBySomebody
    BY DEF Init, HeldBySomebody, OpenSlot
  <1>2. TypeOK /\ HeldBySomebody /\ [Next]_vars => HeldBySomebody'
    BY HeldStep
  <1>3. HeldBySomebody => HeldSlotHasHolder
    BY DEF HeldBySomebody, HeldSlotHasHolder, Claims
  <1>4. QED
    BY <1>1, <1>2, <1>3, TypeCorrect, PTL DEF Spec

(***************************************************************************)
(* What a step may do.                                                     *)
(***************************************************************************)

\* A cancellation that others have overtaken had begun in an earlier step.
LEMMA OvertakenEnds ==
    ASSUME TypeOK, NEW c, Cancelling(c), Overtaken(c)
    PROVE  c \in OvertakenOnes
  BY NotOvertaken DEF Cancelling, OvertakenOnes

LEMMA BookingStepOfEach ==
    ASSUME TypeOK, [Next]_vars, NEW k \in BookingKeys
    PROVE  BookingStep(k) \/ \E c \in OvertakenOnes : c.key = k
  <1>1. /\ booking \in [BookingKeys -> BookingRow] /\ slot \in [Slots -> SlotRow]
        /\ refunded \in [BookingKeys -> Nat] /\ payout \in [BookingKeys -> Nat]
        /\ booking[k].status # "absent" => booking[k].slot \in Slots
    BY DEF TypeOK
  <1>2. CASE Opening
    BY <1>2 DEF Opening, Opened, BookingStep
  <1>3. ASSUME NEW c, Cancelling(c)
        PROVE  BookingStep(k) \/ \E d \in OvertakenOnes : d.key = k
    <2>1. CASE c.key # k
      BY <1>3, <2>1 DEF Cancelling, Opened, BookingStep
    <2>2. CASE c.key = k /\ Overtaken(c)
      BY <1>3, <2>2, OvertakenEnds
    <2>3. CASE c.key = k /\ ~Overtaken(c)
      <3>1. /\ Decided(c) /\ booking'[k] = CancelledBooking(k, c.row, c.due)
            /\ refunded'[k] = refunded[k] + c.due
            /\ c.row = booking[k]
        BY <1>1, <1>3, <2>3 DEF Cancelling, Overtaken
      <3>2. /\ booking[k].slot \in Slots
            /\ slot'[booking[k].slot].status # "booked"
        <4>1. OpenedSlot(c.row.slot, c.slot).status = "open"
          BY <2>3, <3>1, NotOvertaken
        <4>2. booking[k].slot \in Slots
          BY <1>1, <2>3, <3>1 DEF Decided
        <4>3. QED
          BY <1>3, <3>1, <4>1, <4>2 DEF Cancelling
      <3>3. booking'[k].status = "cancelled"
        BY <2>3, <3>1, CancellationRevises
      <3>4. booking'[k].refund = IF c.due > 0 THEN "pending" ELSE "none"
        BY <1>1, <3>1 DEF CancelledBooking, BookingRow
      <3>5. c.due \in Nat /\ refunded[k] \in Nat
        BY <1>1, <3>1 DEF Decided
      <3>6. (booking'[k].refund = "pending") <=> (refunded'[k] > refunded[k])
        BY <3>1, <3>4, <3>5
      <3>7. QED
        BY <3>2, <3>3, <3>6 DEF BookingStep
    <2>4. QED
      BY <2>1, <2>2, <2>3
  <1>4. CASE ReleaseExpiredHolds
    <2>1. \/ booking'[k] = booking[k]
          \/ /\ booking[k].status = "pending"
             /\ booking'[k] = [booking[k] EXCEPT !.status = "cancelled"]
      BY <1>4 DEF ReleaseExpiredHolds
    <2>2. [booking[k] EXCEPT !.status = "cancelled"].status = "cancelled"
      BY <1>1 DEF BookingRow
    <2>3. QED
      BY <2>1, <2>2 DEF BookingStep
  <1>5. ASSUME NEW c \in BookingKeys, booking[c].slot \in Slots, Applying(c)
        PROVE  BookingStep(k)
    <2>1. CASE c # k
      BY <1>1, <1>5, <2>1 DEF Applying, BookingStep
    <2>2. CASE c = k
      BY <1>1, <1>5, <2>2 DEF Applying, BookingStep, BookingRow, BookedSlot
    <2>3. QED
      BY <2>1, <2>2
  <1>6. CASE UNCHANGED booking
    BY <1>6 DEF BookingStep
  <1>7. QED
    BY <1>2, <1>3, <1>4, <1>5, <1>6, StepKinds DEF Reading

\* A booking becomes confirmed together with its payment, its slot and what the
\* provider is owed, and stops being so only by a cancellation that opens its slot and
\* records what it gives back, or that others have overtaken.
THEOREM StatusSlotAndMoneyAgree == Spec => StatusMovesWithSlotAndMoney
  <1>1. TypeOK /\ [Next]_vars =>
            [\A k \in BookingKeys : BookingStep(k) \/ \E c \in OvertakenOnes : c.key = k]_vars
    BY BookingStepOfEach
  <1>2. QED
    BY <1>1, TypeCorrect, PTL DEF Spec, StatusMovesWithSlotAndMoney

\* k came into being in this step.
New(k) == booking[k].status = "absent" /\ booking'[k].status # "absent"

\* A row that Reserve inserts has its slot held for some time.
LEMMA ReserveHolds ==
    ASSUME TypeOK, NEW rows, NEW bookings, NEW slots, NEW seen \in [Slots -> SlotRow],
           NEW minutes \in Nat \ {0}, Fresh(rows), Revised(bookings),
           Reserve(rows, bookings, slots, seen, minutes), NEW k \in BookingKeys, New(k)
    PROVE  /\ k \in DOMAIN rows /\ booking'[k] = rows[k]
           /\ slot'[booking'[k].slot].status = "held"
           /\ slot'[booking'[k].slot].expires > now
  <1>1. k \in DOMAIN rows /\ booking'[k] = rows[k] /\ rows[k].slot \in Slots
    BY DEF Reserve, New, Revised, Fresh
  <1> DEFINE s == rows[k].slot
  <1>2. slot'[s] = HeldSlot(HoldExpiry(seen[s], minutes))
    BY <1>1 DEF Reserve
  <1>3. seen[s].expires \in Nat /\ now \in Nat
    BY <1>1, NowIsNat DEF SlotRow
  <1>4. HoldExpiry(seen[s], minutes) > now
    BY <1>3 DEF HoldExpiry
  <1>5. QED
    BY <1>1, <1>2, <1>4 DEF HeldSlot

\* What a request about slots asks for is not booked, and nobody else holds it.
LEMMA BookableSlot ==
    ASSUME TypeOK, NEW u \in Users, NEW s \in Slots, Bookable(u, s)
    PROVE  slot[s].status # "booked" /\ HoldOwner(s) \in {NoUser, u}
  BY DEF Bookable, Normalised, Lapsed

\* New bookings, as a request of a customer makes them.
Asked(k) ==
    LET s == booking'[k].slot IN
    /\ k[1] # "waitlist"
    /\ slot'[s].status = "held" /\ slot'[s].expires > now
    /\ slot[s].status # "booked"
    /\ HoldOwner(s) \in {NoUser, booking'[k].user}

LEMMA HoldingTimes == HoldMinutes \in Nat \ {0} /\ PromotionMinutes \in Nat \ {0}
  BY DEF HoldMinutes, PromotionMinutes

LEMMA CreatedAsAsked ==
    ASSUME TypeOK, NEW k \in BookingKeys, New(k),
           \/ \E u \in Users, s \in Slots, c \in ClientKeys, a \in Amounts : CreateBooking(u, s, c, a)
           \/ \E u \in Users, s \in Slots, n \in GroupSizes : CreateGroupBooking(u, s, n)
           \/ \E u \in Users, chain \in Recurrences : CreateRecurringBookings(u, chain)
    PROVE  Asked(k)
  <1>1. ASSUME NEW rows, NEW S, NEW u \in Users,
               Fresh(rows), Reserve(rows, booking, Normalised(S), Normalised(S), HoldMinutes),
               \A x \in DOMAIN rows : /\ x[1] # "waitlist" /\ rows[x].user = u
                                      /\ Bookable(u, rows[x].slot)
        PROVE  Asked(k)
    <2>1. Revised(booking) /\ Normalised(S) \in [Slots -> SlotRow]
      BY BookingIsRevised, NormalisedType
    <2>2. /\ k \in DOMAIN rows /\ booking'[k] = rows[k]
          /\ slot'[booking'[k].slot].status = "held"
          /\ slot'[booking'[k].slot].expires > now
      BY <1>1, <2>1, HoldingTimes, ReserveHolds
    <2>3. /\ k[1] # "waitlist"
          /\ rows[k].slot \in Slots /\ rows[k].user = u /\ Bookable(u, rows[k].slot)
      BY <1>1, <2>2 DEF Fresh
    <2>4. QED
      BY <2>2, <2>3, BookableSlot DEF Asked
  <1>2. ASSUME NEW u \in Users, NEW s \in Slots, NEW c \in ClientKeys, NEW a \in Amounts,
               CreateBooking(u, s, c, a)
        PROVE  Asked(k)
    <2> DEFINE rows == [x \in {ClientKey(c)} |-> NewBooking(u, s, a)]
    <2>1. /\ Fresh(rows) /\ Bookable(u, s)
          /\ Reserve(rows, booking, Normalised({s}), Normalised({s}), HoldMinutes)
      BY <1>2, CreateRows DEF CreateBooking
    <2>2. \A x \in DOMAIN rows : x[1] # "waitlist" /\ rows[x].user = u /\ rows[x].slot = s
      BY PriceAssumption, NewBookingRow DEF ClientKey
    <2> HIDE DEF rows
    <2>3. QED
      BY <1>1, <2>1, <2>2
  <1>3. ASSUME NEW u \in Users, NEW s \in Slots, NEW n \in GroupSizes,
               CreateGroupBooking(u, s, n)
        PROVE  Asked(k)
    <2> DEFINE rows == [x \in Unused({GroupKey(u, s, n)}) |->
                            NewBooking(u, s, BasePrice + GroupSurcharge(n))]
    <2>1. /\ Fresh(rows) /\ Bookable(u, s)
          /\ Reserve(rows, booking, Normalised({s}), Normalised({s}), HoldMinutes)
      BY <1>3, CreateRows DEF CreateGroupBooking
    <2>2. BasePrice + GroupSurcharge(n) \in Nat
      BY PriceAssumption, GroupAssumption DEF GroupSurcharge
    <2>3. \A x \in DOMAIN rows : x[1] # "waitlist" /\ rows[x].user = u /\ rows[x].slot = s
      BY <2>2, NewBookingRow DEF Unused, GroupKey
    <2> HIDE DEF rows
    <2>4. QED
      BY <1>1, <2>1, <2>3
  <1>4. ASSUME NEW u \in Users, NEW chain \in Recurrences, CreateRecurringBookings(u, chain)
        PROVE  Asked(k)
    <2> DEFINE keys == {RecurringKey(u, chain[i], i - 1) : i \in DOMAIN chain}
               chosen == {chain[i] : i \in DOMAIN chain}
               rows == [x \in Unused(keys) |-> NewBooking(u, x[3], BasePrice)]
    <2>1. /\ Fresh(rows)
          /\ Reserve(rows, booking, Normalised(chosen), Normalised(chosen), HoldMinutes)
          /\ \A s \in chosen : Bookable(u, s)
      BY <1>4, CreateRows DEF CreateRecurringBookings
    <2>2. ASSUME NEW x \in keys
          PROVE  x[1] # "waitlist" /\ x[3] \in chosen /\ x[3] \in Slots
      <3>1. PICK i \in DOMAIN chain : x = RecurringKey(u, chain[i], i - 1)
        OBVIOUS
      <3>2. /\ chain \in Seq(Slots) /\ chain[i] \in Slots
            /\ x[1] # "waitlist" /\ x[3] = chain[i]
        BY <3>1, RecurrenceAssumption DEF RecurringKey
      <3>3. QED
        BY <3>2
    <2>3. ASSUME NEW x \in DOMAIN rows
          PROVE  x[1] # "waitlist" /\ rows[x].user = u /\ rows[x].slot \in chosen
      <3>1. x \in keys /\ rows[x] = NewBooking(u, x[3], BasePrice)
        BY DEF Unused
      <3> HIDE DEF rows, keys, chosen
      <3>2. QED
        BY <2>2, <3>1, NewBookingRow, PriceAssumption
    <2> HIDE DEF rows, keys, chosen
    <2>4. QED
      BY <1>1, <2>1, <2>3
  <1>5. QED
    BY <1>2, <1>3, <1>4

\* The entries a promotion serves, what it makes of them and what they get: a booking
\* of the slot, held for them, or the one they have had of it.
Serves(plan, released) ==
    /\ IsPromotion(plan, released)
    /\ plan \in [released -> Entries \cup {NoEntry}]
    /\ \A k \in BookingKeys : New(k) =>
          LET s == booking'[k].slot IN
          /\ s \in released /\ plan[s] \in Entries /\ k = WaitlistKey(plan[s], s)
          /\ slot'[s].status = "held" /\ slot'[s].expires > now
    /\ \A s \in released :
          plan[s] \in Entries /\ booking[WaitlistKey(plan[s], s)].status = "absent" =>
              slot'[s].status = "held"

LEMMA PromotionServes ==
    ASSUME TypeOK, NEW released, released \subseteq Slots, NEW bookings, NEW slots,
           NEW seen \in [Slots -> SlotRow], Revised(bookings),
           Promote(released, bookings, slots, seen)
    PROVE  \E plan : Serves(plan, released)
  <1>1. PICK plan \in [released -> Entries \cup {NoEntry}] :
          LET served == {s \in released : plan[s] # NoEntry}
              keys == {WaitlistKey(plan[s], s) : s \in served}
          IN  /\ IsPromotion(plan, released)
              /\ Reserve([k \in Unused(keys) |-> NewBooking(entry[k[2]].user, k[3], BasePrice)],
                         bookings, slots, seen, PromotionMinutes)
    BY DEF Promote
  <1> DEFINE served == {s \in released : plan[s] # NoEntry}
             keys == {WaitlistKey(plan[s], s) : s \in served}
             rows == [k \in Unused(keys) |-> NewBooking(entry[k[2]].user, k[3], BasePrice)]
  <1>2. ASSUME NEW k \in Unused(keys)
        PROVE  /\ k \in Unused(BookingKeys)
               /\ rows[k] = NewBooking(entry[k[2]].user, k[3], BasePrice)
               /\ rows[k] \in BookingRow
               /\ rows[k].slot = k[3] /\ k[3] \in served /\ k[3] \in Slots
               /\ rows[k].status = "pending" /\ rows[k].payment = "pending"
               /\ plan[k[3]] \in Entries /\ k = WaitlistKey(plan[k[3]], k[3])
    <2>1. PICK s \in served : k = WaitlistKey(plan[s], s)
      BY DEF Unused
    <2>2. k[2] = plan[s] /\ k[3] = s /\ s \in Slots /\ plan[s] \in Entries
      BY <2>1 DEF WaitlistKey
    <2>3. k \in Unused(BookingKeys)
      BY <2>1, <2>2, KeysAreBookingKeys DEF Unused
    <2>4. rows[k] = NewBooking(entry[k[2]].user, k[3], BasePrice)
      OBVIOUS
    <2>5. rows[k] = NewBooking(entry[plan[s]].user, s, BasePrice)
      BY <2>2, <2>4
    <2> HIDE DEF rows, keys
    <2>6. /\ rows[k] \in BookingRow
          /\ rows[k].slot = s
          /\ rows[k].status = "pending" /\ rows[k].payment = "pending"
      BY <2>2, <2>5, PromotedRow
    <2>7. QED
      BY <2>1, <2>2, <2>3, <2>4, <2>6
  <1>3. DOMAIN rows = Unused(keys) /\ Fresh(rows)
    BY <1>2 DEF Fresh
  <1>4. /\ Reserve(rows, bookings, slots, seen, PromotionMinutes)
        /\ IsPromotion(plan, released)
    BY <1>1
  <1>5. ASSUME NEW k \in BookingKeys, New(k)
        PROVE  LET s == booking'[k].slot IN
               /\ s \in released /\ plan[s] \in Entries /\ k = WaitlistKey(plan[s], s)
               /\ slot'[s].status = "held" /\ slot'[s].expires > now
    <2> HIDE DEF rows, keys
    <2>1. /\ k \in DOMAIN rows /\ booking'[k] = rows[k]
          /\ slot'[booking'[k].slot].status = "held"
          /\ slot'[booking'[k].slot].expires > now
      BY <1>3, <1>4, <1>5, HoldingTimes, ReserveHolds
    <2>2. QED
      BY <1>2, <1>3, <2>1
  <1>6. ASSUME NEW s \in released, plan[s] \in Entries,
               booking[WaitlistKey(plan[s], s)].status = "absent"
        PROVE  slot'[s].status = "held"
    <2> DEFINE k == WaitlistKey(plan[s], s)
    <2>1. s \in served
      BY <1>6, WaitlistAssumption
    <2>2. k \in Unused(keys)
      BY <1>6, <2>1 DEF Unused
    <2>3. k[3] = s
      BY DEF WaitlistKey
    <2> HIDE DEF rows, keys, served, k
    <2>4. k \in DOMAIN rows /\ rows[k].slot = s
      BY <1>2, <1>3, <2>2, <2>3
    <2>5. slot'[s] = HeldSlot(HoldExpiry(seen[s], PromotionMinutes))
      BY <1>4, <2>4 DEF Reserve
    <2>6. QED
      BY <2>5 DEF HeldSlot
  <1>7. QED
    BY <1>4, <1>5, <1>6 DEF Serves

\* A step that brings a booking about is a request for it, a run of the promotion
\* task, or a cancellation.
Promoting ==
    \E plan : Serves(plan, {s \in Slots : slot[s].status = "open"})

Handing(c) ==
    /\ Cancelling(c) /\ c.row.slot \in Slots
    /\ \E plan : Serves(plan, {c.row.slot})

LEMMA PromotingActions ==
    ASSUME TypeOK
    PROVE  /\ PromoteWaitlist => Promoting
           /\ \A c : Cancels(c) /\ Cancelling(c) => Handing(c)
  <1>1. ASSUME PromoteWaitlist PROVE Promoting
    <2>1. slot \in [Slots -> SlotRow] /\ Revised(booking)
      BY BookingIsRevised DEF TypeOK
    <2>2. QED
      BY <1>1, <2>1, PromotionServes DEF PromoteWaitlist, Promoting
  <1>2. ASSUME NEW c, Cancels(c), Cancelling(c) PROVE Handing(c)
    <2> DEFINE bookings == [booking EXCEPT ![c.key] = CancelledBooking(c.key, c.row, c.due)]
               slots == [slot EXCEPT ![c.row.slot] = OpenedSlot(c.row.slot, c.slot)]
               seen == [slot EXCEPT ![c.row.slot] = OpenSlot]
    <2>1. Decided(c) /\ Promote({c.row.slot}, bookings, slots, seen)
      BY <1>2 DEF Cancels, WriteCancellation
    <2>2. c.row.slot \in Slots /\ seen \in [Slots -> SlotRow]
      BY <2>1, CancellationSlots
    <2>3. Revised(bookings)
      BY <2>1, CancellationRevises
    <2>4. \E plan : Serves(plan, {c.row.slot})
      <3> HIDE DEF bookings, slots, seen
      <3>1. {c.row.slot} \subseteq Slots
        BY <2>2
      <3>2. QED
        BY <2>1, <2>2, <2>3, <3>1, PromotionServes
    <2>5. QED
      BY <1>2, <2>2, <2>4 DEF Handing
  <1>3. QED
    BY <1>1, <1>2

\* Every other step brings no booking about.
LEMMA NewBookings ==
    ASSUME TypeOK, [Next]_vars, NEW k \in BookingKeys, New(k)
    PROVE  \/ Asked(k)
           \/ Promoting
           \/ \E c : Handing(c)
  <1>1. CASE \/ \E u \in Users, s \in Slots, c \in ClientKeys, a \in Amounts : CreateBooking(u, s, c, a)
             \/ \E u \in Users, s \in Slots, n \in GroupSizes : CreateGroupBooking(u, s, n)
             \/ \E u \in Users, chain \in Recurrences : CreateRecurringBookings(u, chain)
    BY <1>1, CreatedAsAsked
  <1>2. CASE \/ PromoteWaitlist
             \/ \E c \in BookingKeys : CancelBooking(c)
             \/ \E c \in cancelling : FinishCancel(c)
    BY <1>2, CancelAction, PromotingActions
  <1>3. CASE ReleaseExpiredHolds
    BY <1>3 DEF ReleaseExpiredHolds, New
  <1>4. CASE \E v \in verifying : VerifyApply(v)
    <2>1. PICK v \in verifying : VerifyApply(v)
      BY <1>4
    <2> DEFINE b == tx[v.tx].booking
    <2>2. /\ b \in BookingKeys /\ booking[b].status # "absent"
          /\ Applying(b) \/ UNCHANGED booking
      BY <2>1, ApplyAction
    <2>3. QED
      BY <2>2 DEF Applying, New, TypeOK
  <1>5. CASE Holding
    BY <1>5 DEF Holding, HoldSlot, ReleaseSlot, ListSlots, New
  <1>6. CASE Tick \/ UNCHANGED vars
    BY <1>6 DEF Tick, inventoryVars, vars, New
  <1>7. CASE \/ \E u \in Users, e \in Entries, W \in Windows : JoinWaitlist(u, e, W)
             \/ \E e \in Entries, W \in Windows, st \in {"active", "inactive"} : UpdateEntry(e, W, st)
             \/ \E e \in Entries : WithdrawEntry(e)
    BY <1>7 DEF JoinWaitlist, UpdateEntry, WithdrawEntry, inventoryVars, New
  <1>8. CASE \/ \E x \in Cancellers, c \in BookingKeys : StartCancel(x, c)
             \/ \E c \in cancelling : AbandonCancel(c)
             \/ \E c \in BookingKeys, t \in Txs, via \in Vias : Checkout(c, t, via)
             \/ \E c \in BookingKeys, t \in Txs, via \in Vias : InitiatePayment(c, t, via)
             \/ \E t \in Txs : CustomerActs(t)
             \/ \E r \in Requests, t \in Txs, key \in WebhookKeys \cup {NoWebhookKey} : VerifyFetch(r, t, key)
             \/ \E v \in verifying : VerifyCrash(v)
    BY <1>8 DEF StartCancel, AbandonCancel, Checkout, InitiatePayment, StartTransaction, CustomerActs,
                VerifyFetch, VerifyCrash, inventoryVars, New
  <1>9. QED
    BY <1>1, <1>2, <1>3, <1>4, <1>5, <1>6, <1>7, <1>8 DEF Next, Holding

\* A booking takes no slot that is booked, but the one of a booking that is cancelled
\* or that an overtaken cancellation was about, has some time left to be paid, and unless it comes from the waitlist takes no slot
\* that another customer holds.
THEOREM NewBookingsHaveTheirSlots == Spec => FreshBookingHasItsSlot
  <1> DEFINE Placed(k) ==
        booking[k].status = "absent" /\ booking'[k].status # "absent" =>
            LET s == booking'[k].slot
            IN  /\ slot'[s].status = "held" /\ slot'[s].expires > now
                /\ \/ slot[s].status # "booked"
                   \/ \E c \in BookingKeys : /\ booking[c].slot = s /\ Live(c)
                                             /\ booking'[c].status = "cancelled"
                   \/ \E c \in OvertakenOnes : c.row.slot = s
                /\ k[1] # "waitlist" => HoldOwner(s) \in {NoUser, booking'[k].user}
  <1>1. ASSUME MoneyInv, [Next]_vars, NEW k \in BookingKeys, New(k)
        PROVE  Placed(k)
    <2>0. TypeOK
      BY <1>1 DEF MoneyInv
    <2>1. CASE Asked(k)
      BY <2>1 DEF Asked
    <2>2. ASSUME NEW plan, NEW released, Serves(plan, released)
          PROVE  LET s == booking'[k].slot IN
                 /\ s \in released /\ k[1] = "waitlist"
                 /\ slot'[s].status = "held" /\ slot'[s].expires > now
      BY <1>1, <2>2 DEF Serves, WaitlistKey
    <2>3. CASE Promoting
      BY <2>2, <2>3 DEF Promoting
    <2>4. ASSUME NEW c, Handing(c)
          PROVE  Placed(k)
      <3>1. Decided(c) /\ booking'[c.key] = CancelledBooking(c.key, c.row, c.due)
        BY <2>4 DEF Handing, Cancelling
      <3>2. /\ c.key \in BookingKeys /\ booking[c.key].slot = c.row.slot
            /\ booking'[c.key].status = "cancelled"
        BY <2>0, <3>1, CancellationRevises DEF Decided
      <3>3. Live(c.key) \/ c \in OvertakenOnes
        <4>1. c.row.status \in {"pending", "confirmed"} /\ Cancelling(c)
          BY <1>1, <2>4, CancellingFits DEF Fits, Handing
        <4>2. QED
          BY <4>1 DEF Cancelling, ReadNow, OvertakenOnes, Overtaken, Live
      <3>4. booking'[k].slot = c.row.slot /\ k[1] = "waitlist"
        BY <2>2, <2>4 DEF Handing
      <3>5. slot'[booking'[k].slot].status = "held" /\ slot'[booking'[k].slot].expires > now
        BY <2>2, <2>4 DEF Handing
      <3>6. QED
        BY <3>2, <3>3, <3>4, <3>5
    <2>5. QED
      BY <1>1, <2>0, <2>1, <2>3, <2>4, NewBookings
  <1>2. MoneyInv /\ [Next]_vars => [\A k \in BookingKeys : Placed(k)]_vars
    BY <1>1 DEF New
  <1>3. QED
    BY <1>2, MoneyInvariant, PTL DEF Spec, FreshBookingHasItsSlot

\* One plan serves an entry once.
LEMMA ServedOnce ==
    ASSUME TypeOK, [Next]_vars, NEW e \in Entries, NEW r \in Slots, NEW s \in Slots,
           New(WaitlistKey(e, r)), New(WaitlistKey(e, s))
    PROVE  r = s
  <1>1. /\ WaitlistKey(e, r) \in BookingKeys /\ WaitlistKey(e, s) \in BookingKeys
        /\ r \in Nat /\ s \in Nat
    BY KeysAreBookingKeys, SlotsAssumption
  <1>2. ASSUME NEW plan, NEW released, Serves(plan, released)
        PROVE  r = s
    <2>1. ASSUME NEW q \in Slots, WaitlistKey(e, q) \in BookingKeys, New(WaitlistKey(e, q))
          PROVE  q \in released /\ plan[q] = e
      BY <1>2, <2>1 DEF Serves, WaitlistKey
    <2>2. r \in released /\ plan[r] = e /\ s \in released /\ plan[s] = e
      BY <1>1, <2>1
    <2>3. ASSUME NEW q \in released, NEW p \in released, plan[q] = e, plan[p] = e
          PROVE  ~(q < p)
      <3>1. LET left == {x \in Waiting(p) : \A t \in released : t < p => plan[t] # x}
            IN  left = {plan[p]} \/ (left = {} /\ plan[p] = NoEntry)
        BY <1>2 DEF Serves, IsPromotion
      <3>2. e # NoEntry
        BY WaitlistAssumption
      <3>3. QED
        BY <2>3, <3>1, <3>2
    <2>4. QED
      BY <1>1, <2>2, <2>3
  <1>3. ~Asked(WaitlistKey(e, r))
    BY DEF Asked, WaitlistKey
  <1>4. QED
    BY <1>1, <1>2, <1>3, NewBookings DEF Promoting, Handing

\* Of the slots that one step offers to the waitlist an entry gets at most one.
THEOREM EntriesAreServedOnce == Spec => EntryServedOnce
  <1> DEFINE Once == \A e \in Entries, r, s \in Slots :
                        LET fresh(q) == /\ booking[WaitlistKey(e, q)].status = "absent"
                                        /\ booking'[WaitlistKey(e, q)].status # "absent"
                        IN  fresh(r) /\ fresh(s) => r = s
  <1>1. TypeOK /\ [Next]_vars => [Once]_vars
    BY ServedOnce DEF New
  <1>2. QED
    BY <1>1, TypeCorrect, PTL DEF Spec, EntryServedOnce

\* Only a cancellation opens a booked slot.
LEMMA OnlyCancellationOpens ==
    ASSUME TypeOK, [Next]_vars, NEW s \in Slots,
           slot[s].status = "booked", slot'[s].status = "open"
    PROVE  \E c : Handing(c) /\ c.row.slot = s
  <1>1. slot \in [Slots -> SlotRow]
    BY DEF TypeOK
  <1>2. ~Opening
    BY DEF Opening, MayNormalise
  <1>3. ~ReleaseExpiredHolds
    BY <1>1 DEF ReleaseExpiredHolds
  <1>4. ~\E v \in verifying : VerifyApply(v)
    BY <1>1 DEF VerifyApply, BookedSlot
  <1>5. ~Holding
    BY <1>1 DEF Holding, HoldSlot, ReleaseSlot, ListSlots, Normalised, Lapsed, HeldSlot
  <1>6. ~Reading
    BY DEF Reading
  <1>7. PICK c : Cancels(c) /\ Cancelling(c)
    BY <1>2, <1>3, <1>4, <1>5, <1>6, StepSources
  <1>8. Handing(c)
    BY <1>7, PromotingActions
  <1>9. QED
    BY <1>8 DEF Handing, Cancelling

\* An entry that waits for a slot which is opened and stays open has had it.
LEMMA NobodyIsPassedOver ==
    ASSUME TypeOK, NEW s \in Slots, NEW plan, Serves(plan, {s}),
           slot'[s].status = "open", NEW e \in Waiting(s)
    PROVE  booking[WaitlistKey(e, s)].status # "absent"
  <1>1. LET left == {x \in Waiting(s) : \A t \in {s} : t < s => plan[t] # x}
        IN  left = {plan[s]} \/ (left = {} /\ plan[s] = NoEntry)
    BY DEF Serves, IsPromotion
  <1>2. ~(s < s)
    BY SlotsAssumption
  <1>3. plan[s] = e
    BY <1>1, <1>2
  <1>4. e \in Entries
    BY DEF Waiting
  <1>5. QED
    BY <1>3, <1>4 DEF Serves

\* A booked slot that becomes open again goes past nobody who waits for it and has not
\* had it: whoever waited before the step has been given a booking of this slot before.
THEOREM WaitlistComesFirst == Spec => WaitlistFirst
  <1> DEFINE Offered ==
        \A s \in Slots : slot[s].status = "booked" /\ slot'[s].status = "open" =>
            \A e \in Waiting(s) : booking[WaitlistKey(e, s)].status # "absent"
  <1>1. ASSUME TypeOK, [Next]_vars, NEW s \in Slots,
               slot[s].status = "booked", slot'[s].status = "open",
               NEW e \in Waiting(s)
        PROVE  booking[WaitlistKey(e, s)].status # "absent"
    <2>1. PICK c : Handing(c) /\ c.row.slot = s
      BY <1>1, OnlyCancellationOpens
    <2>2. PICK plan : Serves(plan, {s})
      BY <2>1 DEF Handing
    <2>3. QED
      BY <1>1, <2>2, NobodyIsPassedOver
  <1>2. TypeOK /\ [Next]_vars => [Offered]_vars
    BY <1>1
  <1>3. QED
    BY <1>2, TypeCorrect, PTL DEF Spec, WaitlistFirst

\* The promotion inside a cancellation fails exactly when several entries wait for the
\* slot: a cancellation is possible if at most one does.
THEOREM BlockedBySeveralOnly ==
    ASSUME TypeOK, NEW k \in BookingKeys, Live(k)
    PROVE  LET released == {booking[k].slot}
           IN  (\E plan \in [released -> Entries \cup {NoEntry}] : IsPromotion(plan, released))
               <=> \A d, e \in Waiting(booking[k].slot) : d = e
  <1> DEFINE s == booking[k].slot
             released == {s}
  <1>1. s \in Slots
    BY DEF TypeOK, Live
  <1> HIDE DEF s
  <1>2. ~(s < s)
    BY <1>1, SlotsAssumption
  <1>3. ASSUME NEW plan
        PROVE  IsPromotion(plan, released)
               <=> Waiting(s) = {plan[s]} \/ (Waiting(s) = {} /\ plan[s] = NoEntry)
    <2>1. {e \in Waiting(s) : \A r \in released : r < s => plan[r] # e} = Waiting(s)
      BY <1>2
    <2>2. QED
      BY <2>1 DEF IsPromotion
  <1>4. ASSUME \A d, e \in Waiting(s) : d = e
        PROVE  \E plan \in [released -> Entries \cup {NoEntry}] : IsPromotion(plan, released)
    <2>1. CASE Waiting(s) = {}
      <3>1. [x \in released |-> NoEntry] \in [released -> Entries \cup {NoEntry}]
        OBVIOUS
      <3>2. IsPromotion([x \in released |-> NoEntry], released)
        BY <1>3, <2>1
      <3>3. QED
        BY <3>1, <3>2
    <2>2. ASSUME NEW e \in Waiting(s)
          PROVE  \E plan \in [released -> Entries \cup {NoEntry}] : IsPromotion(plan, released)
      <3>1. Waiting(s) = {e} /\ e \in Entries
        BY <1>4, <2>2 DEF Waiting
      <3>2. [x \in released |-> e] \in [released -> Entries \cup {NoEntry}]
        BY <3>1
      <3>3. [x \in released |-> e][s] = e
        OBVIOUS
      <3>4. IsPromotion([x \in released |-> e], released)
        BY <1>3, <3>1, <3>3
      <3>5. QED
        BY <3>2, <3>4
    <2>3. QED
      BY <2>1, <2>2
  <1>5. ASSUME NEW plan, IsPromotion(plan, released)
        PROVE  \A d, e \in Waiting(s) : d = e
    BY <1>3, <1>5
  <1>6. QED
    BY <1>4, <1>5 DEF s

(***************************************************************************)
(* Captured money.  What makes ConfirmedOnlyIfCaptured inductive is that a *)
(* verification in flight says "completed" only of a charge the provider   *)
(* has or is believed to have, that such a charge stays, and that a        *)
(* cancellation in flight refunds only what was captured.                  *)
(***************************************************************************)

\* The provider has the money of t, or has given its word for it.
Good(t) == charge[t] = "paid" \/ (tx[t].via = "return" /\ t \in believed)

Captured(k) == \E t \in Txs : tx[t].booking = k /\ Good(t)

CompletedIsPaid ==
    /\ \A t \in Txs : charge[t] # "absent" \/ t \in believed => tx[t].status # "absent"
    /\ \A v \in verifying : v.result = "completed" => Good(v.tx)

CaptureInv ==
    /\ TypeOK /\ CompletedIsPaid /\ ConfirmedOnlyIfCaptured
    /\ \A c \in cancelling : c.due > 0 => Captured(c.key)

\* The steps of the payment provider and of its client.
Paying ==
    \/ \E k \in BookingKeys, t \in Txs, via \in Vias : Checkout(k, t, via)
    \/ \E k \in BookingKeys, t \in Txs, via \in Vias : InitiatePayment(k, t, via)
    \/ \E t \in Txs : CustomerActs(t)
    \/ \E r \in Requests, t \in Txs, key \in WebhookKeys \cup {NoWebhookKey} : VerifyFetch(r, t, key)

\* Every other step leaves transactions and charges alone and starts no verification.
LEMMA OtherSteps ==
    ASSUME [Next]_vars
    PROVE  Paying \/ (UNCHANGED <<tx, charge, believed>> /\ verifying' \subseteq verifying)
  <1>1. CASE \/ \E u \in Users, s \in Slots, k \in ClientKeys, a \in Amounts : CreateBooking(u, s, k, a)
             \/ \E u \in Users, s \in Slots, n \in GroupSizes : CreateGroupBooking(u, s, n)
             \/ \E u \in Users, chain \in Recurrences : CreateRecurringBookings(u, chain)
             \/ PromoteWaitlist
             \/ \E k \in BookingKeys : CancelBooking(k)
             \/ \E x \in Cancellers, k \in BookingKeys : StartCancel(x, k)
             \/ \E c \in cancelling : FinishCancel(c)
             \/ \E c \in cancelling : AbandonCancel(c)
             \/ ReleaseExpiredHolds
    BY <1>1 DEF CreateBooking, CreateGroupBooking, CreateRecurringBookings, PromoteWaitlist,
                CancelBooking, StartCancel, FinishCancel, WriteCancellation, AbandonCancel,
                ReleaseExpiredHolds, paymentVars
  <1>2. CASE \/ Tick
             \/ \E u \in Users, s \in Slots : HoldSlot(u, s)
             \/ \E u \in Users, s \in Slots : ReleaseSlot(u, s)
             \/ \E first, last \in Slots : ListSlots(first, last)
             \/ UNCHANGED vars
    BY <1>2 DEF Tick, HoldSlot, ReleaseSlot, ListSlots, paymentVars, vars
  <1>3. CASE \/ \E u \in Users, e \in Entries, W \in Windows : JoinWaitlist(u, e, W)
             \/ \E e \in Entries, W \in Windows, st \in {"active", "inactive"} : UpdateEntry(e, W, st)
             \/ \E e \in Entries : WithdrawEntry(e)
    BY <1>3 DEF JoinWaitlist, UpdateEntry, WithdrawEntry, paymentVars
  <1>4. CASE \/ \E v \in verifying : VerifyApply(v)
             \/ \E v \in verifying : VerifyCrash(v)
    BY <1>4 DEF VerifyApply, VerifyCrash
  <1>5. QED
    BY <1>1, <1>2, <1>3, <1>4 DEF Next, Paying

\* A charge that is paid, or believed to be, stays so, and stays with its booking.
LEMMA ChargesStay ==
    ASSUME TypeOK, CompletedIsPaid, [Next]_vars
    PROVE  /\ \A t \in Txs : Good(t) => Good(t)' /\ tx'[t].booking = tx[t].booking
           /\ CompletedIsPaid'
  <1>1. /\ tx \in [Txs -> TxRow]
        /\ charge \in [Txs -> {"absent", "open", "approved", "paid", "dead"}]
        /\ \A v \in verifying : v.tx \in Txs /\ tx[v.tx].status # "absent"
    BY DEF TypeOK, Verification
  <1>2. ASSUME NEW k \in BookingKeys, NEW t \in Txs, NEW via \in Vias,
               StartTransaction(k, t, via)
        PROVE  /\ \A x \in Txs : Good(x) => Good(x)' /\ tx'[x].booking = tx[x].booking
               /\ CompletedIsPaid'
    <2>1. /\ tx[t].status = "absent"
          /\ tx' = [tx EXCEPT ![t] = [status |-> "initiated", booking |-> k, via |-> via]]
          /\ charge' = [charge EXCEPT ![t] = "open"]
          /\ UNCHANGED <<believed, verifying>>
      BY <1>2 DEF StartTransaction
    <2>2. charge[t] = "absent" /\ t \notin believed
      BY <2>1 DEF CompletedIsPaid
    <2>3. \A x \in Txs \ {t} : tx'[x] = tx[x] /\ charge'[x] = charge[x]
      BY <1>1, <2>1
    <2>4. tx'[t].status = "initiated"
      BY <1>1, <2>1
    <2>5. \A x \in Txs : Good(x) => Good(x)' /\ tx'[x].booking = tx[x].booking
      BY <2>1, <2>2, <2>3 DEF Good
    <2>6. \A v \in verifying : v.tx # t
      BY <1>1, <2>1
    <2>7. QED
      BY <1>1, <2>1, <2>3, <2>4, <2>5, <2>6 DEF CompletedIsPaid
  <1>3. ASSUME NEW t \in Txs, CustomerActs(t)
        PROVE  /\ \A x \in Txs : Good(x) => Good(x)' /\ tx'[x].booking = tx[x].booking
               /\ CompletedIsPaid'
    <2>1. /\ \A x \in Txs : charge[x] = "paid" => charge'[x] = "paid"
          /\ \A x \in Txs : charge'[x] # "absent" => charge[x] # "absent"
          /\ UNCHANGED <<tx, believed, verifying>>
      BY <1>1, <1>3 DEF CustomerActs
    <2>2. \A x \in Txs : Good(x) => Good(x)'
      BY <2>1 DEF Good
    <2>3. QED
      BY <1>1, <2>1, <2>2 DEF CompletedIsPaid
  <1>4. ASSUME NEW r \in Requests, NEW t \in Txs, NEW key \in WebhookKeys \cup {NoWebhookKey},
               VerifyFetch(r, t, key)
        PROVE  /\ \A x \in Txs : Good(x) => Good(x)' /\ tx'[x].booking = tx[x].booking
               /\ CompletedIsPaid'
    <2>1. PICK result \in {"completed", "failed", "pending", "cancelled"} :
              /\ IF tx[t].via = "execute"
                 THEN /\ charge[t] = "approved" /\ result \in {"completed", "failed"}
                      /\ charge' = [charge EXCEPT ![t] =
                                       IF result = "completed" THEN "paid" ELSE "dead"]
                 ELSE result \in LookupResults(t) /\ charge' = charge
              /\ believed' = IF result = "completed" /\ charge'[t] # "paid"
                             THEN believed \cup {t}
                             ELSE believed
              /\ verifying' = verifying \cup
                     {[request |-> r, tx |-> t, key |-> key, result |-> result]}
      BY <1>4 DEF VerifyFetch
    <2>2. tx[t].status # "absent" /\ tx' = tx
      BY <1>4 DEF VerifyFetch
    <2>3. /\ \A x \in Txs : charge[x] = "paid" => charge'[x] = "paid"
          /\ \A x \in Txs : charge'[x] # "absent" => charge[x] # "absent"
      BY <1>1, <2>1
    <2>4. believed \subseteq believed' /\ believed' \subseteq believed \cup {t}
      BY <2>1
    <2>5. \A x \in Txs : Good(x) => Good(x)'
      BY <2>2, <2>3, <2>4 DEF Good
    <2>6. result = "completed" => Good(t)'
      <3>1. CASE tx[t].via = "execute"
        BY <1>1, <2>1, <3>1 DEF Good
      <3>2. CASE tx[t].via = "return"
        BY <2>1, <2>2, <3>2 DEF Good
      <3>3. CASE tx[t].via \notin {"execute", "return"}
        BY <1>1, <2>1, <3>3 DEF Good, LookupResults
      <3>4. QED
        BY <3>1, <3>2, <3>3
    <2>7. \A x \in Txs : charge'[x] # "absent" \/ x \in believed' => tx'[x].status # "absent"
      BY <2>2, <2>3, <2>4 DEF CompletedIsPaid
    <2>8. \A v \in verifying' : v.result = "completed" => Good(v.tx)'
      BY <1>1, <2>1, <2>5, <2>6 DEF CompletedIsPaid
    <2>9. QED
      BY <2>2, <2>5, <2>7, <2>8 DEF CompletedIsPaid
  <1>5. CASE UNCHANGED <<tx, charge, believed>> /\ verifying' \subseteq verifying
    BY <1>5 DEF CompletedIsPaid, Good
  <1>6. QED
    BY <1>2, <1>3, <1>4, <1>5, OtherSteps DEF Paying, Checkout, InitiatePayment

\* A booking the step newly counts as confirmed, paid or paid out is the
\* booking of a completed verification.
LEMMA CaptureStep == CaptureInv /\ [Next]_vars => CaptureInv'
  <1> SUFFICES ASSUME CaptureInv, [Next]_vars PROVE CaptureInv'
    OBVIOUS
  <1> DEFINE Accounted(k) == \/ booking[k].status = "confirmed"
                           \/ booking[k].payment \in {"completed", "refunded"}
                           \/ payout[k] > 0
  <1>1. /\ TypeOK /\ CompletedIsPaid /\ ConfirmedOnlyIfCaptured
        /\ \A c \in cancelling : c.due > 0 => Captured(c.key)
    BY DEF CaptureInv
  <1>2. /\ booking \in [BookingKeys -> BookingRow]
        /\ payout \in [BookingKeys -> Nat]
    BY <1>1 DEF TypeOK
  <1>3. ASSUME NEW k \in BookingKeys, Accounted(k)'
        PROVE  \/ Accounted(k)
               \/ Captured(k)
               \/ \E v \in verifying : v.result = "completed" /\ v.tx \in Txs /\ tx[v.tx].booking = k
    <2>1. CASE Opening
      BY <1>3, <2>1 DEF Opening, Opened, moneyVars
    <2>2. ASSUME NEW c, Cancelling(c)
          PROVE  Accounted(k) \/ Captured(k)
      <3>1. CASE c.key = k
        <4>1. /\ Decided(c) /\ booking'[k] = CancelledBooking(k, c.row, c.due) /\ payout' = payout
              /\ ReadNow(c) \/ c \in cancelling
          BY <2>2, <3>1 DEF Cancelling
        <4>2. CASE c.due > 0
          BY <1>1, <3>1, <4>1, <4>2 DEF ReadNow, RefundDue
        <4>3. CASE ~(c.due > 0)
          <5>1. booking'[k].payment = booking[k].payment /\ booking'[k].status = "cancelled"
            BY <1>1, <3>1, <4>1, <4>3, CancellationRevises
          <5>2. QED
            BY <1>3, <4>1, <5>1
        <4>4. QED
          BY <4>2, <4>3
      <3>2. CASE c.key # k
        BY <1>3, <2>2, <3>2 DEF Cancelling, Opened
      <3>3. QED
        BY <3>1, <3>2
    <2>3. CASE ReleaseExpiredHolds
      <3>1. \/ booking'[k] = booking[k]
            \/ booking'[k] = [booking[k] EXCEPT !.status = "cancelled"]
        BY <2>3 DEF ReleaseExpiredHolds
      <3>2. /\ [booking[k] EXCEPT !.status = "cancelled"].payment = booking[k].payment
            /\ [booking[k] EXCEPT !.status = "cancelled"].status = "cancelled"
        BY <1>2 DEF BookingRow
      <3>3. payout' = payout
        BY <2>3 DEF ReleaseExpiredHolds, moneyVars
      <3>4. QED
        BY <1>3, <3>1, <3>2, <3>3
    <2>4. ASSUME NEW v \in verifying, VerifyApply(v)
          PROVE  Accounted(k) \/ (v.result = "completed" /\ v.tx \in Txs /\ tx[v.tx].booking = k)
      <3>1. v.tx \in Txs /\ tx[v.tx].booking \in BookingKeys
        BY <1>1, <2>4, ApplyAction
      <3>2. CASE v.result = "completed"
        BY <1>2, <1>3, <2>4, <3>1, <3>2 DEF VerifyApply, Settled
      <3>3. CASE v.result # "completed"
        <4>1. /\ payout' = payout
              /\ booking' \in {booking, [booking EXCEPT ![tx[v.tx].booking].payment = "failed"]}
          BY <2>4, <3>3 DEF VerifyApply, Settled
        <4>2. /\ booking'[k].status = booking[k].status
              /\ booking'[k].payment \in {booking[k].payment, "failed"}
          BY <1>2, <4>1 DEF BookingRow
        <4>3. QED
          BY <1>3, <4>1, <4>2
      <3>4. QED
        BY <3>2, <3>3
    <2>5. CASE UNCHANGED <<booking, moneyVars>> \/ Reading
      BY <1>3, <2>5 DEF moneyVars, Reading
    <2>6. QED
      BY <1>1, <2>1, <2>2, <2>3, <2>4, <2>5, StepSources
  <1>4. ASSUME NEW k \in BookingKeys, Accounted(k) PROVE Captured(k)
    BY <1>1, <1>4 DEF ConfirmedOnlyIfCaptured, Captured, Good
  <1>5. ASSUME NEW k, Captured(k) PROVE Captured(k)'
    BY <1>1, <1>5, ChargesStay DEF Captured
  <1>6. ASSUME NEW k \in BookingKeys, Accounted(k)'
        PROVE  Captured(k)'
    <2>1. Captured(k)
      BY <1>1, <1>3, <1>4, <1>6 DEF CompletedIsPaid, Captured
    <2>2. QED
      BY <1>5, <2>1
  <1>7. ConfirmedOnlyIfCaptured'
    BY <1>6 DEF ConfirmedOnlyIfCaptured, Captured, Good
  <1>8. ASSUME NEW c \in cancelling', c.due > 0 PROVE Captured(c.key)'
    <2>1. CASE c \in cancelling
      BY <1>1, <1>5, <1>8, <2>1
    <2>2. CASE c \notin cancelling
      <3>1. c.key \in BookingKeys /\ ReadNow(c)
        BY <1>1, <2>2, CrossedStay DEF Reading
      <3>2. booking[c.key].payment = "completed"
        BY <1>8, <3>1 DEF ReadNow, RefundDue
      <3>3. QED
        BY <1>4, <1>5, <3>1, <3>2
    <2>3. QED
      BY <2>1, <2>2
  <1>9. QED
    BY <1>1, <1>7, <1>8, ChargesStay, TypesPreserved DEF CaptureInv

\* A booking counts as confirmed or paid only if a payment of it was captured, or if
\* eSewa or Stripe was understood to say so.
THEOREM ConfirmedMeansCaptured == Spec => []ConfirmedOnlyIfCaptured
  <1>1. Init => CaptureInv
    BY InitTypes DEF Init, CaptureInv, CompletedIsPaid, ConfirmedOnlyIfCaptured, AbsentBooking
  <1>2. CaptureInv /\ [Next]_vars => CaptureInv'
    BY CaptureStep
  <1>3. CaptureInv => ConfirmedOnlyIfCaptured
    BY DEF CaptureInv
  <1>4. QED
    BY <1>1, <1>2, <1>3, PTL DEF Spec

=============================================================================
