----------------------- MODULE BookingLifecycleProofs -----------------------
(***************************************************************************)
(* Theorems of BookingLifecycle for every set of users, slots, keys,       *)
(* waitlist entries, transactions and requests.                            *)
(***************************************************************************)
EXTENDS BookingLifecycle, TLAPS

(***************************************************************************)
(* The refund policy.                                                      *)
(***************************************************************************)

\* A refund is at most what the booking cost, whenever it is cancelled.
LEMMA RefundBounds ==
    ASSUME NEW amount \in Nat, NEW startsAt \in Nat, NEW cancelledAt \in Nat
    PROVE  RefundAmount(amount, startsAt, cancelledAt) \in 0 .. amount
  BY DEF RefundAmount, HalfRoundedUp, FullRefundLead, HalfRefundLead

\* Who cancels later gets no more back: calculate_refund_amount has no gap and no step
\* up between its three cases, whatever the price and the start of the slot.
THEOREM LaterRefundsAreSmaller ==
    ASSUME NEW amount \in Nat, NEW startsAt \in Int,
           NEW early \in Int, NEW late \in Int, early <= late
    PROVE  RefundAmount(amount, startsAt, late) <= RefundAmount(amount, startsAt, early)
  BY DEF RefundAmount, HalfRoundedUp, FullRefundLead, HalfRefundLead

(***************************************************************************)
(* Rows and keys.                                                          *)
(***************************************************************************)

\* Every key a handler builds is a key of the booking table.
LEMMA KeysAreBookingKeys ==
    /\ \A k \in ClientKeys : ClientKey(k) \in BookingKeys
    /\ \A u \in Users, s \in Slots, n \in GroupSizes : GroupKey(u, s, n) \in BookingKeys
    /\ \A u \in Users, chain \in Recurrences, i \in Nat :
          i \in DOMAIN chain => RecurringKey(u, chain[i], i - 1) \in BookingKeys
    /\ \A e \in Entries, s \in Slots : WaitlistKey(e, s) \in BookingKeys
  BY DEF BookingKeys

\* The row a handler inserts is a pending booking of the slot.
LEMMA NewBookingRow ==
    ASSUME NEW u \in Users \cup {NoUser}, NEW s \in Slots, NEW a \in Nat
    PROVE  /\ NewBooking(u, s, a) \in BookingRow
           /\ NewBooking(u, s, a).status = "pending"
           /\ NewBooking(u, s, a).payment = "pending"
           /\ NewBooking(u, s, a).user = u
           /\ NewBooking(u, s, a).slot = s
           /\ NewBooking(u, s, a).amount = a
  BY DEF NewBooking, AbsentBooking, BookingRow

\* The row a promotion inserts is one of them.
LEMMA PromotedRow ==
    ASSUME TypeOK, NEW e \in Entries, NEW s \in Slots
    PROVE  /\ NewBooking(entry[e].user, s, BasePrice) \in BookingRow
           /\ NewBooking(entry[e].user, s, BasePrice).status = "pending"
           /\ NewBooking(entry[e].user, s, BasePrice).payment = "pending"
           /\ NewBooking(entry[e].user, s, BasePrice).slot = s
  <1> DEFINE u == entry[e].user
  <1>1. u \in Users \cup {NoUser} /\ BasePrice \in Nat
    BY PriceAssumption DEF TypeOK, EntryRow
  <1> HIDE DEF u
  <1>2. /\ NewBooking(u, s, BasePrice) \in BookingRow
        /\ NewBooking(u, s, BasePrice).status = "pending"
        /\ NewBooking(u, s, BasePrice).payment = "pending"
        /\ NewBooking(u, s, BasePrice).slot = s
    BY <1>1, NewBookingRow
  <1>3. QED
    BY <1>2 DEF u

\* The slot rows the handlers write.
LEMMA SlotRows ==
    /\ OpenSlot \in SlotRow /\ BookedSlot \in SlotRow
    /\ \A until \in Nat : HeldSlot(until) \in SlotRow
  BY DEF OpenSlot, BookedSlot, HeldSlot, SlotRow

LEMMA NowIsNat == TypeOK => now \in Nat
  BY ClockAssumption DEF TypeOK

\* Normalising the lapsed holds of S changes no type.
LEMMA NormalisedType == TypeOK => \A S : Normalised(S) \in [Slots -> SlotRow]
  BY SlotRows DEF TypeOK, Normalised

\* A set of rows is fit for insertion when each is a pending booking of a slot
\* under a key nothing has been booked under.
Fresh(rows) ==
    /\ DOMAIN rows \subseteq Unused(BookingKeys)
    /\ \A k \in DOMAIN rows :
          /\ rows[k] \in BookingRow
          /\ rows[k].slot \in Slots
          /\ rows[k].status = "pending"
          /\ rows[k].payment = "pending"

\* What the handlers have done to the booking table before they insert: no row
\* appears or disappears, and rows keep their slot.
Revised(bookings) ==
    /\ bookings \in [BookingKeys -> BookingRow]
    /\ \A k \in BookingKeys :
          /\ bookings[k].slot = booking[k].slot
          /\ bookings[k].amount = booking[k].amount
          /\ bookings[k].status = "absent" <=> booking[k].status = "absent"

\* A step after which every row that was there is, with its slot and its price.
Kept ==
    \A k \in BookingKeys : booking[k].status # "absent" =>
        /\ booking'[k].status # "absent"
        /\ booking'[k].slot = booking[k].slot
        /\ booking'[k].amount = booking[k].amount

\* The part of TypeOK that Reserve can disturb.
LEMMA ReserveTypes ==
    ASSUME TypeOK,
           NEW rows, NEW bookings, NEW slots \in [Slots -> SlotRow],
           NEW seen \in [Slots -> SlotRow], NEW minutes \in Nat,
           Fresh(rows), Revised(bookings),
           Reserve(rows, bookings, slots, seen, minutes)
    PROVE  /\ slot' \in [Slots -> SlotRow]
           /\ hold' \in [Slots -> HoldRow]
           /\ booking' \in [BookingKeys -> BookingRow]
           /\ \A k \in BookingKeys : booking'[k].status # "absent" => booking'[k].slot \in Slots
           /\ Kept
  <1>1. slot' \in [Slots -> SlotRow]
    <2>1. ASSUME NEW s \in Slots PROVE HoldExpiry(seen[s], minutes) \in Nat
      BY NowIsNat DEF HoldExpiry, SlotRow
    <2>2. QED
      BY <2>1, SlotRows DEF Reserve
  <1>2. hold' \in [Slots -> HoldRow]
    BY DEF TypeOK, Reserve, HoldRow, NoHold
  <1>3. booking' \in [BookingKeys -> BookingRow]
    BY DEF Reserve, Fresh, Revised
  <1>4. \A k \in BookingKeys : booking'[k].status # "absent" => booking'[k].slot \in Slots
    BY DEF TypeOK, Reserve, Fresh, Revised
  <1>5. Kept
    BY DEF Reserve, Fresh, Revised, Unused, Kept
  <1>6. QED
    BY <1>1, <1>2, <1>3, <1>4, <1>5

(***************************************************************************)
(* Type correctness, one lemma per family of actions.                      *)
(***************************************************************************)

\* What remains of TypeOK when an action touches only the inventory and the waitlist.
LEMMA InventoryStepTypes ==
    ASSUME TypeOK,
           now' \in Instants,
           slot' \in [Slots -> SlotRow],
           hold' \in [Slots -> HoldRow],
           booking' \in [BookingKeys -> BookingRow],
           entry' \in [Entries -> EntryRow],
           refunded' \in [BookingKeys -> Nat],
           \A k \in BookingKeys : booking'[k].status # "absent" => booking'[k].slot \in Slots,
           Kept,
           cancelling' \subseteq cancelling,
           crossed' \subseteq BookingKeys,
           UNCHANGED <<paymentVars, payout>>
    PROVE  TypeOK'
  <1>1. \A c \in cancelling' : /\ c \in Cancellation
                              /\ booking'[c.key].status # "absent"
                              /\ c.row.slot = booking'[c.key].slot
                              /\ c.row.amount = booking'[c.key].amount
    BY DEF TypeOK, Kept, Cancellation
  <1>2. \A t \in Txs : tx[t].status # "absent" =>
           tx[t].booking \in BookingKeys /\ booking'[tx[t].booking].status # "absent"
    BY DEF TypeOK, Kept
  <1>3. UNCHANGED <<tx, charge, believed, verifying, webhookKeys, webhooks, payout>>
    BY DEF paymentVars
  <1>4. QED
    BY <1>1, <1>2, <1>3 DEF TypeOK

LEMMA HoldTypes ==
    ASSUME TypeOK, NEW u \in Users, NEW s \in Slots, HoldSlot(u, s) \/ ReleaseSlot(u, s)
    PROVE  TypeOK'
  <1>1. now + HoldMinutes \in Nat
    BY NowIsNat DEF HoldMinutes
  <1>2. slot' \in [Slots -> SlotRow]
    BY <1>1, SlotRows DEF TypeOK, HoldSlot, ReleaseSlot
  <1>3. hold' \in [Slots -> HoldRow]
    <2>1. /\ NoHold \in HoldRow
          /\ [owner |-> u, until |-> now + HoldMinutes] \in HoldRow
      BY <1>1 DEF HoldRow, NoHold
    <2>2. hold \in [Slots -> HoldRow]
      BY DEF TypeOK
    <2>3. QED
      BY <2>1, <2>2 DEF HoldSlot, ReleaseSlot
  <1>4. UNCHANGED <<now, booking, entry, paymentVars, moneyVars>>
    BY DEF HoldSlot, ReleaseSlot
  <1>5. QED
    BY <1>2, <1>3, <1>4, InventoryStepTypes DEF TypeOK, moneyVars, cancelVars, Kept

LEMMA ListTypes ==
    ASSUME TypeOK, NEW first \in Slots, NEW last \in Slots, ListSlots(first, last)
    PROVE  TypeOK'
  <1>1. slot' \in [Slots -> SlotRow]
    BY NormalisedType DEF ListSlots
  <1>2. UNCHANGED <<now, hold, booking, entry, paymentVars, moneyVars>>
    BY DEF ListSlots
  <1>3. QED
    BY <1>1, <1>2, InventoryStepTypes DEF TypeOK, moneyVars, cancelVars, Kept

\* The current table is a revision of itself.
LEMMA BookingIsRevised == TypeOK => Revised(booking)
  BY DEF TypeOK, Revised

\* Each way of creating bookings inserts fresh rows into the unchanged table.
LEMMA CreateRows ==
    ASSUME TypeOK
    PROVE  /\ \A u \in Users, s \in Slots, k \in ClientKeys, a \in Amounts :
                 CreateBooking(u, s, k, a) =>
                     Fresh([x \in {ClientKey(k)} |-> NewBooking(u, s, a)])
           /\ \A u \in Users, s \in Slots, n \in GroupSizes :
                 Fresh([k \in Unused({GroupKey(u, s, n)}) |->
                            NewBooking(u, s, BasePrice + GroupSurcharge(n))])
           /\ \A u \in Users, chain \in Recurrences :
                 Fresh([k \in Unused({RecurringKey(u, chain[i], i - 1) : i \in DOMAIN chain}) |->
                            NewBooking(u, k[3], BasePrice)])
  <1>1. ASSUME NEW u \in Users, NEW s \in Slots, NEW k \in ClientKeys, NEW a \in Amounts,
               CreateBooking(u, s, k, a)
        PROVE  Fresh([x \in {ClientKey(k)} |-> NewBooking(u, s, a)])
    BY <1>1, KeysAreBookingKeys, NewBookingRow, PriceAssumption
    DEF CreateBooking, Fresh, Unused
  <1>2. ASSUME NEW u \in Users, NEW s \in Slots, NEW n \in GroupSizes
        PROVE  Fresh([k \in Unused({GroupKey(u, s, n)}) |->
                          NewBooking(u, s, BasePrice + GroupSurcharge(n))])
    <2>1. BasePrice + GroupSurcharge(n) \in Nat
      BY PriceAssumption, GroupAssumption DEF GroupSurcharge
    <2>2. QED
      BY <2>1, KeysAreBookingKeys, NewBookingRow DEF Fresh, Unused
  <1>3. ASSUME NEW u \in Users, NEW chain \in Recurrences
        PROVE  Fresh([k \in Unused({RecurringKey(u, chain[i], i - 1) : i \in DOMAIN chain}) |->
                          NewBooking(u, k[3], BasePrice)])
    <2>1. ASSUME NEW i \in DOMAIN chain
          PROVE  /\ RecurringKey(u, chain[i], i - 1) \in BookingKeys
                 /\ RecurringKey(u, chain[i], i - 1)[3] \in Slots
      <3>1. chain \in Seq(Slots) /\ i \in Nat /\ chain[i] \in Slots
        BY RecurrenceAssumption
      <3>2. QED
        BY <3>1, KeysAreBookingKeys DEF RecurringKey
    <2>2. QED
      BY <2>1, NewBookingRow, PriceAssumption DEF Fresh, Unused
  <1>4. QED
    BY <1>1, <1>2, <1>3

LEMMA CreateTypes ==
    ASSUME TypeOK,
           \/ \E u \in Users, s \in Slots, k \in ClientKeys, a \in Amounts : CreateBooking(u, s, k, a)
           \/ \E u \in Users, s \in Slots, n \in GroupSizes : CreateGroupBooking(u, s, n)
           \/ \E u \in Users, chain \in Recurrences : CreateRecurringBookings(u, chain)
    PROVE  TypeOK'
  <1>1. PICK rows, S : /\ Fresh(rows)
                       /\ Reserve(rows, booking, Normalised(S), Normalised(S), HoldMinutes)
    BY CreateRows DEF CreateBooking, CreateGroupBooking, CreateRecurringBookings
  <1>2. UNCHANGED <<now, entry, paymentVars, moneyVars>>
    BY DEF CreateBooking, CreateGroupBooking, CreateRecurringBookings
  <1>3. HoldMinutes \in Nat
    BY DEF HoldMinutes
  <1>4. QED
    BY <1>1, <1>2, <1>3, BookingIsRevised, NormalisedType, ReserveTypes, InventoryStepTypes
    DEF TypeOK, moneyVars, cancelVars

LEMMA WaitlistTypes ==
    ASSUME TypeOK,
           \/ \E u \in Users, e \in Entries, W \in Windows : JoinWaitlist(u, e, W)
           \/ \E e \in Entries, W \in Windows, st \in {"active", "inactive"} : UpdateEntry(e, W, st)
           \/ \E e \in Entries : WithdrawEntry(e)
    PROVE  TypeOK'
  <1>1. entry' \in [Entries -> EntryRow]
    <2>1. entry \in [Entries -> EntryRow] /\ Windows \subseteq SUBSET Slots
      BY WaitlistAssumption DEF TypeOK
    <2>2. ASSUME NEW u \in Users, NEW e \in Entries, NEW W \in Windows, JoinWaitlist(u, e, W)
          PROVE  entry' \in [Entries -> EntryRow]
      BY <2>1, <2>2 DEF JoinWaitlist, EntryRow
    <2>3. ASSUME NEW e \in Entries, NEW W \in Windows, NEW st \in {"active", "inactive"},
                 UpdateEntry(e, W, st)
          PROVE  entry' \in [Entries -> EntryRow]
      BY <2>1, <2>3 DEF UpdateEntry, EntryRow
    <2>4. ASSUME NEW e \in Entries, WithdrawEntry(e)
          PROVE  entry' \in [Entries -> EntryRow]
      BY <2>1, <2>4 DEF WithdrawEntry, EntryRow
    <2>5. QED
      BY <2>2, <2>3, <2>4
  <1>2. UNCHANGED <<now, inventoryVars, paymentVars, moneyVars>>
    BY DEF JoinWaitlist, UpdateEntry, WithdrawEntry
  <1>3. QED
    BY <1>1, <1>2, InventoryStepTypes DEF TypeOK, inventoryVars, moneyVars, cancelVars, Kept

\* The promotion of waitlist entries inserts fresh rows and deactivates entries.
LEMMA PromotionRows ==
    ASSUME TypeOK, NEW released, released \subseteq Slots, NEW bookings, NEW slots, NEW seen,
           Promote(released, bookings, slots, seen)
    PROVE  /\ \E rows : Fresh(rows) /\ Reserve(rows, bookings, slots, seen, PromotionMinutes)
           /\ entry' \in [Entries -> EntryRow]
  <1>1. PICK plan \in [released -> Entries \cup {NoEntry}] :
          LET served == {s \in released : plan[s] # NoEntry}
              keys == {WaitlistKey(plan[s], s) : s \in served}
          IN  /\ Reserve([k \in Unused(keys) |-> NewBooking(entry[k[2]].user, k[3], BasePrice)],
                         bookings, slots, seen, PromotionMinutes)
              /\ entry' = [e \in Entries |->
                             IF \E s \in served : plan[s] = e
                             THEN [entry[e] EXCEPT !.status = "inactive"]
                             ELSE entry[e]]
    BY DEF Promote
  <1> DEFINE served == {s \in released : plan[s] # NoEntry}
             keys == {WaitlistKey(plan[s], s) : s \in served}
             rows == [k \in Unused(keys) |-> NewBooking(entry[k[2]].user, k[3], BasePrice)]
  <1>2. Fresh(rows)
    <2>1. ASSUME NEW s \in served
          PROVE  /\ WaitlistKey(plan[s], s) \in BookingKeys
                 /\ WaitlistKey(plan[s], s)[2] \in Entries
                 /\ WaitlistKey(plan[s], s)[3] \in Slots
      <3>1. plan[s] \in Entries /\ s \in Slots
        OBVIOUS
      <3>2. QED
        BY <3>1, KeysAreBookingKeys DEF WaitlistKey
    <2>2. ASSUME NEW k \in keys
          PROVE  k \in BookingKeys /\ k[2] \in Entries /\ k[3] \in Slots
      BY <2>1
    <2>3. ASSUME NEW k \in Unused(keys)
          PROVE  /\ rows[k] \in BookingRow
                 /\ rows[k].slot \in Slots
                 /\ rows[k].status = "pending"
                 /\ rows[k].payment = "pending"
      <3>1. rows[k] = NewBooking(entry[k[2]].user, k[3], BasePrice)
        OBVIOUS
      <3>2. k[2] \in Entries /\ k[3] \in Slots
        BY <2>2 DEF Unused
      <3> HIDE DEF rows, keys, served
      <3>3. QED
        BY <3>1, <3>2, PromotedRow
    <2>4. DOMAIN rows = Unused(keys) /\ Unused(keys) \subseteq Unused(BookingKeys)
      BY <2>2 DEF Unused
    <2>5. QED
      BY <2>3, <2>4 DEF Fresh
  <1>3. entry' \in [Entries -> EntryRow]
    <2>1. entry \in [Entries -> EntryRow]
      BY DEF TypeOK
    <2>2. \A e \in Entries : [entry[e] EXCEPT !.status = "inactive"] \in EntryRow
      BY <2>1 DEF EntryRow
    <2>3. QED
      BY <1>1, <2>1, <2>2
  <1>4. QED
    BY <1>1, <1>2, <1>3

\* What a cancellation decides on: a row that has the slot and the price its booking
\* still has, a row of the slot, and the refund.
Decided(c) ==
    /\ c.key \in BookingKeys /\ booking[c.key].status # "absent"
    /\ c.row \in BookingRow
    /\ c.row.slot = booking[c.key].slot /\ c.row.amount = booking[c.key].amount
    /\ c.slot \in SlotRow
    /\ c.due \in Nat

\* What a cancellation reads, it can decide on, and the refund is at most the price.
LEMMA ReadsAreDecided ==
    ASSUME TypeOK, NEW x, NEW k \in BookingKeys, Live(k)
    PROVE  /\ Decided(ReadBy(x, k))
           /\ ReadBy(x, k).key = k /\ ReadBy(x, k).row = booking[k]
           /\ ReadBy(x, k).slot = slot[booking[k].slot]
           /\ ReadBy(x, k).due = RefundDue(k) /\ RefundDue(k) \in 0 .. booking[k].amount
  <1>1. booking[k] \in BookingRow /\ booking[k].slot \in Slots /\ booking[k].status # "absent"
    BY DEF TypeOK, Live
  <1>2. booking[k].amount \in Nat /\ StartsAt[booking[k].slot] \in Nat /\ now \in Nat
    BY <1>1, SlotsAssumption, NowIsNat DEF BookingRow
  <1>3. RefundDue(k) \in 0 .. booking[k].amount
    <2>1. RefundAmount(booking[k].amount, StartsAt[booking[k].slot], now) \in 0 .. booking[k].amount
      BY <1>2, RefundBounds
    <2>2. 0 \in 0 .. booking[k].amount
      BY <1>2
    <2>3. QED
      BY <2>1, <2>2 DEF RefundDue
  <1>4. /\ ReadBy(x, k).key = k /\ ReadBy(x, k).row = booking[k]
        /\ ReadBy(x, k).slot = slot[booking[k].slot] /\ ReadBy(x, k).due = RefundDue(k)
    BY DEF ReadBy
  <1>5. slot[booking[k].slot] \in SlotRow /\ RefundDue(k) \in Nat
    BY <1>1, <1>2, <1>3 DEF TypeOK
  <1>6. QED
    BY <1>1, <1>3, <1>4, <1>5 DEF Decided

LEMMA InFlightAreDecided == TypeOK => \A c \in cancelling : Decided(c)
  BY DEF TypeOK, Cancellation, Decided

\* What a cancellation does to the booking before anybody is promoted.
LEMMA CancellationRevises ==
    ASSUME TypeOK, NEW c, Decided(c)
    PROVE  LET row == CancelledBooking(c.key, c.row, c.due)
           IN  /\ row \in BookingRow
               /\ row.status = "cancelled"
               /\ row.slot = booking[c.key].slot
               /\ row.amount = booking[c.key].amount
               /\ row.payment \in {booking[c.key].payment, "refunded"}
               /\ row.payment # booking[c.key].payment => c.due > 0
               /\ Revised([booking EXCEPT ![c.key] = row])
  <1> DEFINE row == CancelledBooking(c.key, c.row, c.due)
  <1>1. c.key \in BookingKeys /\ booking[c.key] \in BookingRow /\ booking[c.key].status # "absent"
    BY DEF TypeOK, Decided
  <1>2. /\ row \in BookingRow
        /\ row.status = "cancelled"
        /\ row.slot = booking[c.key].slot
        /\ row.amount = booking[c.key].amount
        /\ row.payment \in {booking[c.key].payment, "refunded"}
        /\ row.payment # booking[c.key].payment => c.due > 0
    BY <1>1 DEF CancelledBooking, BookingRow
  <1> HIDE DEF row
  <1>3. Revised([booking EXCEPT ![c.key] = row])
    BY <1>1, <1>2 DEF TypeOK, Revised
  <1>4. QED
    BY <1>2, <1>3 DEF row

\* What a cancellation does to its slot, in the table and in the eyes of its session.
LEMMA CancellationSlots ==
    ASSUME TypeOK, NEW c, Decided(c)
    PROVE  /\ c.row.slot \in Slots
           /\ OpenedSlot(c.row.slot, c.slot) \in SlotRow
           /\ [slot EXCEPT ![c.row.slot] = OpenedSlot(c.row.slot, c.slot)] \in [Slots -> SlotRow]
           /\ [slot EXCEPT ![c.row.slot] = OpenSlot] \in [Slots -> SlotRow]
  <1>1. c.row.slot \in Slots /\ slot \in [Slots -> SlotRow]
    BY DEF TypeOK, Decided
  <1>2. OpenedSlot(c.row.slot, c.slot) \in SlotRow
    BY <1>1 DEF OpenedSlot, SlotRow
  <1>3. QED
    BY <1>1, <1>2, SlotRows

\* Both ways of cancelling write what they have decided on.
Cancels(c) == Decided(c) /\ WriteCancellation(c) /\ cancelling' \subseteq cancelling

LEMMA CancelActions ==
    ASSUME TypeOK
    PROVE  /\ \A k \in BookingKeys : CancelBooking(k) => Live(k) /\ Cancels(ReadBy(NoUser, k))
           /\ \A c \in cancelling : FinishCancel(c) => Cancels(c)
  BY ReadsAreDecided, InFlightAreDecided DEF CancelBooking, FinishCancel, Cancels

LEMMA CancelTypes ==
    ASSUME TypeOK, NEW c, Cancels(c)
    PROVE  TypeOK'
  <1> DEFINE bookings == [booking EXCEPT ![c.key] = CancelledBooking(c.key, c.row, c.due)]
             slots == [slot EXCEPT ![c.row.slot] = OpenedSlot(c.row.slot, c.slot)]
             seen == [slot EXCEPT ![c.row.slot] = OpenSlot]
  <1>1. /\ Decided(c)
        /\ Promote({c.row.slot}, bookings, slots, seen)
        /\ refunded' = [refunded EXCEPT ![c.key] = @ + c.due]
        /\ crossed' = IF Overtaken(c) THEN crossed \cup {c.key} ELSE crossed
        /\ cancelling' \subseteq cancelling
        /\ UNCHANGED <<now, paymentVars, payout>>
    BY DEF Cancels, WriteCancellation
  <1>2. c.row.slot \in Slots /\ slots \in [Slots -> SlotRow] /\ seen \in [Slots -> SlotRow]
    BY <1>1, CancellationSlots
  <1>3. Revised(bookings)
    BY <1>1, CancellationRevises
  <1>4. refunded' \in [BookingKeys -> Nat] /\ crossed' \subseteq BookingKeys
    BY <1>1 DEF TypeOK, Decided
  <1> HIDE DEF bookings, slots, seen
  <1>5. /\ \E rows : Fresh(rows) /\ Reserve(rows, bookings, slots, seen, PromotionMinutes)
        /\ entry' \in [Entries -> EntryRow]
    BY <1>1, <1>2, PromotionRows
  <1>6. PromotionMinutes \in Nat
    BY DEF PromotionMinutes
  <1>7. QED
    BY <1>1, <1>2, <1>3, <1>4, <1>5, <1>6, ReserveTypes, InventoryStepTypes DEF TypeOK

\* A cancellation reads, or is given up.
LEMMA CancelReadTypes ==
    ASSUME TypeOK,
           \/ \E x \in Cancellers, k \in BookingKeys : StartCancel(x, k)
           \/ \E c \in cancelling : AbandonCancel(c)
    PROVE  TypeOK'
  <1>1. ASSUME NEW x \in Cancellers, NEW k \in BookingKeys, StartCancel(x, k)
        PROVE  TypeOK'
    <2>1. Live(k) /\ cancelling' = cancelling \cup {ReadBy(x, k)}
      BY <1>1 DEF StartCancel
    <2>2. /\ ReadBy(x, k) \in Cancellation
          /\ booking[ReadBy(x, k).key].status # "absent"
          /\ ReadBy(x, k).row.slot = booking[ReadBy(x, k).key].slot
          /\ ReadBy(x, k).row.amount = booking[ReadBy(x, k).key].amount
      <3>1. Decided(ReadBy(x, k)) /\ RefundDue(k) \in Nat
        BY <2>1, ReadsAreDecided DEF Decided
      <3>2. ReadBy(x, k).by = x
        BY DEF ReadBy
      <3>3. booking[k] \in BookingRow /\ slot[booking[k].slot] \in SlotRow
        BY <2>1 DEF TypeOK, Live
      <3>4. ReadBy(x, k) \in Cancellation
        BY <3>1, <3>3 DEF ReadBy, Cancellation
      <3>5. QED
        BY <3>1, <3>4 DEF Decided
    <2>3. UNCHANGED <<now, inventoryVars, entry, paymentVars, payout, refunded, crossed>>
      BY <1>1 DEF StartCancel
    <2> HIDE DEF ReadBy
    <2>4. QED
      BY <2>1, <2>2, <2>3 DEF TypeOK, inventoryVars, paymentVars
  <1>2. ASSUME NEW c \in cancelling, AbandonCancel(c)
        PROVE  TypeOK'
    BY <1>2 DEF TypeOK, AbandonCancel, inventoryVars, paymentVars
  <1>3. QED
    BY <1>1, <1>2

LEMMA TaskTypes ==
    ASSUME TypeOK, ReleaseExpiredHolds \/ PromoteWaitlist
    PROVE  TypeOK'
  <1>1. CASE ReleaseExpiredHolds
    <2>1. slot' \in [Slots -> SlotRow]
      BY <1>1, SlotRows DEF TypeOK, ReleaseExpiredHolds
    <2>2. booking \in [BookingKeys -> BookingRow]
      BY DEF TypeOK
    <2>3. \A k \in BookingKeys : [booking[k] EXCEPT !.status = "cancelled"] \in BookingRow
      BY <2>2 DEF BookingRow
    <2>4. booking' \in [BookingKeys -> BookingRow]
      BY <1>1, <2>2, <2>3 DEF ReleaseExpiredHolds
    <2>5. ASSUME NEW k \in BookingKeys
          PROVE  /\ booking'[k].slot = booking[k].slot
                 /\ booking'[k].amount = booking[k].amount
                 /\ booking'[k].status = "absent" <=> booking[k].status = "absent"
      BY <1>1, <2>2 DEF ReleaseExpiredHolds, BookingRow
    <2>6. UNCHANGED <<now, hold, entry, paymentVars, moneyVars>>
      BY <1>1 DEF ReleaseExpiredHolds
    <2>7. \A k \in BookingKeys : booking'[k].status # "absent" => booking'[k].slot \in Slots
      BY <2>5 DEF TypeOK
    <2>8. QED
      BY <2>1, <2>4, <2>5, <2>6, <2>7, InventoryStepTypes DEF TypeOK, moneyVars, cancelVars, Kept
  <1>2. CASE PromoteWaitlist
    <2>1. UNCHANGED <<now, paymentVars, moneyVars>>
      BY <1>2 DEF PromoteWaitlist
    <2>2. /\ \E rows : Fresh(rows) /\ Reserve(rows, booking, slot, slot, PromotionMinutes)
          /\ entry' \in [Entries -> EntryRow]
      BY <1>2, PromotionRows DEF PromoteWaitlist
    <2>3. PromotionMinutes \in Nat
      BY DEF PromotionMinutes
    <2>4. slot \in [Slots -> SlotRow] /\ Revised(booking)
      BY BookingIsRevised DEF TypeOK
    <2>5. QED
      BY <2>1, <2>2, <2>3, <2>4, ReserveTypes, InventoryStepTypes
      DEF TypeOK, moneyVars, cancelVars
  <1>3. QED
    BY <1>1, <1>2

LEMMA StartTypes ==
    ASSUME TypeOK, NEW k \in BookingKeys, NEW t \in Txs, NEW via \in Vias,
           Checkout(k, t, via) \/ InitiatePayment(k, t, via)
    PROVE  TypeOK'
  <1>1. booking[k].status # "absent" /\ StartTransaction(k, t, via)
    BY DEF Checkout, InitiatePayment, Live
  <1>2. tx' \in [Txs -> TxRow]
    BY <1>1, ViaAssumption DEF TypeOK, StartTransaction, TxRow
  <1>3. charge' \in [Txs -> {"absent", "open", "approved", "paid", "dead"}]
    BY <1>1 DEF TypeOK, StartTransaction
  <1>4. UNCHANGED <<now, inventoryVars, entry, believed, verifying, webhookKeys, webhooks, moneyVars>>
    BY <1>1 DEF StartTransaction
  <1>5. \A x \in Txs : tx'[x].status # "absent" =>
            tx'[x].booking \in BookingKeys /\ booking[tx'[x].booking].status # "absent"
    BY <1>1 DEF TypeOK, StartTransaction
  <1>6. \A v \in verifying : tx'[v.tx].status # "absent"
    <2>1. \A v \in verifying : v.tx \in Txs /\ tx[v.tx].status # "absent"
      BY DEF TypeOK, Verification
    <2>2. QED
      BY <1>1, <2>1 DEF TypeOK, StartTransaction
  <1>7. QED
    BY <1>2, <1>3, <1>4, <1>5, <1>6 DEF TypeOK, inventoryVars, moneyVars, cancelVars

LEMMA CustomerTypes ==
    ASSUME TypeOK, NEW t \in Txs, CustomerActs(t)
    PROVE  TypeOK'
  <1>1. charge' \in [Txs -> {"absent", "open", "approved", "paid", "dead"}]
    BY DEF TypeOK, CustomerActs
  <1>2. UNCHANGED <<now, inventoryVars, entry, tx, believed, verifying, webhookKeys, webhooks, moneyVars>>
    BY DEF CustomerActs
  <1>3. QED
    BY <1>1, <1>2 DEF TypeOK, inventoryVars, moneyVars, cancelVars

LEMMA FetchTypes ==
    ASSUME TypeOK, NEW r \in Requests, NEW t \in Txs, NEW key \in WebhookKeys \cup {NoWebhookKey},
           VerifyFetch(r, t, key)
    PROVE  TypeOK'
  <1>1. tx[t].status # "absent"
    BY DEF VerifyFetch
  <1>2. PICK result \in {"completed", "failed", "pending", "cancelled"} :
            verifying' = verifying \cup {[request |-> r, tx |-> t, key |-> key, result |-> result]}
    BY DEF VerifyFetch
  <1>3. believed' \subseteq Txs
    BY DEF TypeOK, VerifyFetch
  <1>4. verifying' \subseteq Verification
    BY <1>2 DEF TypeOK, Verification
  <1>5. charge' \in [Txs -> {"absent", "open", "approved", "paid", "dead"}]
    BY DEF TypeOK, VerifyFetch
  <1>6. UNCHANGED <<now, inventoryVars, entry, tx, webhookKeys, webhooks, moneyVars>>
    BY DEF VerifyFetch
  <1>7. \A v \in verifying' : tx[v.tx].status # "absent"
    BY <1>1, <1>2 DEF TypeOK
  <1>8. QED
    BY <1>3, <1>4, <1>5, <1>6, <1>7 DEF TypeOK, inventoryVars, moneyVars, cancelVars

LEMMA ApplyTypes ==
    ASSUME TypeOK, NEW v \in verifying, VerifyApply(v)
    PROVE  TypeOK'
  <1> DEFINE k == tx[v.tx].booking
             s == booking[k].slot
  <1>1. v \in Verification /\ v.tx \in Txs /\ tx[v.tx].status # "absent"
    BY DEF TypeOK, Verification
  <1>2. k \in BookingKeys /\ booking[k] \in BookingRow /\ booking[k].status # "absent" /\ s \in Slots
    BY <1>1 DEF TypeOK
  <1>3. UNCHANGED <<now, hold, entry, tx, charge, believed, refunded, cancelling, crossed>>
    BY DEF VerifyApply, cancelVars
  <1>4. verifying' \subseteq verifying /\ webhookKeys' \subseteq WebhookKeys /\ webhooks' \in Nat
    BY <1>1 DEF TypeOK, VerifyApply, Verification
  <1>5. slot' \in [Slots -> SlotRow]
    BY <1>2, SlotRows DEF TypeOK, VerifyApply
  <1>6. payout' \in [BookingKeys -> Nat]
    BY <1>2 DEF TypeOK, VerifyApply, BookingRow
  <1>7. booking' \in {[booking EXCEPT ![k].status = "confirmed", ![k].payment = "completed"],
                      [booking EXCEPT ![k].payment = "failed"],
                      booking}
    BY DEF VerifyApply, Settled
  <1>8. booking' \in [BookingKeys -> BookingRow]
    <2>1. /\ [booking[k] EXCEPT !.status = "confirmed", !.payment = "completed"] \in BookingRow
          /\ [booking[k] EXCEPT !.payment = "failed"] \in BookingRow
      BY <1>2 DEF BookingRow
    <2>2. booking \in [BookingKeys -> BookingRow]
      BY DEF TypeOK
    <2>3. QED
      BY <1>2, <1>7, <2>1, <2>2
  <1>9. \A b \in BookingKeys : /\ booking'[b].slot = booking[b].slot
                               /\ booking'[b].amount = booking[b].amount
                               /\ booking'[b].status # "absent" <=> booking[b].status # "absent"
    <2>1. booking \in [BookingKeys -> BookingRow]
      BY DEF TypeOK
    <2>2. /\ [booking[k] EXCEPT !.status = "confirmed", !.payment = "completed"].slot = s
          /\ [booking[k] EXCEPT !.status = "confirmed", !.payment = "completed"].status = "confirmed"
          /\ [booking[k] EXCEPT !.status = "confirmed", !.payment = "completed"].amount = booking[k].amount
          /\ [booking[k] EXCEPT !.payment = "failed"].amount = booking[k].amount
          /\ [booking[k] EXCEPT !.payment = "failed"].slot = s
          /\ [booking[k] EXCEPT !.payment = "failed"].status = booking[k].status
      BY <1>2 DEF BookingRow
    <2>3. \A b \in BookingKeys \ {k} : booking'[b] = booking[b]
      BY <1>7, <2>1
    <2>4. booking'[k] \in {[booking[k] EXCEPT !.status = "confirmed", !.payment = "completed"],
                           [booking[k] EXCEPT !.payment = "failed"], booking[k]}
      BY <1>2, <1>7, <2>1
    <2>5. /\ booking'[k].slot = s /\ booking'[k].status # "absent"
          /\ booking'[k].amount = booking[k].amount
      BY <1>2, <2>2, <2>4
    <2>6. QED
      BY <1>2, <2>3, <2>5
  <1>10. \A c \in cancelling : /\ booking'[c.key].status # "absent"
                              /\ c.row.slot = booking'[c.key].slot
                              /\ c.row.amount = booking'[c.key].amount
    BY <1>9 DEF TypeOK, Cancellation
  <1>11. QED
    BY <1>1, <1>3, <1>4, <1>5, <1>6, <1>8, <1>9, <1>10 DEF TypeOK

LEMMA CrashTypes ==
    ASSUME TypeOK, NEW v \in verifying, VerifyCrash(v)
    PROVE  TypeOK'
  BY DEF TypeOK, VerifyCrash, inventoryVars, moneyVars, cancelVars

LEMMA TickTypes ==
    ASSUME TypeOK, Tick
    PROVE  TypeOK'
  <1>1. now' \in Instants /\ UNCHANGED <<inventoryVars, entry, paymentVars, moneyVars>>
    BY DEF Tick
  <1>2. QED
    BY <1>1 DEF TypeOK, inventoryVars, paymentVars, moneyVars, cancelVars

LEMMA InitTypes == Init => TypeOK
  <1> SUFFICES ASSUME Init PROVE TypeOK
    OBVIOUS
  <1>1. AbsentBooking \in BookingRow
    BY DEF AbsentBooking, BookingRow, NoSlot
  <1>2. NoHold \in HoldRow
    BY DEF NoHold, HoldRow
  <1>3. [status |-> "absent", user |-> NoUser, wants |-> {}] \in EntryRow
    BY DEF EntryRow
  <1>4. [status |-> "absent", booking |-> NoBooking, via |-> "lookup"] \in TxRow
    BY DEF TxRow
  <1>5. AbsentBooking.status = "absent"
    BY DEF AbsentBooking
  <1>6. QED
    BY <1>1, <1>2, <1>3, <1>4, <1>5, SlotRows, ClockAssumption DEF Init, TypeOK

LEMMA TypesPreserved == TypeOK /\ [Next]_vars => TypeOK'
  <1> SUFFICES ASSUME TypeOK, [Next]_vars PROVE TypeOK'
    OBVIOUS
  <1>1. CASE UNCHANGED vars
    BY <1>1 DEF TypeOK, vars
  <1>2. CASE Next
    BY <1>2, TickTypes, HoldTypes, ListTypes, CreateTypes, WaitlistTypes, CancelActions,
       CancelTypes, CancelReadTypes, TaskTypes, StartTypes, CustomerTypes, FetchTypes, ApplyTypes,
       CrashTypes
    DEF Next
  <1>3. QED
    BY <1>1, <1>2

\* Every row keeps the type of its table and every foreign key leads to a row.
THEOREM TypeCorrect == Spec => []TypeOK
  <1>1. Init => TypeOK
    BY InitTypes
  <1>2. TypeOK /\ [Next]_vars => TypeOK'
    BY TypesPreserved
  <1>3. QED
    BY <1>1, <1>2, PTL DEF Spec

=============================================================================
