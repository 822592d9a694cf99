--------------------------- MODULE ServicesProofs ---------------------------
(**************************************************************************)
(* Proofs about the small services: slot holds, cached reads, the payment *)
(* gateways, the API clients, the login lockout and the generation of     *)
(* slots. Each part is about one module, and uses nothing of the others.  *)
(**************************************************************************)
EXTENDS SlotHolds, CachedReads, PaymentGateway, ApiClients, LoginLockout,
        SlotGeneration, FiniteSetTheorems, FunctionTheorems, WellFoundedInduction, TLAPS

(***************************************************************************)
(* Proofs about SlotHolds, for any number of requests and customers.       *)
(*                                                                         *)
(* Until a release has outrun its hold the key names whoever believes to   *)
(* hold the slot, and a request that is about to delete the key has seen   *)
(* it there and it is there still.  Requests in progress that have read    *)
(* the row of a booked slot have read it before it was booked.             *)
(***************************************************************************)

HoldRequestType ==
    [what : {"none", "hold", "release", "list", "book"},
     who : Customers \cup {Nobody},
     step : {"none", "set", "commit", "look", "delete", "read", "owner"},
     seen : {"open", "held"}]

\* Every variable has its type; no request has read the row as booked.
HoldTypeOK ==
    /\ slotKey \in Customers \cup {Nobody}
    /\ shown \in {"open", "held", "lapsed", "booked"}
    /\ made \in BOOLEAN
    /\ doing \in [HoldRequests -> HoldRequestType]
    /\ running \in SUBSET Customers
    /\ told \in SUBSET Customers
    /\ outrun \in SUBSET HoldRequests
    /\ taken \in BOOLEAN
    /\ late \in SUBSET HoldRequests

\* Only the listing of slots is for nobody.
ForCustomers ==
    \A r \in HoldRequests :
        doing[r].step \in {"set", "look", "delete", "owner"} => doing[r].who \in Customers

\* A hold that is running has the key, and so has a customer whose key is to be deleted.
KeyOfRunning == ~taken => \A u \in running : slotKey = u
KeyOfDeleting ==
    \A r \in HoldRequests :
        doing[r].step = "delete" /\ r \notin outrun => slotKey = doing[r].who

KeyInv ==
    /\ HoldTypeOK
    /\ ForCustomers
    /\ KeyOfRunning
    /\ KeyOfDeleting
    /\ told \subseteq running

\* Who has read the row and is still in progress has read it before it was booked.
ReadersAreLate ==
    shown = "booked" => \A r \in HoldRequests : HasRead(r) => r \in late

-----------------------------------------------------------------------------

LEMMA KeyInitInv == HoldInit => KeyInv
<1> SUFFICES ASSUME HoldInit PROVE KeyInv
    OBVIOUS
<1>1. AtRest \in HoldRequestType
      BY DEF AtRest, HoldRequestType
<1>2. \A r \in HoldRequests : doing[r] = AtRest /\ doing[r].step = "none"
      BY DEF HoldInit, AtRest
<1>3. HoldTypeOK
      BY <1>1 DEF HoldInit, HoldTypeOK
<1>4. QED BY <1>2, <1>3
          DEF HoldInit, KeyInv, ForCustomers, KeyOfRunning, KeyOfDeleting

\* A request that begins is for a customer, or to list the slots.
LEMMA BeginningKeepsInv ==
    ASSUME KeyInv, NEW r \in HoldRequests,
           NEW what \in {"hold", "release", "list", "book"},
           NEW u \in Customers \cup {Nobody},
           NEW step \in {"set", "look", "owner", "commit"},
           NEW seen \in {"open", "held"},
           step # "commit" => u \in Customers,
           Begins(r, what, u, step, seen), SlotStays
    PROVE  KeyInv'
BY DEF KeyInv, HoldTypeOK, HoldRequestType, ForCustomers, KeyOfRunning, KeyOfDeleting,
       Begins, SlotStays, KeyStays, AtRest

\* Every step of a request keeps the invariant.
LEMMA RequestKeepsInv ==
    ASSUME KeyInv, NEW r \in HoldRequests,
           \/ \E u \in Customers :
                 StartHold(r, u) \/ StartRelease(r, u) \/ StartBooking(r, u)
           \/ SetKey(r) \/ CommitHold(r)
           \/ LookAtKey(r) \/ DeleteKey(r) \/ ReadReleased(r)
           \/ StartList(r) \/ CommitOpen(r)
           \/ ReadOwner(r) \/ CommitBooking(r)
           \/ Fail(r)
    PROVE  KeyInv'
<1> USE DEF KeyInv
<1>1. ASSUME NEW u \in Customers, StartHold(r, u)
      PROVE  KeyInv'
  <2>1. Status \in {"open", "held"}
        BY <1>1 DEF StartHold, Status, HoldTypeOK
  <2>2. QED BY <1>1, <2>1, BeginningKeepsInv DEF StartHold
<1>2. ASSUME NEW u \in Customers, StartRelease(r, u)
      PROVE  KeyInv'
      BY <1>2, BeginningKeepsInv DEF StartRelease
<1>3. ASSUME NEW u \in Customers, StartBooking(r, u)
      PROVE  KeyInv'
  <2>1. Normalised \in {"open", "held"}
        BY <1>3 DEF StartBooking, Normalised, HoldTypeOK
  <2>2. QED BY <1>3, <2>1, BeginningKeepsInv DEF StartBooking
<1>4. CASE SetKey(r)
      BY <1>4, NobodyAssumption
      DEF SetKey, At, Goes, Leaves, AtRest, HoldTypeOK, HoldRequestType, ForCustomers,
          KeyOfRunning, KeyOfDeleting
<1>5. CASE CommitHold(r)
      BY <1>5
      DEF CommitHold, At, Leaves, AtRest, HoldTypeOK, HoldRequestType, ForCustomers,
          KeyOfRunning, KeyOfDeleting
<1>6. CASE LookAtKey(r)
      BY <1>6
      DEF LookAtKey, Goes, Leaves, AtRest, SlotStays, KeyStays, HoldTypeOK,
          HoldRequestType, ForCustomers, KeyOfRunning, KeyOfDeleting
<1>7. CASE DeleteKey(r)
  <2> DEFINE next == IF doing[r].what = "book" THEN "commit" ELSE "read"
  <2>1. /\ doing' = [doing EXCEPT ![r].step = next] /\ UNCHANGED late
        /\ next \in {"commit", "read"}
        BY <1>7 DEF DeleteKey, Goes
  <2> HIDE DEF next
  <2>2. doing' \in [HoldRequests -> HoldRequestType]
        BY <2>1 DEF HoldTypeOK, HoldRequestType
  <2>3. HoldTypeOK' /\ (told \subseteq running)'
        BY <1>7, <2>1, <2>2 DEF DeleteKey, Deleting, HoldTypeOK
  <2>4. ForCustomers'
        BY <2>1 DEF HoldTypeOK, ForCustomers
  <2>5. KeyOfRunning'
    <3> SUFFICES ASSUME ~taken', NEW v \in running'
                 PROVE  FALSE
        BY DEF KeyOfRunning
    <3>1. v \in running /\ v # doing[r].who /\ v \in Customers /\ ~taken
          BY <1>7 DEF DeleteKey, HoldTypeOK
    <3>2. slotKey = v /\ slotKey # Nobody
          BY <3>1, NobodyAssumption DEF KeyOfRunning
    <3>3. r \in outrun
          BY <1>7, <3>1, <3>2 DEF DeleteKey, KeyOfDeleting
    <3>4. QED BY <1>7, <3>1, <3>2, <3>3 DEF DeleteKey
  <2>6. KeyOfDeleting'
    <3> SUFFICES ASSUME NEW x \in HoldRequests, doing'[x].step = "delete", x \notin outrun'
                 PROVE  FALSE
        BY DEF KeyOfDeleting
    <3>1. x # r
          BY <1>7 DEF DeleteKey, Goes, HoldTypeOK, HoldRequestType
    <3>2. doing[x].step = "delete" /\ x \notin outrun /\ x \notin Deleting(slotKey)
          BY <1>7, <3>1 DEF DeleteKey, Goes, HoldTypeOK
    <3>3. QED BY <3>2 DEF Deleting, KeyOfDeleting
  <2>7. QED BY <2>3, <2>4, <2>5, <2>6
<1>8. CASE ReadReleased(r)
      BY <1>8
      DEF ReadReleased, At, Leaves, AtRest, SlotStays, KeyStays, HoldTypeOK,
          HoldRequestType, ForCustomers, KeyOfRunning, KeyOfDeleting
<1>9. CASE StartList(r)
      BY <1>9, BeginningKeepsInv DEF StartList
<1>10. CASE CommitOpen(r)
      BY <1>10
      DEF CommitOpen, Leaves, AtRest, KeyStays, HoldTypeOK, HoldRequestType,
          ForCustomers, KeyOfRunning, KeyOfDeleting
<1>11. CASE ReadOwner(r)
      BY <1>11
      DEF ReadOwner, At, Goes, Leaves, AtRest, SlotStays, KeyStays, HoldTypeOK,
          HoldRequestType, ForCustomers, KeyOfRunning, KeyOfDeleting
<1>12. CASE CommitBooking(r)
      BY <1>12
      DEF CommitBooking, Leaves, AtRest, KeyStays, HoldTypeOK, HoldRequestType,
          ForCustomers, KeyOfRunning, KeyOfDeleting
<1>13. CASE Fail(r)
      BY <1>13
      DEF Fail, Leaves, AtRest, HoldTypeOK, HoldRequestType, ForCustomers,
          KeyOfRunning, KeyOfDeleting
<1>14. QED BY <1>1, <1>2, <1>3, <1>4, <1>5, <1>6, <1>7, <1>8, <1>9, <1>10, <1>11,
              <1>12, <1>13

LEMMA KeyNextInv == KeyInv /\ [HoldNext]_holdVars => KeyInv'
<1> SUFFICES ASSUME KeyInv, [HoldNext]_holdVars
             PROVE  KeyInv'
    OBVIOUS
<1>1. CASE \E u \in Customers : KeyLapses(u)
  <2>1. PICK u \in Customers : KeyLapses(u)
        BY <1>1
  <2>2. slotKey' \in Customers \cup {Nobody} /\ outrun' \in SUBSET HoldRequests
        BY <2>1 DEF KeyLapses, Deleting, KeyInv, HoldTypeOK
  <2>3. HoldTypeOK' /\ ForCustomers' /\ (told \subseteq running)'
        BY <2>1, <2>2 DEF KeyLapses, KeyInv, HoldTypeOK, ForCustomers
  <2>4. KeyOfRunning'
        BY <2>1 DEF KeyLapses, KeyInv, HoldTypeOK, KeyOfRunning
  <2>5. KeyOfDeleting'
    <3>1. CASE slotKey = u
      <4> SUFFICES ASSUME NEW x \in HoldRequests, doing'[x].step = "delete",
                          x \notin outrun'
                   PROVE  FALSE
          BY DEF KeyOfDeleting
      <4>1. doing[x].step = "delete" /\ x \notin outrun /\ x \notin Deleting(u)
            BY <2>1, <3>1 DEF KeyLapses
      <4>2. QED BY <3>1, <4>1 DEF Deleting, KeyInv, KeyOfDeleting
    <3>2. CASE slotKey # u
          BY <2>1, <3>2 DEF KeyLapses, KeyInv, KeyOfDeleting
    <3>3. QED BY <3>1, <3>2
  <2>6. QED BY <2>3, <2>4, <2>5 DEF KeyInv
<1>2. CASE RowLapses \/ Confirm \/ CancelBookingOn
      BY <1>2
      DEF RowLapses, Confirm, CancelBookingOn, KeyStays, KeyInv, HoldTypeOK,
          ForCustomers, KeyOfRunning, KeyOfDeleting
<1>3. CASE UNCHANGED holdVars
      BY <1>3
      DEF holdVars, KeyInv, HoldTypeOK, ForCustomers, KeyOfRunning, KeyOfDeleting
<1>4. QED BY <1>1, <1>2, <1>3, RequestKeepsInv DEF HoldNext

-----------------------------------------------------------------------------

\* What a request has to do with the row when it goes on.
LEMMA RequestStaysLate ==
    ASSUME HoldTypeOK, ReadersAreLate, NEW r \in HoldRequests, shown' = "booked",
           \/ \E u \in Customers :
                 StartHold(r, u) \/ StartRelease(r, u) \/ StartBooking(r, u)
           \/ SetKey(r) \/ CommitHold(r)
           \/ LookAtKey(r) \/ DeleteKey(r) \/ ReadReleased(r)
           \/ StartList(r) \/ CommitOpen(r)
           \/ ReadOwner(r) \/ CommitBooking(r)
           \/ Fail(r)
    PROVE  ReadersAreLate'
<1>1. ~HasRead(r)' \/ (HasRead(r) /\ UNCHANGED late)
  <2>1. doing \in [HoldRequests -> HoldRequestType]
        BY DEF HoldTypeOK
  <2>2. CASE \E u \in Customers : StartHold(r, u) \/ StartBooking(r, u)
        BY <2>2 DEF StartHold, StartBooking, SlotStays
  <2>3. CASE \E u \in Customers : StartRelease(r, u)
        BY <2>1, <2>3 DEF StartRelease, Begins, HasRead
  <2>4. CASE SetKey(r)
        BY <2>1, <2>4 DEF SetKey, At, Goes, Leaves, HasRead, AtRest, HoldRequestType
  <2>5. CASE CommitHold(r) \/ CommitOpen(r) \/ CommitBooking(r) \/ Fail(r)
        BY <2>1, <2>5 DEF CommitHold, CommitOpen, CommitBooking, Fail, Leaves, HasRead, AtRest
  <2>6. CASE LookAtKey(r) \/ DeleteKey(r)
        BY <2>1, <2>6 DEF LookAtKey, DeleteKey, Goes, Leaves, HasRead, AtRest, HoldRequestType
  <2>7. CASE ReadReleased(r)
        BY <2>1, <2>7 DEF ReadReleased, Leaves, HasRead, AtRest, SlotStays
  <2>8. CASE StartList(r)
        BY <2>8 DEF StartList, SlotStays
  <2>9. CASE ReadOwner(r)
        BY <2>1, <2>9 DEF ReadOwner, At, Goes, Leaves, HasRead, AtRest, HoldRequestType
  <2>10. QED BY <2>2, <2>3, <2>4, <2>5, <2>6, <2>7, <2>8, <2>9
<1>2. shown = "booked"
      BY DEF StartHold, StartRelease, StartBooking, SetKey, CommitHold, LookAtKey, DeleteKey,
             ReadReleased, StartList, CommitOpen, ReadOwner, CommitBooking, Fail, SlotStays
<1>3. late \ {r} \subseteq late' /\ \A x \in HoldRequests \ {r} : doing'[x] = doing[x]
  <2>1. \/ \E step : Goes(r, step)
        \/ Leaves(r)
        \/ \E what, u, step, seen : Begins(r, what, u, step, seen)
        \/ doing' = [doing EXCEPT ![r].step = "commit", ![r].seen = "held"] /\ UNCHANGED late
        BY DEF StartHold, StartRelease, StartBooking, SetKey, CommitHold, LookAtKey, DeleteKey,
               ReadReleased, StartList, CommitOpen, ReadOwner, CommitBooking, Fail
  <2>2. QED BY <2>1 DEF Goes, Leaves, Begins, HoldTypeOK
<1>4. QED BY <1>1, <1>2, <1>3 DEF ReadersAreLate, HasRead

LEMMA LateNext == HoldTypeOK /\ ReadersAreLate /\ [HoldNext]_holdVars => ReadersAreLate'
<1> SUFFICES ASSUME HoldTypeOK, ReadersAreLate, [HoldNext]_holdVars, shown' = "booked"
             PROVE  ReadersAreLate'
    BY DEF ReadersAreLate
<1>1. CASE Confirm
      BY <1>1 DEF Confirm, ReadersAreLate, HasRead
<1>2. CASE RowLapses \/ CancelBookingOn
      BY <1>2 DEF RowLapses, CancelBookingOn
<1>3. CASE (\E u \in Customers : KeyLapses(u)) \/ UNCHANGED holdVars
      BY <1>3 DEF KeyLapses, holdVars, ReadersAreLate, HasRead
<1>4. QED BY <1>1, <1>2, <1>3, RequestStaysLate DEF HoldNext

\* Whoever is told to hold the slot is the only one, and no handler but a cancellation
\* takes a booked slot away that has not read it before it was booked (POST
\* /slots/{slot_id}/hold and /release, POST /bookings/, GET /slots/).
THEOREM SlotsAreKept == HoldSpec => SlotIsKept
<1>1. KeyInv' => OneIsTold'
      BY DEF KeyInv, KeyOfRunning, OneIsTold
<1>2. HoldTypeOK /\ ReadersAreLate /\ [HoldNext]_holdVars => BookedSlotStays \/ UNCHANGED holdVars
  <2> SUFFICES ASSUME HoldTypeOK, ReadersAreLate, HoldNext, shown = "booked", shown' # "booked"
               PROVE  CancelBookingOn \/ \E r \in late : doing'[r] # doing[r]
      BY DEF BookedSlotStays
  <2>1. ASSUME NEW r \in HoldRequests, CommitHold(r) \/ CommitOpen(r) \/ CommitBooking(r)
        PROVE  r \in late /\ doing'[r] # doing[r]
    <3>1. doing[r].step = "commit"
          BY <2>1 DEF CommitHold, CommitOpen, CommitBooking, At
    <3>2. doing'[r] = AtRest
          BY <2>1 DEF CommitHold, CommitOpen, CommitBooking, Leaves, HoldTypeOK
    <3>3. QED BY <3>1, <3>2 DEF AtRest, ReadersAreLate, HasRead
  <2>2. ASSUME NEW r \in HoldRequests,
               \/ \E u \in Customers :
                     StartHold(r, u) \/ StartRelease(r, u) \/ StartBooking(r, u)
               \/ SetKey(r) \/ LookAtKey(r) \/ DeleteKey(r) \/ ReadReleased(r)
               \/ StartList(r) \/ ReadOwner(r) \/ Fail(r)
        PROVE  FALSE
        BY <2>2
        DEF StartHold, StartRelease, StartBooking, SetKey, LookAtKey, DeleteKey,
            ReadReleased, StartList, ReadOwner, Fail, SlotStays
  <2>3. QED BY <2>1, <2>2
            DEF HoldNext, KeyLapses, RowLapses, Confirm, HoldTypeOK
<1>3. KeyInv => HoldTypeOK
      BY DEF KeyInv
<1>4. HoldInit => ReadersAreLate
      BY DEF HoldInit, ReadersAreLate
<1>5. KeyInv /\ ReadersAreLate /\ KeyInv' /\ [HoldNext]_holdVars
         => [OneIsTold' /\ BookedSlotStays]_holdVars
      BY <1>1, <1>2, <1>3
<1>6. QED BY <1>3, <1>4, <1>5, KeyInitInv, KeyNextInv, LateNext, PTL DEF HoldSpec, SlotIsKept

(***************************************************************************)
(* Proofs about CachedReads, for any number of readers and writers.        *)
(*                                                                         *)
(* A reader nobody has overtaken stores what the database says, and every  *)
(* change leaves a writer about to clear the key or an excuse.             *)
(***************************************************************************)

\* What a reader that is not overtaken has read is what is stored.
ReadersAreRight ==
    \A p \in Readers : reader[p] = Nothing \/ p \in overtaken \/ reader[p] = stored

ReadInv ==
    /\ reader = [p \in Readers |-> reader[p]]
    /\ writer = [w \in Writers |-> writer[w]]
    /\ ReadersAreRight
    /\ KeptAnswersAreRight

LEMMA ReadInitInv == ReadInit => ReadInv
BY DEF ReadInit, ReadInv, ReadersAreRight, KeptAnswersAreRight, UpToDate

LEMMA ChangeKeepsInv ==
    ASSUME ReadInv, NEW w \in Writers, NEW op, Change(w, op)
    PROVE  ReadInv'
<1>1. /\ reader' = reader /\ kept' = kept
      /\ overtaken' = {p \in Readers : reader[p] # Nothing}
      /\ writer' = [writer EXCEPT ![w] = key \in op.clears]
      BY DEF Change
<1>2. ReadersAreRight'
      BY <1>1 DEF ReadersAreRight
<1>3. writer' = [x \in Writers |-> writer'[x]]
      BY <1>1 DEF ReadInv
<1>4. CASE key \in op.clears
  <2>1. writer'[w]
        BY <1>1, <1>4 DEF ReadInv
  <2>2. QED BY <1>1, <1>2, <1>3, <2>1 DEF ReadInv, KeptAnswersAreRight
<1>5. CASE key \notin op.clears
  <2>1. excuse' # {}
        BY <1>5 DEF Change
  <2>2. QED BY <1>1, <1>2, <1>3, <2>1 DEF ReadInv, KeptAnswersAreRight
<1>6. QED BY <1>4, <1>5

LEMMA ReadNextInv == ReadInv /\ [ReadNext]_readVars => ReadInv'
<1> SUFFICES ASSUME ReadInv, [ReadNext]_readVars
             PROVE  ReadInv'
    OBVIOUS
<1>1. ASSUME NEW p \in Readers, Miss(p)
      PROVE  ReadInv'
  <2>1. ReadersAreRight' /\ reader' = [x \in Readers |-> reader'[x]]
        BY <1>1 DEF Miss, ReadInv, ReadersAreRight
  <2>2. QED BY <1>1, <2>1 DEF Miss, ReadInv, KeptAnswersAreRight, UpToDate
<1>2. ASSUME NEW p \in Readers, Keep(p)
      PROVE  ReadInv'
  <2>1. ReadersAreRight' /\ reader' = [x \in Readers |-> reader'[x]]
        BY <1>2 DEF Keep, ReadInv, ReadersAreRight
  <2>2. KeptAnswersAreRight'
    <3>1. CASE kept' = reader[p] /\ p \in overtaken /\ excuse' = {"overtaken"}
          BY <3>1 DEF KeptAnswersAreRight
    <3>2. CASE kept' = reader[p] /\ p \notin overtaken
          BY <1>2, <3>2 DEF Keep, ReadInv, ReadersAreRight, KeptAnswersAreRight, UpToDate
    <3>3. CASE UNCHANGED <<kept, excuse>>
          BY <1>2, <3>3 DEF Keep, ReadInv, KeptAnswersAreRight, UpToDate
    <3>4. QED BY <1>2, <3>1, <3>2, <3>3 DEF Keep
  <2>3. QED BY <1>2, <2>1, <2>2 DEF Keep, ReadInv
<1>3. ASSUME NEW w \in Writers, Clear(w)
      PROVE  ReadInv'
  <2>1. ReadersAreRight' /\ writer' = [x \in Writers |-> writer'[x]]
        BY <1>3 DEF Clear, ReadInv, ReadersAreRight
  <2>2. KeptAnswersAreRight'
        BY <1>3 DEF Clear, KeptAnswersAreRight, UpToDate
  <2>3. QED BY <1>3, <2>1, <2>2 DEF Clear, ReadInv
<1>4. CASE Expire
      BY <1>4 DEF Expire, ReadInv, ReadersAreRight, KeptAnswersAreRight, UpToDate
<1>5. CASE Settle \/ UNCHANGED readVars
      BY <1>5 DEF Settle, readVars, ReadInv, ReadersAreRight, KeptAnswersAreRight, UpToDate
<1>6. QED BY <1>1, <1>2, <1>3, <1>4, <1>5, ChangeKeepsInv DEF ReadNext

\* A kept answer is right, or one of the four things that may make it wrong has
\* happened: the handlers commit first and clear the key next.
THEOREM KeptAnswersStayRight == ReadSpec => []KeptAnswersAreRight
<1>1. ReadInv => KeptAnswersAreRight
      BY DEF ReadInv
<1>2. QED BY <1>1, ReadInitInv, ReadNextInv, PTL DEF ReadSpec

(***************************************************************************)
(* Proofs about PaymentGateway, for any number of verifications.           *)
(*                                                                         *)
(* Money that is captured is there or has been given back, so that every   *)
(* answer of completed has money behind it, unless it is a callback's or a *)
(* session's that was believed.  An answer of the gateway that is not      *)
(* that, while the row is completed and proven, has been asked for after   *)
(* the money was given back, as long as no two verifications overlap.      *)
(***************************************************************************)

Names == {"open", "pending", "paid", "expired", "canceled", "refunded"}
Statuses == {"none", "initiated", "pending", "completed", "failed", "cancelled", "refunded"}

GatewayTypeOK ==
    /\ gateway \in Gateways
    /\ remote \in Names \cup {"none", "approved"}
    /\ row \in Statuses
    /\ answer \in [Verifications -> Statuses]
    /\ paid \in BOOLEAN
    /\ words \in SUBSET Verifications
    /\ unproven \in BOOLEAN
    /\ together \in BOOLEAN

\* Captured money is at the gateway, or was given back.
MoneyIsThere == paid <=> remote \in {"paid", "refunded"}

\* Only PayPal waits for a payment to be executed.
ApprovedAtPayPal == remote = "approved" => gateway = "paypal"

\* The customer cannot pay what has no row.
NothingBeforeRow == row = "none" => remote \in {"none", "open"}

CompletedIsPaid ==
    /\ row = "completed" => paid \/ unproven
    /\ \A v \in Verifications : answer[v] = "completed" => paid \/ v \in words

\* Khalti and PayPal are asked themselves.
WordsBelieved ==
    words # {} \/ unproven => gateway \in {"esewa", "stripe"}

OneInProgress ==
    \A v, w \in Verifications : answer[v] # "none" /\ answer[w] # "none" => v = w

LaterAnswers ==
    row = "completed" /\ ~unproven =>
        \A v \in Verifications \ words :
            answer[v] \notin {"none", "completed"} => remote = "refunded"

GatewayInv ==
    /\ GatewayTypeOK
    /\ MoneyIsThere
    /\ ApprovedAtPayPal
    /\ NothingBeforeRow
    /\ CompletedIsPaid
    /\ WordsBelieved
    /\ ~together => OneInProgress /\ LaterAnswers

-----------------------------------------------------------------------------

\* What status_map and _STATUS_MAP make of the names: completed stands for money that
\* has been captured, but for Stripe's sessions that are complete and unpaid, and money
\* that is there is called completed by every gateway.
LEMMA CompletedStandsForMoney ==
    ASSUME NEW g \in {"khalti", "esewa", "stripe"}, NEW name \in Names
    PROVE  /\ StatusMap[g][name] \in Statuses \ {"none"}
           /\ StatusMap[g][name] = "completed" =>
                 name \in {"paid", "refunded"} \/ (g = "stripe" /\ name = "pending")
           /\ name = "paid" => StatusMap[g][name] = "completed"
<1>1. CASE g = "khalti"
      BY <1>1 DEF StatusMap, Names, Statuses
<1>2. CASE g = "esewa"
      BY <1>2 DEF StatusMap, Names, Statuses
<1>3. CASE g = "stripe"
      BY <1>3 DEF StatusMap, Names, Statuses
<1>4. QED BY <1>1, <1>2, <1>3

LEMMA GatewayInitInv == GatewayInit => GatewayInv
BY DEF GatewayInit, GatewayInv, GatewayTypeOK, Names, Statuses, MoneyIsThere,
       ApprovedAtPayPal, NothingBeforeRow, CompletedIsPaid, WordsBelieved, OneInProgress,
       LaterAnswers

\* The payment changes at the gateway; what has been paid stays paid or is given back.
LEMMA BecomesKeepsInv ==
    ASSUME GatewayInv, NEW from, NEW to \in Names \cup {"approved"}, Becomes(from, to),
           to = "approved" => gateway = "paypal",
           \/ to = "refunded" /\ from = {"paid"}
           \/ to # "refunded" /\ from \subseteq {"open", "pending", "approved"}
    PROVE  GatewayInv'
<1>1. GatewayTypeOK' /\ MoneyIsThere' /\ ApprovedAtPayPal' /\ NothingBeforeRow'
      BY DEF Becomes, GatewayInv, GatewayTypeOK, MoneyIsThere, ApprovedAtPayPal,
             NothingBeforeRow
<1>2. CompletedIsPaid' /\ WordsBelieved'
      BY DEF Becomes, GatewayInv, CompletedIsPaid, WordsBelieved
<1>3. (~together => OneInProgress /\ LaterAnswers)'
      BY DEF Becomes, GatewayInv, OneInProgress, LaterAnswers
<1>4. QED BY <1>1, <1>2, <1>3 DEF GatewayInv

\* An answer of the gateway says completed if, and unless PayPal is asked only if, there
\* is money.
LEMMA LearnsKeepsInv ==
    ASSUME GatewayInv, NEW v \in Verifications, NEW status \in Statuses \ {"none"},
           Learns(v, status),
           \/ UNCHANGED <<remote, paid>> /\ (remote = "paid" => status = "completed")
           \/ UNCHANGED <<remote, paid>> /\ v \in words'
           \/ remote = "approved" /\ remote' = "paid" /\ paid' = TRUE
           \/ remote = "approved" /\ remote' = "pending" /\ UNCHANGED paid,
           status = "completed" => paid' \/ v \in words',
           \/ words' = words
           \/ words' = words \cup {v} /\ gateway \in {"esewa", "stripe"}
    PROVE  GatewayInv'
<1>1. GatewayTypeOK'
      BY DEF Learns, GatewayInv, GatewayTypeOK, Names
<1>2. MoneyIsThere' /\ ApprovedAtPayPal' /\ NothingBeforeRow' /\ WordsBelieved'
      BY DEF Learns, GatewayInv, MoneyIsThere, ApprovedAtPayPal, NothingBeforeRow, WordsBelieved
<1>3. CompletedIsPaid'
      BY DEF Learns, GatewayInv, GatewayTypeOK, CompletedIsPaid
<1>4. (~together => OneInProgress)'
      BY DEF Learns, GatewayInv, GatewayTypeOK, OneInProgress
<1>5. (~together => LaterAnswers)'
  <2>1. SUFFICES ASSUME ~together', row' = "completed", ~unproven',
                        NEW x \in Verifications \ words',
                        answer'[x] \notin {"none", "completed"}
                 PROVE  remote' = "refunded"
        BY DEF LaterAnswers
  <2>2. /\ ~together /\ row = "completed" /\ ~unproven /\ x \in Verifications \ words
        /\ \A y \in Verifications : answer[y] = "none"
        /\ answer' = [answer EXCEPT ![v] = status]
        BY <2>1 DEF Learns
  <2>3. x = v /\ status # "completed" /\ v \notin words'
        BY <2>1, <2>2 DEF GatewayInv, GatewayTypeOK
  <2>4. paid /\ remote \in {"paid", "refunded"}
        BY <2>2 DEF GatewayInv, CompletedIsPaid, MoneyIsThere
  <2>5. QED BY <2>3, <2>4
<1>6. QED BY <1>1, <1>2, <1>3, <1>4, <1>5 DEF GatewayInv

LEMMA VerificationKeepsInv ==
    ASSUME GatewayInv, NEW v \in Verifications,
           LookUp(v) \/ CheckCallback(v) \/ Execute(v) \/ CommitStatus(v) \/ LoseAnswer(v)
    PROVE  GatewayInv'
<1> USE DEF GatewayInv
<1>1. CASE LookUp(v)
  <2> DEFINE status == StatusMap[gateway][remote]
  <2>1. gateway \in {"khalti", "stripe"} /\ remote \in Names
        BY <1>1 DEF LookUp, Learns, GatewayTypeOK, ApprovedAtPayPal
  <2>2. /\ status \in Statuses \ {"none"}
        /\ status = "completed" =>
              remote \in {"paid", "refunded"} \/ (gateway = "stripe" /\ remote = "pending")
        /\ remote = "paid" => status = "completed"
        BY <2>1, CompletedStandsForMoney
  <2>3. Learns(v, status) /\ UNCHANGED <<remote, paid>>
        BY <1>1 DEF LookUp
  <2>4. /\ (words' = words) \/ (words' = words \cup {v} /\ gateway \in {"esewa", "stripe"})
        /\ gateway = "stripe" /\ remote = "pending" => v \in words'
        BY <1>1 DEF LookUp
  <2> HIDE DEF status
  <2>5. status = "completed" => paid' \/ v \in words'
        BY <2>2, <2>3, <2>4 DEF MoneyIsThere
  <2>6. QED BY <2>2, <2>3, <2>4, <2>5, LearnsKeepsInv
<1>2. CASE CheckCallback(v)
  <2>1. gateway = "esewa" /\ remote \in Names /\ UNCHANGED <<remote, paid>>
        BY <1>2 DEF CheckCallback, Learns, GatewayTypeOK, ApprovedAtPayPal
  <2>2. CASE Learns(v, StatusMap[gateway][remote]) /\ UNCHANGED words
    <3> DEFINE status == StatusMap[gateway][remote]
    <3>1. /\ status \in Statuses \ {"none"}
          /\ status = "completed" => remote \in {"paid", "refunded"}
          /\ remote = "paid" => status = "completed"
          BY <2>1, CompletedStandsForMoney
    <3>2. Learns(v, status)
          BY <2>2
    <3> HIDE DEF status
    <3>3. status = "completed" => paid'
          BY <2>1, <3>1 DEF MoneyIsThere
    <3>4. QED BY <2>1, <2>2, <3>1, <3>2, <3>3, LearnsKeepsInv
  <2>3. CASE \E status \in {"completed", "pending", "refunded", "failed", "cancelled"} :
                Learns(v, status) /\ words' = words \cup {v}
    <3>1. PICK status \in {"completed", "pending", "refunded", "failed", "cancelled"} :
                  Learns(v, status) /\ words' = words \cup {v}
          BY <2>3
    <3>2. status \in Statuses \ {"none"} /\ v \in words'
          BY <3>1 DEF Statuses
    <3>3. QED BY <2>1, <3>1, <3>2, LearnsKeepsInv
  <2>4. QED BY <1>2, <2>2, <2>3 DEF CheckCallback
<1>3. CASE Execute(v)
      BY <1>3, LearnsKeepsInv DEF Execute, Statuses
<1>4. CASE CommitStatus(v)
  <2>1. /\ GatewayTypeOK' /\ MoneyIsThere' /\ ApprovedAtPayPal'
        /\ NothingBeforeRow' /\ WordsBelieved'
        BY <1>4
        DEF CommitStatus, GatewayTypeOK, Statuses, MoneyIsThere, ApprovedAtPayPal,
            NothingBeforeRow, WordsBelieved
  <2>2. (~together => OneInProgress)'
        BY <1>4 DEF CommitStatus, GatewayTypeOK, OneInProgress
  <2>3. (~together => LaterAnswers)'
        BY <1>4 DEF CommitStatus, GatewayTypeOK, OneInProgress, LaterAnswers
  <2>4. CompletedIsPaid'
        BY <1>4 DEF CommitStatus, GatewayTypeOK, CompletedIsPaid
  <2>5. QED BY <2>1, <2>2, <2>3, <2>4
<1>5. CASE LoseAnswer(v)
  <2>1. /\ GatewayTypeOK' /\ MoneyIsThere' /\ ApprovedAtPayPal'
        /\ NothingBeforeRow' /\ WordsBelieved'
        BY <1>5
        DEF LoseAnswer, GatewayTypeOK, Statuses, MoneyIsThere, ApprovedAtPayPal,
            NothingBeforeRow, WordsBelieved
  <2>2. CompletedIsPaid' /\ (~together => OneInProgress /\ LaterAnswers)'
        BY <1>5 DEF LoseAnswer, GatewayTypeOK, CompletedIsPaid, OneInProgress, LaterAnswers
  <2>3. QED BY <2>1, <2>2
<1>6. QED BY <1>1, <1>2, <1>3, <1>4, <1>5

LEMMA GatewayNextInv == GatewayInv /\ [GatewayNext]_gatewayVars => GatewayInv'
<1> SUFFICES ASSUME GatewayInv, [GatewayNext]_gatewayVars
             PROVE  GatewayInv'
    OBVIOUS
<1>1. CASE CreateRemote \/ RefuseRemote \/ StoreTransaction
  <2>1. GatewayTypeOK'
        BY <1>1
        DEF CreateRemote, RefuseRemote, StoreTransaction, GatewayInv, GatewayTypeOK, Names,
            Statuses
  <2>2. MoneyIsThere' /\ ApprovedAtPayPal' /\ NothingBeforeRow'
        BY <1>1
        DEF CreateRemote, RefuseRemote, StoreTransaction, GatewayInv, MoneyIsThere,
            ApprovedAtPayPal, NothingBeforeRow
  <2>3. CompletedIsPaid' /\ WordsBelieved' /\ (~together => OneInProgress /\ LaterAnswers)'
        BY <1>1
        DEF CreateRemote, RefuseRemote, StoreTransaction, GatewayInv, CompletedIsPaid,
            WordsBelieved, OneInProgress, LaterAnswers
  <2>4. QED BY <2>1, <2>2, <2>3 DEF GatewayInv
<1>2. CASE Pay \/ Cancel \/ ExpireRemote \/ RefundRemote
      BY <1>2, BecomesKeepsInv DEF Pay, Cancel, ExpireRemote, RefundRemote, Names
<1>3. CASE UNCHANGED gatewayVars
      BY <1>3
      DEF gatewayVars, GatewayInv, GatewayTypeOK, MoneyIsThere, ApprovedAtPayPal,
          NothingBeforeRow, CompletedIsPaid, WordsBelieved, OneInProgress, LaterAnswers
<1>4. QED BY <1>1, <1>2, <1>3, VerificationKeepsInv DEF GatewayNext

-----------------------------------------------------------------------------

\* A row is completed only while the gateway has, or has had, the customer's money, and
\* only a refund or overlapping verifications change it back, but for what eSewa's
\* callback or Stripe's complete session was believed (the initiate_payment and
\* verify_payment of the four services).
THEOREM RowsFollowMoney == GatewaySpec => RowFollowsMoney
<1> DEFINE Follows == /\ row' = "completed" => paid \/ unproven'
                      /\ row = "completed" /\ row' # "completed" =>
                            remote = "refunded" \/ together \/ unproven \/ unproven'
                      /\ unproven' => gateway \in {"esewa", "stripe"}
<1>1. ASSUME GatewayInv, GatewayNext
      PROVE  Follows
  <2>1. ASSUME NEW v \in Verifications, CommitStatus(v)
        PROVE  Follows
    <3>2. row' = "completed" => paid \/ unproven'
          BY <1>1, <2>1 DEF CommitStatus, GatewayInv, CompletedIsPaid
    <3>3. row = "completed" /\ row' # "completed" =>
              remote = "refunded" \/ together \/ unproven \/ unproven'
          BY <1>1, <2>1 DEF CommitStatus, GatewayInv, LaterAnswers
    <3>4. unproven' => gateway \in {"esewa", "stripe"}
          BY <1>1, <2>1 DEF CommitStatus, GatewayInv, WordsBelieved
    <3>5. QED BY <3>2, <3>3, <3>4
  <2>2. CASE CreateRemote \/ RefuseRemote \/ StoreTransaction
        BY <1>1, <2>2
        DEF CreateRemote, RefuseRemote, StoreTransaction, GatewayInv, CompletedIsPaid,
            WordsBelieved
  <2>3. CASE UNCHANGED <<row, unproven>>
        BY <1>1, <2>3 DEF GatewayInv, CompletedIsPaid, WordsBelieved
  <2>4. QED BY <1>1, <2>1, <2>2, <2>3
            DEF GatewayNext, Pay, Cancel, ExpireRemote, RefundRemote, Becomes, LookUp,
                CheckCallback, Execute, Learns, LoseAnswer
<1>2. QED BY <1>1, GatewayInitInv, GatewayNextInv, PTL DEF GatewaySpec, RowFollowsMoney

(**************************************************************************)
(* Proofs about ApiClients, for any number of requests in flight.         *)
(*                                                                        *)
(* The stored refresh token is in force, or one exchange has replaced it  *)
(* and is about to store the new pair: at most one exchange is under way, *)
(* since it sets the flag of its tab and every other refused request      *)
(* queues behind it, and what is sent again carries tokens of the last    *)
(* exchange. So no exchange is denied, and nobody is logged out, unless   *)
(* an excuse has been noted.                                              *)
(**************************************************************************)

Held == {"fresh", "stale", "none"}
PairType == [access : Held, refresh : Held]
SendType ==
    [at : {"idle", "sent", "refused", "queued", "exchange", "exchanged", "denied"},
     tokens : PairType, again : BOOLEAN, clears : BOOLEAN]

\* Every variable has its type.
ClientTypeOK ==
    /\ client \in {"web", "mobile"}
    /\ storage \in PairType
    /\ send \in [Sends -> SendType]
    /\ excused \in BOOLEAN

\* What the mobile client sends again takes the tokens away when it fails.
AgainClears == \A q \in Sends : client = "mobile" /\ send[q].again => send[q].clears

\* The exchange that is going on: there is one, with the token that is in force, and
\* the flag of its tab is set unless a page is being opened.
OneExchange == \A x, y \in Sends : Exchanging(x) /\ Exchanging(y) => x = y
NobodyDenied == \A x \in Sends : send[x].at # "denied"
ExchangeIsFresh == \A x \in Sends : Exchanging(x) => send[x].tokens.refresh = "fresh"
ExchangeIsFlagged == \A x \in Sends : Exchanging(x) /\ send[x].again => Place(x) \in refreshing

\* The stored token is in force until it has been exchanged.
StoredIsFresh ==
    /\ storage.refresh # "none"
    /\ storage.refresh = "fresh" \/ \E x \in Sends : send[x].at = "exchanged"

Undisturbed ==
    /\ OneExchange
    /\ NobodyDenied
    /\ ExchangeIsFresh
    /\ ExchangeIsFlagged
    /\ StoredIsFresh

ClientInv ==
    /\ ClientTypeOK
    /\ AgainClears
    /\ ~excused => Undisturbed

-----------------------------------------------------------------------------

LEMMA PairFacts ==
    /\ NoTokens \in PairType /\ FreshTokens \in PairType
    /\ NoTokens.refresh = "none" /\ FreshTokens.refresh = "fresh"
    /\ \A p \in PairType : OldPair(p) \in PairType
    /\ \A p \in PairType : [p EXCEPT !.access = Old(@)] \in PairType
    /\ \A p \in PairType : [p EXCEPT !.access = Old(@)].refresh = p.refresh
    /\ \A p \in PairType : OldPair(p).refresh = "none" <=> p.refresh = "none"
    /\ \A t \in Held : [NoTokens EXCEPT !.access = t] \in PairType
    /\ \A t \in Held : [NoTokens EXCEPT !.refresh = t] \in PairType
    /\ \A t \in Held : [NoTokens EXCEPT !.refresh = t].refresh = t
BY DEF PairType, Held, NoTokens, FreshTokens, OldPair, Old

LEMMA SendFacts ==
    /\ Unsent \in SendType /\ Unsent.at = "idle" /\ ~Unsent.again
    /\ \A s \in SendType : \A p \in PairType :
          /\ [s EXCEPT !.tokens = p] \in SendType
          /\ [s EXCEPT !.tokens = p].tokens = p
          /\ [s EXCEPT !.tokens = p].at = s.at
          /\ [s EXCEPT !.tokens = p].again = s.again
          /\ [s EXCEPT !.tokens = p].clears = s.clears
    /\ \A s \in SendType :
          /\ [s EXCEPT !.clears = TRUE] \in SendType
          /\ [s EXCEPT !.clears = TRUE].at = s.at
          /\ [s EXCEPT !.clears = TRUE].again = s.again
          /\ [s EXCEPT !.clears = TRUE].tokens = s.tokens
BY PairFacts DEF SendType, Unsent

LEMMA ClientInitInv == ClientInit => ClientInv
<1> SUFFICES ASSUME ClientInit PROVE ClientInv
    OBVIOUS
<1>1. \A q \in Sends : send[q] = Unsent
      BY DEF ClientInit
<1>2. ClientTypeOK
      BY PairFacts, SendFacts DEF ClientInit, ClientTypeOK
<1>3. AgainClears /\ Undisturbed
      BY <1>1, PairFacts, SendFacts
      DEF ClientInit, AgainClears, Undisturbed, OneExchange, NobodyDenied, ExchangeIsFresh,
          ExchangeIsFlagged, StoredIsFresh, Exchanging
<1>4. QED BY <1>2, <1>3 DEF ClientInv

\* A step that starts no exchange, ends none and keeps the stored refresh token, of
\* requests that are not being exchanged.
Quiet(R) ==
    /\ R \subseteq Sends
    /\ client' = client /\ storage' \in PairType
    /\ excused' \in BOOLEAN /\ (excused => excused')
    /\ send' \in [Sends -> SendType]
    /\ AgainClears'
    /\ ~excused' => storage'.refresh = storage.refresh
    /\ ~excused' => \A x \in Sends : Exchanging(x) /\ send[x].again =>
                        (Place(x) \in refreshing => Place(x) \in refreshing')
    /\ \A x \in R : ~Exchanging(x)
    /\ \A x \in R : send'[x].at \notin {"exchange", "exchanged", "denied"}
    /\ \A x \in Sends \ R : /\ send'[x].at = send[x].at
                            /\ send'[x].again = send[x].again
                            /\ send'[x].tokens.refresh = send[x].tokens.refresh

LEMMA QuietStepKeepsInv ==
    ASSUME ClientInv, NEW R, Quiet(R)
    PROVE  ClientInv'
<1> USE DEF Quiet
<1>1. ClientTypeOK'
      BY DEF ClientInv, ClientTypeOK
<1>2. ASSUME ~excused'
      PROVE  Undisturbed'
  <2>1. Undisturbed
        BY <1>2 DEF ClientInv, ClientTypeOK
  <2>2. \A x \in Sends : Exchanging(x)' => x \notin R /\ Exchanging(x)
        BY DEF Exchanging
  <2>3. OneExchange' /\ NobodyDenied' /\ ExchangeIsFresh'
        BY <2>1, <2>2 DEF Undisturbed, OneExchange, NobodyDenied, ExchangeIsFresh
  <2>4. ExchangeIsFlagged'
        BY <1>2, <2>1, <2>2 DEF Undisturbed, ExchangeIsFlagged, Place
  <2>5. StoredIsFresh'
        BY <1>2, <2>1 DEF Undisturbed, StoredIsFresh, Exchanging
  <2>6. QED BY <2>3, <2>4, <2>5 DEF Undisturbed
<1>3. QED BY <1>1, <1>2 DEF ClientInv

\* What the steps make of a request.
LEMMA StepFacts ==
    ASSUME ClientTypeOK, NEW q \in Sends, NEW p \in PairType
    PROVE  /\ SentNow(q, p) \in SendType /\ SentNow(q, p).at = "sent"
           /\ SentNow(q, p).again = send[q].again /\ SentNow(q, p).clears = send[q].clears
           /\ ExchangeOf(q) \in SendType /\ ExchangeOf(q).at = "exchange"
           /\ ExchangeOf(q).tokens.refresh = storage.refresh
           /\ ExchangeOf(q).again = send[q].again /\ ExchangeOf(q).clears = send[q].clears
<1>1. send[q] \in SendType /\ p.access \in Held /\ storage.refresh \in Held
      BY DEF ClientTypeOK, PairType
<1> DEFINE a == [NoTokens EXCEPT !.access = p.access]
           b == [NoTokens EXCEPT !.refresh = storage.refresh]
<1>2. a \in PairType /\ b \in PairType /\ b.refresh = storage.refresh
      BY <1>1, PairFacts
<1>3. /\ SentNow(q, p) = [send[q] EXCEPT !.at = "sent", !.tokens = a]
      /\ ExchangeOf(q) = [send[q] EXCEPT !.at = "exchange", !.tokens = b]
      BY DEF SentNow, ExchangeOf
<1> HIDE DEF a, b
<1>4. QED BY <1>1, <1>2, <1>3 DEF SendType

\* One request begins to exchange the token, if nothing else goes on with it.
LEMMA SendingKeepsInv ==
    ASSUME ClientInv, NEW q \in Sends, ~Exchanging(q),
           client' = client, storage' = storage, storage.refresh # "none",
           excused' \in BOOLEAN, excused => excused',
           ~excused' => \A x \in Sends : ~Exchanging(x),
           send' = [send EXCEPT ![q] = send'[q]],
           send'[q] \in SendType, send'[q].at = "exchange",
           send'[q].tokens.refresh = storage.refresh,
           client = "mobile" /\ send'[q].again => send'[q].clears,
           send'[q].again => Place(q) \in refreshing'
    PROVE  ClientInv'
<1>1. ClientTypeOK'
      BY DEF ClientInv, ClientTypeOK
<1>2. AgainClears'
      BY DEF ClientInv, ClientTypeOK, AgainClears
<1>3. ASSUME ~excused'
      PROVE  Undisturbed'
  <2>1. Undisturbed /\ (\A x \in Sends : ~Exchanging(x)) /\ storage.refresh = "fresh"
        BY <1>3 DEF ClientInv, ClientTypeOK, Undisturbed, StoredIsFresh, Exchanging
  <2>2. \A x \in Sends : x # q => send'[x] = send[x]
        BY DEF ClientInv, ClientTypeOK
  <2>3. \A x \in Sends : Exchanging(x)' => x = q
        BY <2>1, <2>2 DEF Exchanging
  <2>4. OneExchange' /\ ExchangeIsFresh'
        BY <2>1, <2>3 DEF OneExchange, ExchangeIsFresh
  <2>5. NobodyDenied'
        BY <2>1, <2>2 DEF Undisturbed, NobodyDenied
  <2>6. ExchangeIsFlagged'
        BY <2>3 DEF ExchangeIsFlagged, Place
  <2>7. StoredIsFresh'
        BY <2>1 DEF StoredIsFresh
  <2>8. QED BY <2>4, <2>5, <2>6, <2>7 DEF Undisturbed
<1>4. QED BY <1>1, <1>2, <1>3 DEF ClientInv

LEMMA SendRequestKeepsInv ==
    ASSUME ClientInv, NEW q \in Sends, SendRequest(q)
    PROVE  ClientInv'
<1>1. /\ ClientTypeOK /\ AgainClears
      /\ send[q] = Unsent /\ send' = [send EXCEPT ![q] = SentNow(q, storage)]
      /\ UNCHANGED <<client, storage, refreshing, excused>>
      BY DEF SendRequest, ClientInv
<1>2. /\ SentNow(q, storage) \in SendType /\ SentNow(q, storage).at = "sent"
      /\ ~SentNow(q, storage).again
      BY <1>1, StepFacts, SendFacts DEF ClientTypeOK
<1>3. AgainClears' /\ send' \in [Sends -> SendType]
      BY <1>1, <1>2 DEF ClientTypeOK, AgainClears
<1>4. ~Exchanging(q)
      BY <1>1, SendFacts DEF Exchanging
<1>5. \A x \in Sends \ {q} : send'[x] = send[x]
      BY <1>1 DEF ClientTypeOK
<1>6. send'[q] = SentNow(q, storage)
      BY <1>1 DEF ClientTypeOK
<1>7. Quiet({q})
      BY <1>1, <1>2, <1>3, <1>4, <1>5, <1>6 DEF ClientTypeOK, Quiet
<1>8. QED BY <1>7, QuietStepKeepsInv

LEMMA RestoreSessionKeepsInv ==
    ASSUME ClientInv, NEW q \in Sends, RestoreSession(q)
    PROVE  ClientInv'
<1>1. /\ ClientTypeOK /\ AgainClears
      /\ send[q] = Unsent /\ storage.refresh # "none"
      /\ UNCHANGED <<client, storage, refreshing>>
      /\ excused' = (excused \/ (client = "web" /\ \E x \in Sends : Exchanging(x)))
      BY DEF RestoreSession, ClientInv
<1>2. ~Exchanging(q) /\ storage \in PairType
      BY <1>1, SendFacts DEF Exchanging, ClientTypeOK
<1> DEFINE a == [ExchangeOf(q) EXCEPT !.clears = TRUE]
           b == [SentNow(q, storage) EXCEPT !.clears = TRUE]
<1>3. /\ a \in SendType /\ a.at = "exchange" /\ ~a.again /\ a.tokens.refresh = storage.refresh
      /\ b \in SendType /\ b.at = "sent" /\ ~b.again
      BY <1>1, <1>2, StepFacts, SendFacts DEF ClientTypeOK
<1>4. CASE client = "web"
  <2>1. send' = [send EXCEPT ![q] = a]
        BY <1>4 DEF RestoreSession
  <2> HIDE DEF a
  <2>2. send'[q] = a /\ excused' \in BOOLEAN
        BY <1>1, <2>1 DEF ClientTypeOK
  <2>3. ~excused' => \A x \in Sends : ~Exchanging(x)
        BY <1>1, <1>4
  <2>4. QED BY <1>1, <1>2, <1>3, <2>1, <2>2, <2>3, SendingKeepsInv
<1>5. CASE client # "web"
  <2>1. send' = [send EXCEPT ![q] = b]
        BY <1>5 DEF RestoreSession
  <2> HIDE DEF b
  <2>2. AgainClears' /\ send' \in [Sends -> SendType] /\ send'[q] = b
        BY <1>1, <1>3, <2>1 DEF ClientTypeOK, AgainClears
  <2>3. \A x \in Sends \ {q} : send'[x] = send[x]
        BY <1>1, <2>1 DEF ClientTypeOK
  <2>4. excused' = excused
        BY <1>1, <1>5 DEF ClientTypeOK
  <2>5. Quiet({q})
        BY <1>1, <1>2, <1>3, <2>2, <2>3, <2>4 DEF ClientTypeOK, Quiet
  <2>6. QED BY <2>5, QuietStepKeepsInv
<1>6. QED BY <1>4, <1>5

\* A request that is not being exchanged ends; the tokens may go if there is an excuse.
LEMMA EndingKeepsInv ==
    ASSUME ClientInv, NEW q \in Sends, ~Exchanging(q),
           client' = client, send' = [send EXCEPT ![q] = Unsent],
           storage' \in {storage, NoTokens},
           excused' \in BOOLEAN, excused => excused',
           ~excused' => storage' = storage /\ refreshing' = refreshing
    PROVE  ClientInv'
<1>1. ClientTypeOK /\ AgainClears
      BY DEF ClientInv
<1>2. send' \in [Sends -> SendType] /\ send'[q] = Unsent
      BY <1>1, SendFacts DEF ClientTypeOK
<1>3. \A x \in Sends \ {q} : send'[x] = send[x]
      BY <1>1 DEF ClientTypeOK
<1>4. AgainClears'
      BY <1>1, <1>2, <1>3, SendFacts DEF AgainClears
<1>5. storage' \in PairType
      BY <1>1, PairFacts DEF ClientTypeOK
<1>6. Quiet({q})
      BY <1>2, <1>3, <1>4, <1>5, SendFacts DEF Quiet
<1>7. QED BY <1>6, QuietStepKeepsInv

LEMMA ErrorKeepsInv ==
    ASSUME ClientInv, NEW q \in Sends, ~Exchanging(q),
           client' = client, Errs(q), excused' = Costs(q)
    PROVE  ClientInv'
<1>1. send[q].clears \in BOOLEAN /\ send[q].again \in BOOLEAN
      BY DEF ClientInv, ClientTypeOK, SendType
<1>2. excused' \in BOOLEAN /\ (excused => excused')
      BY <1>1 DEF ClientInv, Costs, ClientTypeOK
<1>3. ~excused' => ~send[q].clears /\ (client = "mobile" => ~send[q].again)
      BY DEF ClientInv, Costs, AgainClears
<1>4. ~excused' => storage' = storage /\ refreshing' = refreshing
      BY <1>3 DEF Errs
<1>5. QED BY <1>2, <1>4, EndingKeepsInv DEF Errs

LEMMA AnsweredKeepsInv ==
    ASSUME ClientInv, NEW q \in Sends, Answered(q)
    PROVE  ClientInv'
<1>1. /\ ClientTypeOK /\ AgainClears
      /\ ~Exchanging(q)
      /\ client' = client
      BY DEF Answered, ClientInv, Exchanging
<1>2. CASE send[q].tokens.access = "fresh"
  <2>1. CASE Ends(q) /\ UNCHANGED excused
        BY <1>1, <2>1, EndingKeepsInv DEF Ends, ClientTypeOK
  <2>2. CASE Errs(q) /\ excused' = Costs(q)
        BY <1>1, <2>2, ErrorKeepsInv
  <2>3. QED BY <1>2, <2>1, <2>2 DEF Answered
<1>3. CASE send[q].tokens.access # "fresh"
  <2> DEFINE a == [send[q] EXCEPT !.at = "refused", !.tokens = NoTokens]
  <2>1. a \in SendType /\ a.at = "refused" /\ a.again = send[q].again /\ a.clears = send[q].clears
    <3>1. NoTokens \in PairType /\ send[q] \in SendType
          BY <1>1, PairFacts DEF ClientTypeOK
    <3>2. QED BY <3>1 DEF SendType
  <2>2. send' = [send EXCEPT ![q] = a] /\ UNCHANGED <<storage, refreshing, excused>>
        BY <1>3 DEF Answered
  <2> HIDE DEF a
  <2>3. send' \in [Sends -> SendType] /\ send'[q] = a /\ \A x \in Sends \ {q} : send'[x] = send[x]
        BY <1>1, <2>1, <2>2 DEF ClientTypeOK
  <2>4. AgainClears'
        BY <1>1, <2>1, <2>2, <2>3 DEF AgainClears
  <2>5. Quiet({q})
        BY <1>1, <2>1, <2>2, <2>3, <2>4 DEF Quiet, ClientTypeOK
  <2>6. QED BY <2>5, QuietStepKeepsInv
<1>4. QED BY <1>2, <1>3

\* If nothing excuses it, an exchange that the flag does not keep from beginning is the
\* only one.
LEMMA StartExchangeKeepsInv ==
    ASSUME ClientInv, NEW q \in Sends, StartExchange(q)
    PROVE  ClientInv'
<1> DEFINE a == [ExchangeOf(q) EXCEPT !.again = TRUE, !.clears = (client = "mobile" \/ @)]
<1>1. /\ ClientTypeOK /\ ~Exchanging(q) /\ Place(q) \notin refreshing
      /\ storage \in PairType /\ storage.refresh # "none"
      /\ UNCHANGED <<client, storage>>
      /\ refreshing' = refreshing \cup {Place(q)}
      /\ send' = [send EXCEPT ![q] = a]
      /\ excused' = (excused \/ \E x \in Sends : Unseen(x, q))
      BY DEF StartExchange, ClientInv, ClientTypeOK, Exchanging
<1>2. /\ a \in SendType /\ a.at = "exchange" /\ a.tokens.refresh = storage.refresh
      /\ client = "mobile" => a.clears
  <2> DEFINE e == ExchangeOf(q)
  <2>1. e \in SendType /\ e.at = "exchange" /\ e.tokens.refresh = storage.refresh
        BY <1>1, StepFacts
  <2>2. a = [e EXCEPT !.again = TRUE, !.clears = (client = "mobile" \/ @)]
        OBVIOUS
  <2> HIDE DEF a, e
  <2>3. e.clears \in BOOLEAN /\ (client = "mobile" \/ e.clears) \in BOOLEAN
        BY <2>1 DEF SendType
  <2> QED BY <2>1, <2>2, <2>3 DEF SendType
<1> HIDE DEF a
<1>3. send'[q] = a /\ excused' \in BOOLEAN
      BY <1>1 DEF ClientTypeOK
<1>4. ASSUME ~excused', NEW x \in Sends, Exchanging(x)
      PROVE  FALSE
  <2>1. ~excused /\ ~Unseen(x, q)
        BY <1>1, <1>4
  <2>2. Place(x) = Place(q) /\ send[x].again
        BY <1>4, <2>1 DEF Unseen
  <2>3. Place(x) \in refreshing
        BY <1>4, <2>1, <2>2 DEF ClientInv, Undisturbed, ExchangeIsFlagged
  <2>4. QED BY <1>1, <2>2, <2>3
<1>5. QED BY <1>1, <1>2, <1>3, <1>4, SendingKeepsInv

LEMMA RefusalKeepsInv ==
    ASSUME ClientInv, NEW q \in Sends,
           NothingToExchange(q) \/ WaitForExchange(q) \/ SecondRefusal(q)
    PROVE  ClientInv'
<1>1. /\ ClientTypeOK /\ AgainClears
      /\ ~Exchanging(q)
      /\ client' = client
      BY DEF NothingToExchange, WaitForExchange, SecondRefusal, ClientInv, Exchanging
<1>2. CASE NothingToExchange(q)
  <2>1. excused
        BY <1>2 DEF NothingToExchange, ClientInv, Undisturbed, StoredIsFresh
  <2>2. QED BY <1>1, <1>2, <2>1, EndingKeepsInv DEF NothingToExchange
<1>3. CASE Errs(q) /\ excused' = Costs(q)
      BY <1>1, <1>3, ErrorKeepsInv
<1>4. CASE send' = [send EXCEPT ![q].at = "queued"] /\ UNCHANGED <<storage, refreshing, excused>>
  <2> DEFINE a == [send[q] EXCEPT !.at = "queued"]
  <2>1. a \in SendType /\ a.at = "queued" /\ a.again = send[q].again /\ a.clears = send[q].clears
        BY <1>1 DEF ClientTypeOK, SendType
  <2>2. send' = [send EXCEPT ![q] = a]
        BY <1>4
  <2> HIDE DEF a
  <2>3. send' \in [Sends -> SendType] /\ send'[q] = a /\ \A x \in Sends \ {q} : send'[x] = send[x]
        BY <1>1, <2>1, <2>2 DEF ClientTypeOK
  <2>4. AgainClears'
        BY <1>1, <2>1, <2>3 DEF AgainClears
  <2>5. Quiet({q})
        BY <1>1, <1>4, <2>1, <2>3, <2>4 DEF Quiet, ClientTypeOK
  <2>6. QED BY <2>5, QuietStepKeepsInv
<1>5. QED BY <1>2, <1>3, <1>4 DEF WaitForExchange, SecondRefusal

\* With an excuse only the types count.
LEMMA ExcusedKeepsInv ==
    ASSUME ClientInv, NEW q \in Sends,
           client' = client, storage' \in PairType, excused' = TRUE,
           send' \in [Sends -> SendType],
           \A x \in Sends : /\ send'[x].again => send[x].again
                            /\ send'[x].clears = send[x].clears \/ send'[x] = Unsent
    PROVE  ClientInv'
<1>1. \A x \in Sends : send'[x] = Unsent => ~send'[x].again
      BY SendFacts
<1>2. QED BY <1>1 DEF ClientInv, ClientTypeOK, AgainClears

LEMMA ExchangeKeepsInv ==
    ASSUME ClientInv, NEW q \in Sends, Exchange(q)
    PROVE  ClientInv'
<1>1. /\ ClientTypeOK /\ AgainClears
      /\ storage \in PairType /\ storage.refresh \in Held
      /\ \A x \in Sends : send[x] \in SendType /\ send[x].tokens \in PairType
      /\ send[q].at = "exchange" /\ Exchanging(q)
      /\ UNCHANGED <<client, refreshing>>
      BY DEF Exchange, ClientInv, ClientTypeOK, SendType, PairType, Exchanging
<1>2. ASSUME ~excused
      PROVE  /\ send[q].tokens.refresh = "fresh"
             /\ \A x \in Sends : Exchanging(x) => x = q
      BY <1>1, <1>2 DEF ClientInv, Undisturbed, OneExchange, ExchangeIsFresh
<1> DEFINE denied == [send[q] EXCEPT !.at = "denied", !.tokens = NoTokens]
           heard == [send[q] EXCEPT !.at = "exchanged", !.tokens = FreshTokens]
           older(x) == [send[x] EXCEPT !.tokens = OldPair(@)]
<1>3. /\ denied \in SendType /\ denied.again = send[q].again /\ denied.clears = send[q].clears
      /\ heard \in SendType /\ heard.again = send[q].again /\ heard.clears = send[q].clears
      /\ heard.at = "exchanged" /\ heard.tokens.refresh = "fresh"
  <2>1. NoTokens \in PairType /\ FreshTokens \in PairType /\ FreshTokens.refresh = "fresh"
        BY PairFacts
  <2>2. QED BY <1>1, <2>1 DEF SendType
<1>4. \A x \in Sends : /\ older(x) \in SendType /\ older(x).at = send[x].at
                       /\ older(x).again = send[x].again /\ older(x).clears = send[x].clears
  <2>1. \A x \in Sends : OldPair(send[x].tokens) \in PairType
        BY <1>1, PairFacts
  <2>2. QED BY <1>1, <2>1 DEF SendType
<1>5. OldPair(storage) \in PairType /\ (storage.refresh # "none" => OldPair(storage).refresh # "none")
      BY <1>1, PairFacts
<1>6. ASSUME NEW hears \in BOOLEAN,
             send' = [x \in Sends |->
                         IF x # q THEN older(x)
                         ELSE [send[q] EXCEPT !.at = IF hears THEN "exchanged" ELSE "denied",
                                              !.tokens = IF hears THEN FreshTokens ELSE NoTokens]],
             excused' = (excused \/ ~hears), storage' = OldPair(storage)
      PROVE  ClientInv'
  <2>1. \A x \in Sends : x # q => send'[x] = older(x)
        BY <1>6
  <2>2. send'[q] = IF hears THEN heard ELSE denied
        BY <1>6
  <2>3. send' = [x \in Sends |-> send'[x]]
        BY <1>6
  <2> HIDE DEF denied, heard, older
  <2>4. send' \in [Sends -> SendType]
        BY <1>3, <1>4, <2>1, <2>2, <2>3
  <2>5. \A x \in Sends : send'[x].again = send[x].again /\ send'[x].clears = send[x].clears
        BY <1>3, <1>4, <2>1, <2>2
  <2>6. CASE excused'
        BY <1>1, <1>5, <1>6, <2>4, <2>5, <2>6, ExcusedKeepsInv
  <2>7. CASE ~excused'
    <3>1. ~excused /\ hears /\ send'[q] = heard
          BY <1>6, <2>2, <2>7
    <3>2. \A x \in Sends : Exchanging(x)' => x = q
          BY <1>2, <1>4, <2>1, <3>1 DEF Exchanging
    <3>3. OneExchange' /\ ExchangeIsFresh'
          BY <1>3, <3>1, <3>2 DEF OneExchange, ExchangeIsFresh
    <3>4. NobodyDenied'
          BY <1>3, <1>4, <2>1, <3>1 DEF ClientInv, Undisturbed, NobodyDenied
    <3>5. ExchangeIsFlagged'
          BY <1>1, <2>5, <3>1, <3>2 DEF ClientInv, Undisturbed, ExchangeIsFlagged, Place
    <3>6. StoredIsFresh'
          BY <1>3, <1>5, <1>6, <3>1 DEF ClientInv, Undisturbed, StoredIsFresh
    <3>7. ClientTypeOK' /\ AgainClears'
          BY <1>1, <1>5, <1>6, <2>4, <2>5 DEF ClientTypeOK, AgainClears
    <3>8. QED BY <3>3, <3>4, <3>5, <3>6, <3>7 DEF ClientInv, Undisturbed
  <2>8. QED BY <2>6, <2>7
<1>7. ASSUME send' = [send EXCEPT ![q] = denied],
             storage' = storage,
             excused' = TRUE
      PROVE  ClientInv'
  <2> HIDE DEF denied
  <2>1. send' \in [Sends -> SendType]
        BY <1>1, <1>3, <1>7 DEF ClientTypeOK
  <2>2. \A x \in Sends : send'[x].again = send[x].again /\ send'[x].clears = send[x].clears
        BY <1>1, <1>3, <1>7 DEF ClientTypeOK
  <2>3. QED BY <1>1, <1>7, <2>1, <2>2, ExcusedKeepsInv
<1>8. CASE send[q].tokens.refresh # "fresh" /\ send' = [send EXCEPT ![q] = denied]
           /\ UNCHANGED <<storage, excused>>
      BY <1>1, <1>2, <1>7, <1>8 DEF ClientTypeOK
<1>9. QED BY <1>6, <1>7, <1>8 DEF Exchange

\* The pair of an exchange is stored: it is in force, unless there is an excuse.
LEMMA ExchangedKeepsInv ==
    ASSUME ClientInv, NEW q \in Sends, Exchanged(q)
    PROVE  ClientInv'
<1> DEFINE answered == Queue(q) \cup {q}
           pair == send[q].tokens
<1>1. /\ ClientTypeOK /\ AgainClears
      /\ send[q].at = "exchanged" /\ Exchanging(q)
      /\ storage' = pair
      /\ send' = [x \in Sends |-> IF x \in answered THEN SentNow(x, pair) ELSE send[x]]
      /\ UNCHANGED <<client, excused>>
      BY DEF Exchanged, ClientInv, Exchanging
<1>2. pair \in PairType
      BY <1>1 DEF ClientTypeOK, SendType
<1> HIDE DEF answered, pair
<1>3. \A x \in Sends : /\ SentNow(x, pair) \in SendType
                       /\ SentNow(x, pair).at = "sent"
                       /\ SentNow(x, pair).again = send[x].again
                       /\ SentNow(x, pair).clears = send[x].clears
      BY <1>1, <1>2, StepFacts
<1>4. send' \in [Sends -> SendType]
      BY <1>1, <1>3 DEF ClientTypeOK
<1>5. \A x \in Sends : send'[x].again = send[x].again /\ send'[x].clears = send[x].clears
      BY <1>1, <1>3
<1>6. ClientTypeOK' /\ AgainClears'
      BY <1>1, <1>2, <1>4, <1>5 DEF ClientTypeOK, AgainClears
<1>7. ASSUME ~excused'
      PROVE  Undisturbed'
  <2>1. Undisturbed
        BY <1>1, <1>7 DEF ClientInv
  <2>2. q \in answered
        BY DEF answered
  <2>3. ASSUME NEW x \in Sends, Exchanging(x)'
        PROVE  FALSE
    <3>1. x \notin answered /\ send'[x] = send[x]
          BY <1>1, <1>3, <2>3 DEF Exchanging
    <3>2. QED BY <1>1, <2>1, <2>2, <2>3, <3>1 DEF Exchanging, Undisturbed, OneExchange
  <2>4. OneExchange' /\ ExchangeIsFresh' /\ ExchangeIsFlagged'
        BY <2>3 DEF OneExchange, ExchangeIsFresh, ExchangeIsFlagged
  <2>5. NobodyDenied'
        BY <1>1, <1>3, <2>1 DEF Undisturbed, NobodyDenied
  <2>6. pair.refresh = "fresh"
        BY <1>1, <2>1 DEF Undisturbed, ExchangeIsFresh, pair
  <2>7. StoredIsFresh'
        BY <1>1, <2>6 DEF StoredIsFresh
  <2>8. QED BY <2>4, <2>5, <2>7 DEF Undisturbed
<1>8. QED BY <1>6, <1>7 DEF ClientInv

LEMMA DeniedKeepsInv ==
    ASSUME ClientInv, NEW q \in Sends, Denied(q)
    PROVE  ClientInv'
<1> DEFINE answered == Queue(q) \cup {q}
<1>1. /\ ClientTypeOK
      /\ send[q].at = "denied"
      /\ storage' = NoTokens
      /\ send' = [x \in Sends |-> IF x \in answered THEN Unsent ELSE send[x]]
      /\ UNCHANGED <<client, excused>>
      BY DEF Denied, ClientInv
<1>2. excused
      BY <1>1 DEF ClientInv, ClientTypeOK, Undisturbed, NobodyDenied
<1> HIDE DEF answered
<1>3. Unsent \in SendType /\ ~Unsent.again /\ NoTokens \in PairType
      BY SendFacts, PairFacts
<1>4. send' \in [Sends -> SendType]
      BY <1>1, <1>3 DEF ClientTypeOK
<1>5. \A x \in Sends : send'[x] = send[x] \/ send'[x] = Unsent
      BY <1>1
<1>6. excused' = TRUE
      BY <1>1, <1>2 DEF ClientTypeOK
<1>7. \A x \in Sends : /\ send'[x].again => send[x].again
                       /\ send'[x].clears = send[x].clears \/ send'[x] = Unsent
      BY <1>3, <1>5
<1>8. QED BY <1>1, <1>3, <1>4, <1>6, <1>7, ExcusedKeepsInv

\* What the server makes of the pairs of the requests in progress.
LEMMA OlderFacts ==
    ASSUME ClientTypeOK
    PROVE  \A x \in Sends :
              LET s == [send[x] EXCEPT !.tokens = OldPair(@)] IN
              /\ s \in SendType /\ s.at = send[x].at
              /\ s.again = send[x].again /\ s.clears = send[x].clears
<1> SUFFICES ASSUME NEW x \in Sends
             PROVE  LET s == [send[x] EXCEPT !.tokens = OldPair(@)] IN
                    /\ s \in SendType /\ s.at = send[x].at
                    /\ s.again = send[x].again /\ s.clears = send[x].clears
    OBVIOUS
<1>1. send[x] \in SendType /\ send[x].tokens \in PairType
      BY DEF ClientTypeOK, SendType
<1>2. OldPair(send[x].tokens) \in PairType
      BY <1>1, PairFacts
<1>3. QED BY <1>1, <1>2 DEF SendType

LEMMA UserKeepsInv ==
    ASSUME ClientInv, LogIn \/ LogOut \/ AccessExpires
    PROVE  ClientInv'
<1>1. ClientTypeOK /\ AgainClears /\ client' = client /\ storage \in PairType
      BY DEF ClientInv, ClientTypeOK, LogIn, LogOut, AccessExpires
<1>2. CASE LogIn \/ LogOut
  <2> DEFINE older(x) == [send[x] EXCEPT !.tokens = OldPair(@)]
  <2>1. send' = [x \in Sends |-> older(x)] /\ storage' \in PairType
        BY <1>2, PairFacts DEF LogIn, LogOut
  <2>2. \A x \in Sends : /\ older(x) \in SendType /\ older(x).at = send[x].at
                         /\ older(x).again = send[x].again /\ older(x).clears = send[x].clears
        BY <1>1, OlderFacts
  <2> HIDE DEF older
  <2>3. send' \in [Sends -> SendType]
        BY <2>1, <2>2
  <2>4. \A x \in Sends : /\ send'[x].at = send[x].at
                         /\ send'[x].again = send[x].again /\ send'[x].clears = send[x].clears
        BY <2>1, <2>2
  <2>5. excused' \in BOOLEAN /\ (~excused' => \A x \in Sends : send[x] = Unsent)
        BY <1>2 DEF LogIn, LogOut
  <2>6. ClientTypeOK' /\ AgainClears'
        BY <1>1, <2>1, <2>3, <2>4, <2>5 DEF ClientTypeOK, AgainClears
  <2>7. ASSUME ~excused'
        PROVE  Undisturbed'
    <3>1. \A x \in Sends : send'[x].at = "idle"
          BY <2>4, <2>5, <2>7, SendFacts
    <3>2. storage' = FreshTokens
          BY <1>2, <2>7 DEF LogIn, LogOut
    <3>3. storage'.refresh = "fresh"
          BY <3>2, PairFacts
    <3>4. QED BY <3>1, <3>3 DEF Undisturbed, OneExchange, NobodyDenied, ExchangeIsFresh,
                    ExchangeIsFlagged, StoredIsFresh, Exchanging
  <2>8. QED BY <2>6, <2>7 DEF ClientInv
<1>3. CASE AccessExpires
  <2> DEFINE pair(x) == [send[x].tokens EXCEPT !.access = Old(@)]
             older(x) == [send[x] EXCEPT !.tokens = pair(x)]
  <2>1. /\ storage' = [storage EXCEPT !.access = Old(@)]
        /\ UNCHANGED <<refreshing, excused>>
        /\ send' = [x \in Sends |-> [send[x] EXCEPT !.tokens.access = Old(@)]]
        BY <1>3 DEF AccessExpires
  <2>2. \A x \in Sends : send[x] \in SendType /\ send[x].tokens \in PairType
        BY <1>1 DEF ClientTypeOK, SendType
  <2>3. \A x \in Sends : send'[x] = older(x)
        BY <2>1, <2>2 DEF SendType, PairType
  <2>4. \A x \in Sends : pair(x) \in PairType /\ pair(x).refresh = send[x].tokens.refresh
        BY <2>2, PairFacts
  <2> HIDE DEF pair
  <2>5. \A x \in Sends : /\ older(x) \in SendType /\ older(x).at = send[x].at
                         /\ older(x).again = send[x].again /\ older(x).clears = send[x].clears
                         /\ older(x).tokens = pair(x)
        BY <2>2, <2>4 DEF SendType
  <2> HIDE DEF older
  <2>6. send' \in [Sends -> SendType]
        BY <2>1, <2>3, <2>5
  <2>7. AgainClears'
        BY <1>1, <2>3, <2>5 DEF AgainClears
  <2>8. storage' \in PairType /\ storage'.refresh = storage.refresh
        BY <1>1, <2>1, PairFacts
  <2>9. Quiet({})
    <3>1. excused' \in BOOLEAN /\ refreshing' = refreshing /\ (excused => excused')
          BY <1>1, <2>1 DEF ClientTypeOK
    <3>2. \A x \in Sends \ {} : /\ send'[x].at = send[x].at
                                /\ send'[x].again = send[x].again
                                /\ send'[x].tokens.refresh = send[x].tokens.refresh
          BY <2>3, <2>4, <2>5
    <3>3. QED BY <1>1, <2>6, <2>7, <2>8, <3>1, <3>2 DEF Quiet
  <2>10. QED BY <2>9, QuietStepKeepsInv
<1>4. QED BY <1>2, <1>3

LEMMA ClientNextInv == ClientInv /\ [ClientNext]_clientVars => ClientInv'
<1> SUFFICES ASSUME ClientInv, [ClientNext]_clientVars
             PROVE  ClientInv'
    OBVIOUS
<1>1. ASSUME NEW q \in Sends, SendRequest(q) \/ RestoreSession(q) \/ Proceeds(q)
      PROVE  ClientInv'
      BY <1>1, SendRequestKeepsInv, RestoreSessionKeepsInv, AnsweredKeepsInv,
         StartExchangeKeepsInv, RefusalKeepsInv, ExchangeKeepsInv, ExchangedKeepsInv,
         DeniedKeepsInv DEF Proceeds
<1>2. CASE BecomeCalm \/ UNCHANGED clientVars
      BY <1>2
      DEF BecomeCalm, clientVars, ClientInv, ClientTypeOK, AgainClears, Undisturbed,
          OneExchange, NobodyDenied, ExchangeIsFresh, ExchangeIsFlagged, StoredIsFresh,
          Exchanging, Place
<1>3. QED BY <1>1, <1>2, UserKeepsInv DEF ClientNext

\* A client keeps its refresh token until an error, a logout, or two exchanges that do
\* not know of each other: however many requests of one tab are refused together, in
\* whatever order they are answered.
THEOREM SessionAlwaysSurvives == ClientSpec => []SessionSurvives
<1>1. ClientInv => SessionSurvives
      BY DEF ClientInv, ClientTypeOK, Undisturbed, StoredIsFresh, SessionSurvives
<1>2. QED BY <1>1, ClientInitInv, ClientNextInv, PTL DEF ClientSpec

(**************************************************************************)
(* Proofs about LoginLockout, for any number of attempts, any threshold   *)
(* and any length of the lockout.                                         *)
(*                                                                        *)
(* A request begins only when too few failures are counted or the newest  *)
(* of them is about to leave the window, so that the recent failures and  *)
(* the requests in progress, each of which may still fail, one whose own  *)
(* failure is not recorded yet twice, are together bounded. Until the next failure is recorded, every failure is at least *)
(* as old as the lockout lasts less what is left of the wait that was     *)
(* promised.                                                              *)
(**************************************************************************)

\* A set of numbers that is not empty has a least one.
LEMMA LeastNumber ==
    ASSUME NEW S \in SUBSET Nat, S # {}
    PROVE  \E x \in S : \A y \in S : x =< y
<1>1. PICK x \in S : \A y \in S : ~(<<y, x>> \in OpToRel(<, Nat))
      BY NatLessThanWellFounded, WFMin, Zenon
<1>2. ASSUME NEW y \in S, ~(x =< y)
      PROVE  FALSE
  <2>1. y < x /\ <<y, x>> \in Nat \X Nat
        BY <1>2
  <2>2. <<y, x>> \in {ss \in Nat \X Nat : ss[1] < ss[2]}
        BY <2>1
  <2>3. QED BY <1>1, <1>2, <2>2 DEF OpToRel
<1>3. QED BY <1>2

LEMMA LeastIsMin ==
    ASSUME NEW S \in SUBSET Nat, S # {}
    PROVE  Min(S) \in S /\ \A y \in S : Min(S) =< y
BY LeastNumber DEF Min

AttemptStates == {"idle", "wrong", "right", "code", "proved", "error"}

\* Every variable has its type.
LockoutTypeOK ==
    /\ failures \in [Ages -> Nat]
    /\ attempt \in [Attempts -> AttemptStates]
    /\ ticket \in BOOLEAN
    /\ promise \in Int

InProgress == {r \in Attempts : attempt[r] # "idle"}

\* Those whose own failure is not recorded yet.
Wrong == {r \in Attempts : attempt[r] = "wrong"}

\* Whoever is in progress may still fail, and whoever is wrong may fail twice.
RoomLeft ==
    Recent + Cardinality(InProgress) + Cardinality(Wrong)
        <= MaxAttempts - 1 + 2 * Cardinality(Attempts)

\* Once somebody has been told to wait no failure is younger than the wait says.
PromiseCovers ==
    promise >= 0 => \A a \in Ages : failures[a] > 0 => a >= Duration - promise

LockoutInv ==
    /\ LockoutTypeOK
    /\ RoomLeft
    /\ PromiseCovers

RecentAges == 0..(Duration - 1)

-----------------------------------------------------------------------------

LEMMA AgesFinite ==
    /\ IsFiniteSet(Ages) /\ Ages \subseteq Nat
    /\ IsFiniteSet(RecentAges) /\ RecentAges \subseteq Ages
    /\ 0 \in RecentAges /\ Duration \in Ages
BY LockoutAssumption, FS_Interval DEF Ages, RecentAges

LEMMA FailuresMembership ==
    ASSUME NEW A, NEW x
    PROVE  x \in FailuresOf(A) <=> \E a \in A : \E n \in 1..failures[a] : x = <<a, n>>
BY DEF FailuresOf

LEMMA FailuresFinite ==
    ASSUME failures \in [Ages -> Nat], NEW A \in SUBSET Ages
    PROVE  IsFiniteSet(FailuresOf(A)) /\ Cardinality(FailuresOf(A)) \in Nat
<1> DEFINE f == [a \in A |-> {a} \X (1..failures[a])]
           S == {{a} \X (1..failures[a]) : a \in A}
<1>1. IsFiniteSet(A)
      BY AgesFinite, FS_Subset
<1>2. f \in Surjection(A, S)
      BY DEF Surjection
<1>3. IsFiniteSet(S)
      BY <1>1, <1>2, FS_Surjection
<1>4. ASSUME NEW a \in A
      PROVE  IsFiniteSet({a} \X (1..failures[a]))
  <2> DEFINE n == failures[a]
  <2>1. n \in Int
        BY AgesFinite
  <2> HIDE DEF n
  <2>2. IsFiniteSet(1..n)
        BY <2>1, FS_Interval
  <2>3. IsFiniteSet({a}) /\ IsFiniteSet(1..failures[a])
        BY <2>2, FS_Singleton DEF n
  <2>4. QED BY <2>3, FS_Product
<1>5. IsFiniteSet(UNION S)
      BY <1>3, <1>4, FS_UNION
<1>6. QED BY <1>5, FS_CardinalityType DEF FailuresOf

\* Who finds the account open finds few failures within the duration.
LEMMA OpenMeansFew ==
    ASSUME LockoutTypeOK, ~LockedOut
    PROVE  Recent <= MaxAttempts - 1
<1>1. IsFiniteSet(FailuresOf(Ages)) /\ Counted \in Nat /\ Recent \in Nat
  <2>1. Ages \in SUBSET Ages /\ RecentAges \in SUBSET Ages /\ failures \in [Ages -> Nat]
        BY AgesFinite DEF LockoutTypeOK
  <2>2. QED BY <2>1, FailuresFinite DEF Counted, Recent, RecentAges
<1>2. CASE Counted < MaxAttempts
  <2>1. FailuresOf(RecentAges) \subseteq FailuresOf(Ages)
    <3>1. ASSUME NEW x \in FailuresOf(RecentAges)
          PROVE  x \in FailuresOf(Ages)
      <4>1. PICK a \in RecentAges : \E n \in 1..failures[a] : x = <<a, n>>
            BY FailuresMembership
      <4>2. a \in Ages
            BY AgesFinite
      <4>3. QED BY <4>1, <4>2, FailuresMembership
    <3>2. QED BY <3>1
  <2>2. Recent <= Counted
    <3>1. FailuresOf(RecentAges) \in SUBSET FailuresOf(Ages)
          BY <2>1
    <3>2. Cardinality(FailuresOf(RecentAges)) <= Cardinality(FailuresOf(Ages))
          BY <1>1, <3>1, FS_Subset
    <3>3. QED BY <3>2 DEF Recent, Counted, RecentAges
  <2>3. QED BY <1>1, <1>2, <2>2, LockoutAssumption
<1>3. CASE Counted >= MaxAttempts
  <2> DEFINE S == {a \in Ages : failures[a] > 0}
  <2>1. FailuresOf(Ages) # {}
        BY <1>1, <1>3, LockoutAssumption, FS_EmptySet DEF Counted
  <2>2. S # {} /\ S \in SUBSET Nat
    <3>1. PICK x \in FailuresOf(Ages) : TRUE
          BY <2>1
    <3>2. PICK a \in Ages : \E n \in 1..failures[a] : x = <<a, n>>
          BY <3>1, FailuresMembership
    <3>3. failures[a] \in Nat /\ failures[a] > 0
          BY <3>2 DEF LockoutTypeOK
    <3>4. QED BY <3>3, AgesFinite
  <2>3. Newest \in S /\ \A a \in S : Newest =< a
        BY <2>2, LeastIsMin DEF Newest
  <2>4. Newest >= Duration /\ Newest \in Nat
        BY <1>3, <2>2, <2>3, LockoutAssumption DEF LockedOut
  <2>5. \A a \in RecentAges : failures[a] = 0
    <3>1. SUFFICES ASSUME NEW a \in RecentAges, failures[a] # 0 PROVE FALSE
          OBVIOUS
    <3>2. a \in Ages /\ a < Duration /\ a \in Nat /\ failures[a] \in Nat
          BY AgesFinite, LockoutAssumption DEF RecentAges, LockoutTypeOK
    <3>3. Newest =< a
          BY <2>3, <3>1, <3>2
    <3>4. QED BY <2>4, <3>2, <3>3, LockoutAssumption
  <2>6. FailuresOf(RecentAges) = {}
    <3>1. \A a \in RecentAges : 1..failures[a] = {}
          BY <2>5
    <3>2. QED BY <3>1, FailuresMembership
  <2>7. Recent = 0
        BY <2>6, FS_EmptySet DEF Recent, RecentAges
  <2>8. QED BY <2>7, LockoutAssumption
<1>4. QED BY <1>1, <1>2, <1>3, LockoutAssumption

\* Who has waited finds the account open.
LEMMA WaitEnds ==
    ASSUME LockoutInv, promise = 0
    PROVE  ~LockedOut
<1> SUFFICES ASSUME Counted >= MaxAttempts, Duration - Newest > 0
             PROVE  FALSE
    BY DEF LockedOut
<1> DEFINE S == {a \in Ages : failures[a] > 0}
<1>1. IsFiniteSet(FailuresOf(Ages)) /\ Counted \in Nat
      BY AgesFinite, FailuresFinite DEF LockoutInv, LockoutTypeOK, Counted
<1>2. PICK x \in FailuresOf(Ages) : TRUE
      BY <1>1, LockoutAssumption, FS_EmptySet DEF Counted
<1>3. PICK a \in Ages : \E n \in 1..failures[a] : x = <<a, n>>
      BY <1>2, FailuresMembership
<1>4. a \in S
      BY <1>3 DEF LockoutInv, LockoutTypeOK
<1>5. Newest \in S
      BY <1>4, AgesFinite, LeastIsMin DEF Newest
<1>6. Newest \in Nat /\ Newest >= Duration
      BY <1>5, AgesFinite, LockoutAssumption DEF LockoutInv, PromiseCovers
<1>7. QED BY <1>6, LockoutAssumption

LEMMA ProgressFinite ==
    /\ IsFiniteSet(InProgress) /\ IsFiniteSet(Wrong)
    /\ Cardinality(InProgress) \in Nat /\ Cardinality(Wrong) \in Nat
    /\ Cardinality(Attempts) \in Nat
    /\ Cardinality(InProgress) <= Cardinality(Attempts)
    /\ Cardinality(Wrong) <= Cardinality(Attempts)
<1>1. InProgress \in SUBSET Attempts /\ Wrong \in SUBSET Attempts
      BY DEF InProgress, Wrong
<1>2. QED BY <1>1, AttemptsAssumption, FS_Subset, FS_CardinalityType

LEMMA RecentIsNat ==
    ASSUME LockoutTypeOK
    PROVE  IsFiniteSet(FailuresOf(RecentAges)) /\ Recent \in Nat
<1>1. RecentAges \in SUBSET Ages
      BY AgesFinite
<1>2. QED BY <1>1, FailuresFinite DEF LockoutTypeOK, Recent, RecentAges

LEMMA LockoutInitInv == LockoutInit => LockoutInv
<1> SUFFICES ASSUME LockoutInit PROVE LockoutInv
    OBVIOUS
<1>1. LockoutTypeOK
  <2>1. failures \in [Ages -> Nat]
        BY DEF LockoutInit
  <2>2. attempt \in [Attempts -> AttemptStates]
        BY DEF LockoutInit, AttemptStates
  <2>3. ticket \in BOOLEAN
        BY DEF LockoutInit
  <2>4. promise \in Int
        BY DEF LockoutInit
  <2>5. QED BY <2>1, <2>2, <2>3, <2>4 DEF LockoutTypeOK
<1>2. FailuresOf(RecentAges) = {}
  <2>1. \A a \in RecentAges : failures[a] = 0
        BY AgesFinite DEF LockoutInit
  <2>2. QED BY <2>1, FailuresMembership
<1>3. InProgress = {} /\ Wrong = {}
      BY DEF LockoutInit, InProgress, Wrong
<1>4. Recent = 0 /\ Cardinality(InProgress) = 0 /\ Cardinality(Wrong) = 0
      BY <1>2, <1>3, FS_EmptySet DEF Recent, RecentAges
<1>5. RoomLeft
      BY <1>4, ProgressFinite, LockoutAssumption DEF RoomLeft
<1>6. PromiseCovers
      BY DEF LockoutInit, PromiseCovers
<1>7. QED BY <1>1, <1>5, <1>6 DEF LockoutInv

\* An attempt begins when the account is open.
LEMMA TryKeepsInv ==
    ASSUME LockoutInv, NEW r \in Attempts, TryPassword(r) \/ TryCode(r)
    PROVE  LockoutInv'
<1>1. /\ LockoutTypeOK /\ ~LockedOut
      /\ UNCHANGED <<failures, ticket, promise>>
      /\ attempt' \in [Attempts -> AttemptStates]
      BY DEF LockoutInv, LockoutTypeOK, TryPassword, TryCode, AttemptStates
<1>2. LockoutTypeOK'
      BY <1>1 DEF LockoutTypeOK
<1>3. Recent <= MaxAttempts - 1 /\ Recent' = Recent /\ Recent \in Nat
      BY <1>1, OpenMeansFew, RecentIsNat DEF Recent, FailuresOf
<1>4. /\ Cardinality(InProgress)' \in Nat /\ Cardinality(InProgress)' <= Cardinality(Attempts)
      /\ Cardinality(Wrong)' \in Nat /\ Cardinality(Wrong)' <= Cardinality(Attempts)
  <2>1. InProgress' \in SUBSET Attempts /\ Wrong' \in SUBSET Attempts
        BY DEF InProgress, Wrong
  <2>2. QED BY <2>1, AttemptsAssumption, FS_Subset, FS_CardinalityType
<1>5. RoomLeft'
      BY <1>3, <1>4, ProgressFinite, LockoutAssumption DEF RoomLeft
<1>6. QED BY <1>1, <1>2, <1>5 DEF LockoutInv, PromiseCovers

\* Whoever records a failure has one less to record.
LEMMA RecordFailureKeepsInv ==
    ASSUME LockoutInv, NEW r \in Attempts, RecordFailure(r)
    PROVE  LockoutInv'
<1>1. /\ LockoutTypeOK
      /\ failures' = [failures EXCEPT ![0] = @ + 1]
      /\ promise' = -1 /\ ticket' = ticket
      BY DEF LockoutInv, RecordFailure
<1>a. PICK next \in {"idle", "error"} :
         /\ attempt' = [attempt EXCEPT ![r] = next]
         /\ (attempt[r] = "wrong") \/ (attempt[r] = "error" /\ next = "idle")
      BY DEF RecordFailure
<1> DEFINE k == failures[0] + 1
<1>2. k \in Nat /\ failures'[0] = k /\ \A a \in Ages \ {0} : failures'[a] = failures[a]
      BY <1>1, AgesFinite DEF LockoutTypeOK
<1>3. LockoutTypeOK' /\ PromiseCovers'
  <2>1. attempt' \in [Attempts -> AttemptStates]
        BY <1>1, <1>a DEF LockoutTypeOK, AttemptStates
  <2>2. QED BY <1>1, <2>1, AgesFinite DEF LockoutTypeOK, PromiseCovers
<1>4. FailuresOf(RecentAges)' = FailuresOf(RecentAges) \cup {<<0, k>>}
  <2>1. ASSUME NEW x, x \in FailuresOf(RecentAges)'
        PROVE  x \in FailuresOf(RecentAges) \cup {<<0, k>>}
    <3>1. PICK a \in RecentAges : \E n \in 1..failures'[a] : x = <<a, n>>
          BY <2>1 DEF FailuresOf, RecentAges
    <3>2. PICK n \in 1..failures'[a] : x = <<a, n>>
          BY <3>1
    <3>3. CASE a = 0 /\ n = k
          BY <3>2, <3>3
    <3>4. CASE ~(a = 0 /\ n = k)
      <4>1. n \in 1..failures[a]
        <5>1. failures[0] \in Nat /\ failures[a] \in Nat /\ n \in Nat
              BY <1>1, <3>2, AgesFinite DEF LockoutTypeOK
        <5>2. CASE a = 0
              BY <1>2, <3>2, <3>4, <5>1, <5>2
        <5>3. CASE a # 0
          <6>1. failures'[a] = failures[a]
                BY <1>2, <3>1, <5>3, AgesFinite
          <6>2. QED BY <3>2, <6>1
        <5>4. QED BY <5>2, <5>3
      <4>2. QED BY <3>2, <4>1, FailuresMembership
    <3>5. QED BY <3>3, <3>4
  <2>2. ASSUME NEW x, x \in FailuresOf(RecentAges) \cup {<<0, k>>}
        PROVE  x \in FailuresOf(RecentAges)'
    <3>1. CASE x = <<0, k>>
      <4>1. k \in 1..failures'[0] /\ 0 \in RecentAges
            BY <1>1, <1>2, AgesFinite DEF LockoutTypeOK
      <4>2. QED BY <3>1, <4>1 DEF FailuresOf, RecentAges
    <3>2. CASE x \in FailuresOf(RecentAges)
      <4>1. PICK a \in RecentAges : \E n \in 1..failures[a] : x = <<a, n>>
            BY <3>2, FailuresMembership
      <4>2. failures[a] \in Nat /\ failures'[a] \in Nat /\ failures[a] <= failures'[a]
            BY <1>1, <1>2, AgesFinite DEF LockoutTypeOK
      <4>3. \E n \in 1..failures'[a] : x = <<a, n>>
            BY <4>1, <4>2
      <4>4. QED BY <4>3 DEF FailuresOf, RecentAges
    <3>3. QED BY <2>2, <3>1, <3>2
  <2>3. QED BY <2>1, <2>2
<1>5. <<0, k>> \notin FailuresOf(RecentAges)
  <2>1. ~(k \in 1..failures[0])
        BY <1>1, AgesFinite DEF LockoutTypeOK
  <2>2. QED BY <2>1, FailuresMembership
<1> HIDE DEF k
<1>6. Recent' = Recent + 1 /\ Recent \in Nat
  <2>1. Cardinality(FailuresOf(RecentAges) \cup {<<0, k>>}) = Recent + 1
        BY <1>1, <1>5, RecentIsNat, FS_AddElement DEF Recent, RecentAges
  <2>2. Recent' = Cardinality(FailuresOf(RecentAges)')
        BY DEF Recent, RecentAges
  <2>3. QED BY <1>1, <1>4, <2>1, <2>2, RecentIsNat
<1>7. Cardinality(InProgress)' + Cardinality(Wrong)'
         <= Cardinality(InProgress) + Cardinality(Wrong) - 1
  <2>1. CASE attempt[r] = "wrong"
    <3>1. Wrong' = Wrong \ {r} /\ r \in Wrong /\ InProgress' \in SUBSET InProgress
          BY <1>1, <1>a, <2>1 DEF InProgress, Wrong, LockoutTypeOK
    <3>2. Cardinality(Wrong)' = Cardinality(Wrong) - 1
          BY <3>1, ProgressFinite, FS_RemoveElement
    <3>3. Cardinality(InProgress)' <= Cardinality(InProgress) /\ Cardinality(InProgress)' \in Nat
          BY <3>1, ProgressFinite, FS_Subset, FS_CardinalityType
    <3>4. QED BY <3>2, <3>3, ProgressFinite
  <2>2. CASE attempt[r] = "error"
    <3>1. InProgress' = InProgress \ {r} /\ r \in InProgress /\ Wrong' = Wrong
          BY <1>1, <1>a, <2>2 DEF InProgress, Wrong, LockoutTypeOK
    <3>2. Cardinality(InProgress)' = Cardinality(InProgress) - 1
          BY <3>1, ProgressFinite, FS_RemoveElement
    <3>3. QED BY <3>1, <3>2, ProgressFinite
  <2>3. QED BY <1>a, <2>1, <2>2
<1>b. Cardinality(InProgress)' \in Nat /\ Cardinality(Wrong)' \in Nat
  <2>1. InProgress' \in SUBSET Attempts /\ Wrong' \in SUBSET Attempts
        BY DEF InProgress, Wrong
  <2>2. QED BY <2>1, AttemptsAssumption, FS_Subset, FS_CardinalityType
<1>8. RoomLeft'
  <2>1. Recent + Cardinality(InProgress) + Cardinality(Wrong)
           <= MaxAttempts - 1 + 2 * Cardinality(Attempts)
        BY DEF LockoutInv, RoomLeft
  <2>2. Recent' + Cardinality(InProgress)' + Cardinality(Wrong)'
           <= MaxAttempts - 1 + 2 * Cardinality(Attempts)
        BY <1>6, <1>7, <1>b, <2>1, ProgressFinite, LockoutAssumption
  <2>3. QED BY <2>2 DEF RoomLeft
<1>9. QED BY <1>3, <1>8 DEF LockoutInv

\* Nobody new is in progress, and nothing is recorded.
LEMMA OtherStepsKeepInv ==
    ASSUME LockoutInv, UNCHANGED failures,
           attempt' \in [Attempts -> AttemptStates],
           InProgress' \subseteq InProgress, Wrong' \subseteq Wrong,
           ticket' \in BOOLEAN, promise' \in Int,
           promise' = promise \/ PromiseCovers'
    PROVE  LockoutInv'
<1>1. LockoutTypeOK'
      BY DEF LockoutInv, LockoutTypeOK
<1>2. Recent' = Recent /\ Recent \in Nat
      BY RecentIsNat DEF LockoutInv, Recent, FailuresOf
<1>3. /\ Cardinality(InProgress)' <= Cardinality(InProgress) /\ Cardinality(InProgress)' \in Nat
      /\ Cardinality(Wrong)' <= Cardinality(Wrong) /\ Cardinality(Wrong)' \in Nat
  <2>1. InProgress' \in SUBSET InProgress /\ Wrong' \in SUBSET Wrong
        OBVIOUS
  <2>2. QED BY <2>1, ProgressFinite, FS_Subset, FS_CardinalityType
<1>4. RoomLeft'
      BY <1>2, <1>3, ProgressFinite, LockoutAssumption DEF LockoutInv, RoomLeft
<1>5. PromiseCovers'
      BY DEF LockoutInv, PromiseCovers
<1>6. QED BY <1>1, <1>4, <1>5 DEF LockoutInv

\* What the refusal says covers every failure.
LEMMA RefuseKeepsInv ==
    ASSUME LockoutInv, Refuse
    PROVE  LockoutInv'
<1> DEFINE S == {a \in Ages : failures[a] > 0}
<1>1. /\ LockoutTypeOK /\ Counted >= MaxAttempts
      /\ promise' = Duration - Newest
      /\ UNCHANGED <<failures, attempt, ticket>>
      BY DEF LockoutInv, Refuse, LockedOut
<1>2. IsFiniteSet(FailuresOf(Ages)) /\ Counted \in Nat
      BY <1>1, AgesFinite, FailuresFinite DEF LockoutTypeOK, Counted
<1>3. PICK x \in FailuresOf(Ages) : TRUE
      BY <1>1, <1>2, LockoutAssumption, FS_EmptySet DEF Counted
<1>4. PICK b \in Ages : \E n \in 1..failures[b] : x = <<b, n>>
      BY <1>3, FailuresMembership
<1>5. b \in S
      BY <1>1, <1>4 DEF LockoutTypeOK
<1>6. Newest \in S /\ \A a \in S : Newest =< a
      BY <1>5, AgesFinite, LeastIsMin DEF Newest
<1>7. Newest \in Nat /\ promise' \in Int
      BY <1>1, <1>6, AgesFinite, LockoutAssumption
<1>8. \A a \in Ages : failures[a] > 0 => a >= Duration - (Duration - Newest)
      BY <1>6, <1>7, AgesFinite, LockoutAssumption
<1>9. PromiseCovers'
      BY <1>1, <1>8 DEF PromiseCovers
<1>10. QED BY <1>1, <1>7, <1>9, OtherStepsKeepInv DEF LockoutTypeOK, InProgress, Wrong

\* Failures grow older and never more.
LEMMA GrowOlderKeepsInv ==
    ASSUME LockoutInv, GrowOlder
    PROVE  LockoutInv'
<1>1. /\ LockoutTypeOK
      /\ failures' = [a \in Ages |-> IF a = 0 THEN 0 ELSE failures[a - 1]]
      /\ promise' = IF promise > 0 THEN promise - 1 ELSE promise
      /\ UNCHANGED <<attempt, ticket>>
      BY DEF LockoutInv, GrowOlder
<1>2. \A a \in Ages : a # 0 => a - 1 \in Ages
      BY LockoutAssumption DEF Ages
<1>3. LockoutTypeOK'
      BY <1>1, <1>2 DEF LockoutTypeOK
<1>4. PromiseCovers'
  <2> SUFFICES ASSUME promise' >= 0, NEW a \in Ages, failures'[a] > 0
               PROVE  a >= Duration - promise'
      BY DEF PromiseCovers
  <2>1. a # 0 /\ failures[a - 1] > 0 /\ a - 1 \in Ages
        BY <1>1, <1>2
  <2>2. promise >= 0 /\ promise \in Int /\ a \in Nat
        BY <1>1, AgesFinite DEF LockoutTypeOK
  <2>3. a - 1 >= Duration - promise
        BY <2>1, <2>2 DEF LockoutInv, PromiseCovers
  <2>4. QED BY <1>1, <2>2, <2>3, LockoutAssumption DEF Ages
<1>5. Recent' <= Recent /\ Recent' \in Nat /\ Recent \in Nat
  <2> DEFINE now == FailuresOf(RecentAges)
             then == FailuresOf(RecentAges)'
             g == [x \in then |-> <<x[1] - 1, x[2]>>]
  <2>1. ASSUME NEW x \in then
        PROVE  /\ x = <<x[1], x[2]>> /\ x[1] \in Nat
               /\ <<x[1] - 1, x[2]>> \in now
    <3>1. PICK a \in RecentAges : \E n \in 1..failures'[a] : x = <<a, n>>
          BY DEF FailuresOf, RecentAges
    <3>2. PICK n \in 1..failures'[a] : x = <<a, n>>
          BY <3>1
    <3>3. a \in Ages /\ a \in Nat /\ a # 0 /\ failures'[a] = failures[a - 1]
          BY <1>1, <3>2, AgesFinite
    <3>4. a - 1 \in RecentAges
          BY <3>3, LockoutAssumption DEF RecentAges
    <3>5. <<a - 1, n>> \in now
          BY <3>2, <3>3, <3>4, FailuresMembership
    <3>6. x[1] = a /\ x[2] = n
          BY <3>2
    <3>7. QED BY <3>2, <3>3, <3>5, <3>6
  <2>2. g \in [then -> now]
        BY <2>1
  <2>3. \A x, y \in then : g[x] = g[y] => x = y
    <3>1. SUFFICES ASSUME NEW x \in then, NEW y \in then, g[x] = g[y]
                   PROVE  x = y
          OBVIOUS
    <3>2. x[1] - 1 = y[1] - 1 /\ x[2] = y[2]
          BY <3>1
    <3>3. x[1] = y[1]
      <4>1. x[1] \in Nat /\ y[1] \in Nat
            BY <2>1
      <4>2. QED BY <3>2, <4>1
    <3>4. QED BY <2>1, <3>2, <3>3
  <2> HIDE DEF now, then, g
  <2>4. g \in Injection(then, now)
        BY <2>2, <2>3 DEF Injection, IsInjective
  <2>5. IsFiniteSet(now) /\ Recent \in Nat
        BY <1>1, RecentIsNat DEF now
  <2>6. IsFiniteSet(then) /\ Cardinality(then) <= Cardinality(now)
        BY <2>4, <2>5, FS_Injection
  <2>7. Recent' = Cardinality(then) /\ Recent = Cardinality(now)
        BY DEF Recent, RecentAges, now, then
  <2>8. QED BY <2>5, <2>6, <2>7, FS_CardinalityType
<1>6. InProgress' = InProgress /\ Wrong' = Wrong
      BY <1>1 DEF InProgress, Wrong
<1>7. RoomLeft'
      BY <1>5, <1>6, ProgressFinite, LockoutAssumption DEF LockoutInv, RoomLeft
<1>8. QED BY <1>3, <1>4, <1>7 DEF LockoutInv

LEMMA LockoutNextInv == LockoutInv /\ [LockoutNext]_lockoutVars => LockoutInv'
<1> SUFFICES ASSUME LockoutInv, [LockoutNext]_lockoutVars
             PROVE  LockoutInv'
    OBVIOUS
<1>1. ASSUME NEW r \in Attempts,
             AskForCode(r) \/ RecordSuccess(r) \/ RecordCode(r) \/ GiveUp(r)
      PROVE  LockoutInv'
  <2>1. /\ attempt[r] # "idle" /\ UNCHANGED <<failures, promise>> /\ ticket' \in BOOLEAN
        /\ promise \in Int
        /\ attempt' \in [Attempts -> AttemptStates]
        /\ \A x \in Attempts \ {r} : attempt'[x] = attempt[x]
        /\ attempt'[r] # "wrong"
        BY <1>1 DEF AskForCode, RecordSuccess, RecordCode, GiveUp, LockoutInv, LockoutTypeOK,
                    AttemptStates
  <2>2. InProgress' \subseteq InProgress /\ Wrong' \subseteq Wrong
        BY <2>1 DEF InProgress, Wrong
  <2>3. QED BY <2>1, <2>2, OtherStepsKeepInv
<1>2. CASE TicketExpires \/ UNCHANGED lockoutVars
      BY <1>2, OtherStepsKeepInv
      DEF TicketExpires, lockoutVars, LockoutInv, LockoutTypeOK, InProgress, Wrong
<1>3. QED BY <1>1, <1>2, TryKeepsInv, RecordFailureKeepsInv, RefuseKeepsInv,
             GrowOlderKeepsInv DEF LockoutNext

\* Within a lockout's duration an account fails at most as often as the limit says and
\* twice more for every request that can be in progress.
THEOREM FailuresStayFew == LockoutSpec => []FewFailuresPerWindow
<1>1. LockoutInv => FewFailuresPerWindow
  <2>1. SUFFICES ASSUME LockoutInv PROVE FewFailuresPerWindow
        OBVIOUS
  <2>2. Recent \in Nat
        BY <2>1, RecentIsNat DEF LockoutInv
  <2>3. QED BY <2>1, <2>2, ProgressFinite, LockoutAssumption
            DEF LockoutInv, RoomLeft, FewFailuresPerWindow
<1>2. QED BY <1>1, LockoutInitInv, LockoutNextInv, PTL DEF LockoutSpec

\* Who waits for as long as the last refusal said finds the account open.
THEOREM PromisesAreKept == LockoutSpec => []PromiseKept
<1>1. LockoutInv => PromiseKept
      BY WaitEnds DEF PromiseKept
<1>2. QED BY <1>1, LockoutInitInv, LockoutNextInv, PTL DEF LockoutSpec

(**************************************************************************)
(* Proofs about SlotGeneration, for any rules, exceptions, windows and    *)
(* requests, any length of the day, and a clock that is put forward once   *)
(* and back once.                                                         *)
(*                                                                        *)
(* The slots of a rule on a day form a grid that begins with the rule;    *)
(* what the loop cuts from a window that begins between slots is the part *)
(* of the grid in the window. Unless something has mixed them up, rules   *)
(* of one weekday follow one another, and what there is while a rule is   *)
(* in force is on its grid, so that a new slot is there already or is     *)
(* apart from all others. A grid has no slot across the place where two   *)
(* windows meet, which is why they compose.                               *)
(**************************************************************************)

\* The beginning and the end of a rule on day d.
OpensAt(r, d) == d * DayLength + r.start
ClosesAt(r, d) == d * DayLength + r.end

IsFor(i, d) == rule[i] # NoRule /\ rule[i].day = d % 7

\* Where the slots of a rule begin.
Starts(r, d) ==
    {t \in Int : \E n \in Nat : t = OpensAt(r, d) + n * r.duration /\ t + r.duration <= ClosesAt(r, d)}

Grid(r, d) == {Period(t, t + r.duration) : t \in Starts(r, d)}

Whole(r, d) == Period(OpensAt(r, d), ClosesAt(r, d))

\* The rules of one weekday follow one another, and none is in force while the clock is
\* put forward.
RulesApart ==
    /\ \A i, j \in RuleIds : \A d \in Days :
          IsFor(i, d) /\ IsFor(j, d) /\ i # j =>
              ~Overlap(<<rule[i].start, rule[i].end>>, <<rule[j].start, rule[j].end>>)
    /\ \A i \in RuleIds, d \in Days : IsFor(i, d) => ~Skips(rule[i], d)

\* What there is in the time of a rule is one of its slots.
SlotsOnGrid ==
    \A p \in Made : \A i \in RuleIds, d \in Days :
        IsFor(i, d) /\ Overlap(p, Whole(rule[i], d)) => p \in Grid(rule[i], d)

MadeApart == \A p, q \in Made : p # q => ~Overlap(p, q)

SlotTypeOK ==
    /\ rule \in [RuleIds -> RuleChoices \cup {NoRule}]
    /\ mixed \in BOOLEAN
    /\ generation = [g \in Generations |-> generation[g]]
    /\ Made \subseteq Int \X Int

SlotInv ==
    /\ SlotTypeOK
    /\ ~mixed => RulesApart /\ SlotsOnGrid /\ MadeApart

-----------------------------------------------------------------------------
(* Multiples of a duration.                                                *)

LEMMA Multiples ==
    ASSUME NEW m \in Int, NEW n \in Int, NEW d \in Int, d > 0
    PROVE  /\ m * d \in Int
           /\ (m + n) * d = m * d + n * d
           /\ (m - n) * d = m * d - n * d
           /\ (m + 1) * d = m * d + d
           /\ m * d < n * d <=> m < n
           /\ m * d <= n * d <=> m <= n
<1>1. /\ m * d \in Int
      /\ (m + n) * d = m * d + n * d
      /\ (m - n) * d = m * d - n * d
      /\ (m + 1) * d = m * d + d
      OBVIOUS
<1>2. m < n => m * d < n * d
      OBVIOUS
<1>3. m <= n => m * d <= n * d
      OBVIOUS
<1>4. m > n => m * d > n * d
      OBVIOUS
<1>5. m >= n => m * d >= n * d
      OBVIOUS
<1>6. QED BY <1>1, <1>2, <1>3, <1>4, <1>5

LEMMA Remainders ==
    ASSUME NEW x \in Int, NEW d \in Int, d > 0
    PROVE  /\ x \div d \in Int
           /\ (x \div d) * d <= x
           /\ x < (x \div d) * d + d
<1>1. x \div d \in Int /\ (x \div d) * d <= x /\ x < (x \div d + 1) * d
      OBVIOUS
<1>2. QED BY <1>1, Multiples

LEMMA Divided ==
    ASSUME NEW x \in Int, NEW d \in Int, d > 0, x % d = 0
    PROVE  \E m \in Int : x = m * d
OBVIOUS

\* The times of a rule on a day.
LEMMA RuleTimes ==
    ASSUME NEW r \in RuleChoices, NEW d \in Days
    PROVE  /\ r.duration \in Nat /\ r.duration > 0 /\ r.day \in 0..6 /\ r # NoRule
           /\ r.start \in Int /\ r.end \in Int /\ r.start < r.end
           /\ DayLength \in Nat /\ DayLength > 0 /\ d \in Nat /\ d * DayLength \in Int
           /\ OpensAt(r, d) = d * DayLength + r.start /\ OpensAt(r, d) \in Int
           /\ ClosesAt(r, d) = d * DayLength + r.end /\ ClosesAt(r, d) \in Int
           /\ OpensAt(r, d) < ClosesAt(r, d)
           /\ d * DayLength <= OpensAt(r, d) /\ ClosesAt(r, d) <= d * DayLength + DayLength
<1>1. /\ r \in [day : 0..6, start : 0..(DayLength - 1), end : 1..DayLength, duration : Nat \ {0}]
      /\ r.end > r.start
      BY RuleAssumption
<1>2. DayLength \in Nat /\ DayLength > 0 /\ d \in Nat
      BY DaysAssumption
<1>3. d * DayLength \in Int
      BY <1>2, Multiples
<1>4. NoRule.day = -1
      BY DEF NoRule
<1>5. r.day \in 0..6 /\ r.start \in 0..(DayLength - 1) /\ r.end \in 1..DayLength
      /\ r.duration \in Nat \ {0}
      BY <1>1
<1>6. r # NoRule
      BY <1>4, <1>5
<1>7. QED BY <1>1, <1>2, <1>3, <1>5, <1>6 DEF OpensAt, ClosesAt

\* Slots of one rule and day: one begins when the other has ended.
LEMMA StartsFollow ==
    ASSUME NEW r \in RuleChoices, NEW d \in Days, NEW s \in Starts(r, d), NEW t \in Starts(r, d),
           s < t
    PROVE  s \in Int /\ t \in Int /\ s + r.duration <= t
<1>1. PICK m \in Nat : s = OpensAt(r, d) + m * r.duration
      BY DEF Starts
<1>2. PICK n \in Nat : t = OpensAt(r, d) + n * r.duration
      BY DEF Starts
<1>3. r.duration \in Int /\ r.duration > 0 /\ OpensAt(r, d) \in Int /\ s \in Int /\ t \in Int
      BY RuleTimes DEF Starts
<1>4. m * r.duration < n * r.duration /\ m * r.duration \in Int /\ n * r.duration \in Int
      BY <1>1, <1>2, <1>3, Multiples
<1>5. m + 1 <= n
      BY <1>3, <1>4, Multiples
<1>6. (m + 1) * r.duration <= n * r.duration /\ (m + 1) * r.duration = m * r.duration + r.duration
      BY <1>3, <1>5, Multiples
<1>7. QED BY <1>1, <1>2, <1>3, <1>4, <1>6

-----------------------------------------------------------------------------
(* What the loop cuts.                                                     *)

LEMMA UtcIsInt ==
    ASSUME NEW t \in Int
    PROVE  Utc(t) \in Int
BY ShiftAssumption DEF Utc

LEMMA LocalIsInt ==
    ASSUME NEW u \in Int
    PROVE  Local(u) \in Int
BY ShiftAssumption DEF Local

\* The slots of a rule that lie in a window.
Within(r, d, window) ==
    {t \in Starts(r, d) : Local(window[1]) <= t /\ t + r.duration <= Local(window[2])}

LEMMA CutFromGrid ==
    ASSUME NEW r \in RuleChoices, NEW d \in Days, NEW window \in Int \X Int,
           OnGrid(window[1], r, d),
           NEW k \in 0..DayLength, From(r, d, window) + (k + 1) * r.duration <= To(r, d, window)
    PROVE  LET t == From(r, d, window) + k * r.duration IN
           /\ t \in Within(r, d, window)
           /\ t + r.duration = From(r, d, window) + (k + 1) * r.duration
<1> DEFINE b == OpensAt(r, d)
           e == ClosesAt(r, d)
           w == Local(window[1])
           z == Local(window[2])
           f == From(r, d, window)
           u == To(r, d, window)
           t == f + k * r.duration
<1>1. /\ r.duration \in Int /\ r.duration > 0 /\ b \in Int /\ e \in Int /\ w \in Int /\ z \in Int
      /\ k \in Int /\ k >= 0 /\ DayLength \in Nat
      BY RuleTimes, LocalIsInt
<1>2. f = (IF b > w THEN b ELSE w) /\ u = (IF e < z THEN e ELSE z)
      BY DEF From, To, Larger, Smaller, OpensAt, ClosesAt
<1>3. (w - b > 0 /\ w < e) => (w - b) % r.duration = 0
      BY DEF OnGrid, OpensAt, ClosesAt
<1> HIDE DEF b, e, w, z, f, u
<1>4. /\ f \in Int /\ k * r.duration \in Int /\ 0 <= k * r.duration
      /\ (k + 1) * r.duration = k * r.duration + r.duration
  <2>1. 0 * r.duration <= k * r.duration /\ 0 * r.duration = 0
        BY <1>1, Multiples
  <2>2. QED BY <1>1, <1>2, <2>1, Multiples
<1>5. /\ t \in Int /\ w <= t /\ b <= t /\ t + r.duration <= e /\ t + r.duration <= z
      /\ t + r.duration = f + (k + 1) * r.duration
  <2>1. f + (k + 1) * r.duration <= u
        BY DEF f, u
  <2>2. QED BY <1>1, <1>2, <1>4, <2>1
<1>6. \E n \in Nat : t = b + n * r.duration
  <2>1. CASE f = b
        BY <1>1, <2>1
  <2>2. CASE f # b
    <3>1. f = w /\ w - b > 0 /\ w < e
          BY <1>1, <1>2, <1>4, <1>5, <2>2
    <3>2. PICK m \in Int : w - b = m * r.duration
      <4>1. w - b \in Int /\ (w - b) % r.duration = 0
            BY <1>1, <1>3, <3>1
      <4>2. QED BY <1>1, <4>1, Divided
    <3>3. 0 * r.duration < m * r.duration /\ 0 * r.duration = 0
          BY <1>1, <3>1, <3>2, Multiples
    <3>4. m > 0
          BY <1>1, <3>3, Multiples
    <3>5. m + k \in Nat /\ (m + k) * r.duration = m * r.duration + k * r.duration
          BY <1>1, <3>4, Multiples
    <3>6. t = b + (m + k) * r.duration
          BY <1>1, <1>4, <3>1, <3>2, <3>5
    <3>7. QED BY <3>5, <3>6
  <2>3. QED BY <2>1, <2>2
<1>7. t \in Starts(r, d)
      BY <1>5, <1>6 DEF Starts, b, e
<1>8. QED BY <1>5, <1>7 DEF Within, w, z, f

LEMMA GridIsCut ==
    ASSUME NEW r \in RuleChoices, NEW d \in Days, NEW window \in Int \X Int,
           OnGrid(window[1], r, d), NEW t \in Within(r, d, window)
    PROVE  \E k \in 0..DayLength :
              /\ From(r, d, window) + (k + 1) * r.duration <= To(r, d, window)
              /\ t = From(r, d, window) + k * r.duration
              /\ t + r.duration = From(r, d, window) + (k + 1) * r.duration
<1> DEFINE b == OpensAt(r, d)
           e == ClosesAt(r, d)
           w == Local(window[1])
           z == Local(window[2])
           f == From(r, d, window)
           u == To(r, d, window)
<1>1. /\ r.duration \in Int /\ r.duration > 0 /\ b \in Int /\ e \in Int /\ w \in Int /\ z \in Int
      /\ DayLength \in Nat /\ e - b <= DayLength
      BY RuleTimes, LocalIsInt
<1>2. f = (IF b > w THEN b ELSE w) /\ u = (IF e < z THEN e ELSE z)
      BY DEF From, To, Larger, Smaller, OpensAt, ClosesAt
<1>3. (w - b > 0 /\ w < e) => (w - b) % r.duration = 0
      BY DEF OnGrid, OpensAt, ClosesAt
<1>4. /\ t \in Int /\ t + r.duration <= e /\ w <= t /\ t + r.duration <= z
      /\ \E n \in Nat : t = b + n * r.duration
      BY DEF Within, Starts
<1> HIDE DEF b, e, w, z, f, u
<1>5. PICK n \in Nat : t = b + n * r.duration
      BY <1>4
<1>6. \E k \in Nat : t = f + k * r.duration
  <2>1. CASE f = b
        BY <1>5, <2>1
  <2>2. CASE f # b
    <3>1. f = w /\ w - b > 0 /\ w < e
          BY <1>1, <1>2, <1>4, <2>2
    <3>2. PICK m \in Int : w - b = m * r.duration
      <4>1. w - b \in Int /\ (w - b) % r.duration = 0
            BY <1>1, <1>3, <3>1
      <4>2. QED BY <1>1, <4>1, Divided
    <3>3. m * r.duration <= n * r.duration /\ m * r.duration \in Int /\ n * r.duration \in Int
          BY <1>1, <1>4, <1>5, <3>2, Multiples
    <3>4. m <= n
          BY <1>1, <3>3, Multiples
    <3>5. n - m \in Nat /\ (n - m) * r.duration = n * r.duration - m * r.duration
          BY <1>1, <3>4, Multiples
    <3>6. t = f + (n - m) * r.duration
          BY <1>1, <1>5, <3>1, <3>2, <3>3, <3>5
    <3>7. QED BY <3>5, <3>6
  <2>3. QED BY <2>1, <2>2
<1>7. PICK k \in Nat : t = f + k * r.duration
      BY <1>6
<1>8. f \in Int /\ b <= f /\ k * r.duration \in Int /\ (k + 1) * r.duration = k * r.duration + r.duration
      BY <1>1, <1>2, Multiples
<1>9. k <= DayLength
  <2>1. k * r.duration <= DayLength
        BY <1>1, <1>4, <1>7, <1>8
  <2>2. k <= k * r.duration
    <3>1. k * 1 <= k * r.duration
          BY <1>1
    <3>2. QED BY <3>1
  <2>3. QED BY <1>1, <1>8, <2>1, <2>2
<1>10. QED BY <1>1, <1>2, <1>4, <1>7, <1>8, <1>9 DEF f, u

\* The slot of a turn that fits begins where the wall clock time says, also the first.
LEMMA PieceIsPeriod ==
    ASSUME NEW r \in RuleChoices, NEW d \in Days, NEW window \in Int \X Int,
           OnGrid(window[1], r, d),
           NEW k \in 0..DayLength, From(r, d, window) + (k + 1) * r.duration <= To(r, d, window)
    PROVE  Piece(r, d, window, k) = Period(From(r, d, window) + k * r.duration,
                                           From(r, d, window) + (k + 1) * r.duration)
<1> DEFINE b == OpensAt(r, d)
           e == ClosesAt(r, d)
           w == Local(window[1])
           f == From(r, d, window)
           u == To(r, d, window)
<1>1. /\ r.duration \in Int /\ r.duration > 0 /\ b \in Int /\ e \in Int /\ w \in Int
      /\ k \in Int /\ Local(window[2]) \in Int
      BY RuleTimes, LocalIsInt
<1>2. f = (IF b > w THEN b ELSE w) /\ f \in Int /\ u <= e /\ u \in Int
      BY <1>1 DEF From, To, Larger, Smaller, OpensAt, ClosesAt
<1>3. CASE k # 0
      BY <1>3 DEF Piece, Period
<1>4. CASE k = 0
  <2>1. k * r.duration = 0 /\ (k + 1) * r.duration = r.duration /\ f + k * r.duration = f
        BY <1>1, <1>2, <1>4
  <2>2. f < e
    <3>1. f + r.duration <= u
          BY <2>1
    <3>2. QED BY <1>1, <1>2, <3>1
  <2>3. Begin(r, d, window) = Utc(f)
    <3>1. CASE w > b
      <4>1. f = w
            BY <1>1, <1>2, <3>1
      <4>2. Utc(w) = window[1]
            BY <1>1, <2>2, <3>1, <4>1 DEF OnGrid, OpensAt, ClosesAt
      <4>3. QED BY <3>1, <4>1, <4>2 DEF Begin, OpensAt
    <3>2. CASE ~(w > b)
      <4>1. f = b
        <5>1. w <= b
              BY <1>1, <3>2
        <5>2. b > w \/ b = w
              BY <1>1, <5>1
        <5>3. f = (IF b > w THEN b ELSE w)
              BY <1>2
        <5> HIDE DEF b, w, f
        <5>4. QED BY <5>2, <5>3
      <4>2. QED BY <3>2, <4>1 DEF Begin, OpensAt
    <3>3. QED BY <3>1, <3>2
  <2>4. QED BY <1>4, <2>1, <2>3 DEF Piece, Period
<1>5. QED BY <1>3, <1>4

-----------------------------------------------------------------------------
(* The clock.                                                              *)

\* Not a time that is skipped when the clock is put forward.
Regular(t) == t \in Int /\ (Shift > 0 => t <= ForwardAt \/ t >= ForwardAt + Shift)

\* Two regular times are not exchanged, be it that the clock is put back between them.
LEMMA UtcKeepsOrder ==
    ASSUME NEW s, NEW t, Regular(s), Regular(t), s <= t
    PROVE  Utc(s) \in Int /\ Utc(t) \in Int /\ Utc(s) <= Utc(t)
<1>1. /\ s \in Int /\ t \in Int /\ ForwardAt \in Int /\ BackAt \in Int
      /\ Shift \in Int /\ Shift >= 0 /\ ForwardAt + Shift <= BackAt - Shift
      /\ Shift > 0 => s <= ForwardAt \/ s >= ForwardAt + Shift
      BY ShiftAssumption DEF Regular
<1>2. CASE Shift = 0
      BY <1>1, <1>2 DEF Utc
<1>3. CASE Shift > 0
      BY <1>1, <1>3 DEF Utc
<1>4. QED BY <1>1, <1>2, <1>3

\* The times of a rule are regular on the days on which it is not in force while the
\* clock is put forward.
LEMMA TimesAreRegular ==
    ASSUME NEW r \in RuleChoices, NEW d \in Days, ~Skips(r, d),
           NEW t \in Int, OpensAt(r, d) <= t, t <= ClosesAt(r, d)
    PROVE  Regular(t)
<1>1. /\ OpensAt(r, d) \in Int /\ ClosesAt(r, d) \in Int /\ ForwardAt \in Int /\ Shift \in Int
      BY RuleTimes, ShiftAssumption
<1>2. Shift > 0 => OpensAt(r, d) >= ForwardAt + Shift \/ ClosesAt(r, d) <= ForwardAt
      BY <1>1 DEF Skips, OpensAt, ClosesAt
<1>3. QED BY <1>1, <1>2 DEF Regular

-----------------------------------------------------------------------------
(* The slots of a rule on a day.                                           *)

\* A slot begins and ends while the rule is in force.
LEMMA StartsAreTimes ==
    ASSUME NEW r \in RuleChoices, NEW d \in Days, NEW t \in Starts(r, d)
    PROVE  /\ t \in Int /\ t + r.duration \in Int /\ t < t + r.duration
           /\ OpensAt(r, d) <= t /\ t + r.duration <= ClosesAt(r, d)
<1>1. PICK n \in Nat : t = OpensAt(r, d) + n * r.duration
      BY DEF Starts
<1>2. /\ r.duration \in Int /\ r.duration > 0 /\ OpensAt(r, d) \in Int /\ ClosesAt(r, d) \in Int
      /\ t \in Int /\ t + r.duration <= ClosesAt(r, d)
      BY RuleTimes DEF Starts
<1>3. 0 * r.duration <= n * r.duration /\ 0 * r.duration = 0 /\ n * r.duration \in Int
      BY <1>2, Multiples
<1>4. QED BY <1>1, <1>2, <1>3

LEMMA GridIsTyped ==
    ASSUME NEW r \in RuleChoices, NEW d \in Days, NEW p \in Grid(r, d)
    PROVE  p \in Int \X Int
<1>1. PICK t \in Starts(r, d) : p = Period(t, t + r.duration)
      BY DEF Grid
<1>2. QED BY <1>1, StartsAreTimes, UtcIsInt DEF Period

\* No two slots of a rule overlap.
LEMMA GridIsApart ==
    ASSUME NEW r \in RuleChoices, NEW d \in Days, ~Skips(r, d),
           NEW p \in Grid(r, d), NEW q \in Grid(r, d), p # q
    PROVE  ~Overlap(p, q)
<1>1. PICK s \in Starts(r, d) : p = Period(s, s + r.duration)
      BY DEF Grid
<1>2. PICK t \in Starts(r, d) : q = Period(t, t + r.duration)
      BY DEF Grid
<1>3. /\ s \in Int /\ s + r.duration \in Int /\ t \in Int /\ t + r.duration \in Int
      /\ Regular(s) /\ Regular(s + r.duration) /\ Regular(t) /\ Regular(t + r.duration)
  <2>1. OpensAt(r, d) \in Int /\ ClosesAt(r, d) \in Int
        BY RuleTimes
  <2>2. QED BY <2>1, StartsAreTimes, TimesAreRegular
<1>4. CASE s < t
  <2>1. Utc(s + r.duration) <= Utc(t) /\ Utc(s + r.duration) \in Int /\ Utc(t) \in Int
        BY <1>3, <1>4, StartsFollow, UtcKeepsOrder
  <2>2. QED BY <1>1, <1>2, <2>1 DEF Period, Overlap
<1>5. CASE t < s
  <2>1. Utc(t + r.duration) <= Utc(s) /\ Utc(t + r.duration) \in Int /\ Utc(s) \in Int
        BY <1>3, <1>5, StartsFollow, UtcKeepsOrder
  <2>2. QED BY <1>1, <1>2, <2>1 DEF Period, Overlap
<1>6. s # t
      BY <1>1, <1>2
<1>7. QED BY <1>3, <1>4, <1>5, <1>6

\* What overlaps with a slot of a rule overlaps with the rule.
LEMMA GridIsWithin ==
    ASSUME NEW r \in RuleChoices, NEW d \in Days, ~Skips(r, d),
           NEW p \in Grid(r, d), NEW q \in Int \X Int, Overlap(q, p) \/ Overlap(p, q)
    PROVE  Overlap(q, Whole(r, d))
<1>1. PICK t \in Starts(r, d) : p = Period(t, t + r.duration)
      BY DEF Grid
<1>2. OpensAt(r, d) \in Int /\ ClosesAt(r, d) \in Int /\ OpensAt(r, d) < ClosesAt(r, d)
      BY RuleTimes
<1>3. /\ t \in Int /\ t + r.duration \in Int /\ t < t + r.duration
      /\ OpensAt(r, d) <= t /\ t + r.duration <= ClosesAt(r, d)
      BY StartsAreTimes
<1>4. /\ Regular(OpensAt(r, d)) /\ Regular(t) /\ Regular(t + r.duration) /\ Regular(ClosesAt(r, d))
      BY <1>2, <1>3, TimesAreRegular
<1>5. /\ Utc(OpensAt(r, d)) <= Utc(t) /\ Utc(t + r.duration) <= Utc(ClosesAt(r, d))
      /\ Utc(OpensAt(r, d)) \in Int /\ Utc(t) \in Int
      /\ Utc(t + r.duration) \in Int /\ Utc(ClosesAt(r, d)) \in Int
      BY <1>3, <1>4, UtcKeepsOrder
<1>6. q[1] \in Int /\ q[2] \in Int
      OBVIOUS
<1>7. q[1] < Utc(t + r.duration) /\ Utc(t) < q[2]
      BY <1>1, <1>6, <1>5 DEF Period, Overlap
<1>8. q[1] < Utc(ClosesAt(r, d)) /\ Utc(OpensAt(r, d)) < q[2]
      BY <1>5, <1>6, <1>7
<1>9. QED BY <1>8 DEF Whole, Period, Overlap

\* Only one rule is in force at a time.
LEMMA WholesAreApart ==
    ASSUME rule \in [RuleIds -> RuleChoices \cup {NoRule}], RulesApart,
           NEW i \in RuleIds, NEW d \in Days, IsFor(i, d),
           NEW j \in RuleIds, NEW e \in Days, IsFor(j, e),
           Overlap(Whole(rule[i], d), Whole(rule[j], e))
    PROVE  i = j /\ d = e
<1> DEFINE r == rule[i]
           q == rule[j]
<1>1. r \in RuleChoices /\ q \in RuleChoices
      BY DEF IsFor
<1>2. ~Skips(r, d) /\ ~Skips(q, e)
      BY DEF RulesApart
<1>3. ~(i # j /\ d = e /\ Overlap(<<r.start, r.end>>, <<q.start, q.end>>))
      BY DEF RulesApart
<1>4. Overlap(Whole(r, d), Whole(q, e))
      OBVIOUS
<1> HIDE DEF r, q
<1>5. /\ OpensAt(r, d) = d * DayLength + r.start /\ ClosesAt(r, d) = d * DayLength + r.end
      /\ OpensAt(q, e) = e * DayLength + q.start /\ ClosesAt(q, e) = e * DayLength + q.end
      /\ OpensAt(r, d) \in Int /\ ClosesAt(r, d) \in Int /\ OpensAt(q, e) \in Int /\ ClosesAt(q, e) \in Int
      /\ r.start \in Int /\ r.end \in Int /\ q.start \in Int /\ q.end \in Int
      /\ OpensAt(r, d) < ClosesAt(r, d) /\ OpensAt(q, e) < ClosesAt(q, e)
      /\ d \in Nat /\ e \in Nat /\ DayLength \in Nat /\ DayLength > 0
      /\ d * DayLength <= OpensAt(r, d) /\ ClosesAt(r, d) <= d * DayLength + DayLength
      /\ e * DayLength <= OpensAt(q, e) /\ ClosesAt(q, e) <= e * DayLength + DayLength
      BY <1>1, RuleTimes
<1>6. /\ Regular(OpensAt(r, d)) /\ Regular(ClosesAt(r, d))
      /\ Regular(OpensAt(q, e)) /\ Regular(ClosesAt(q, e))
      BY <1>1, <1>2, <1>5, TimesAreRegular
<1>7. ~(ClosesAt(r, d) <= OpensAt(q, e))
  <2>1. SUFFICES ASSUME ClosesAt(r, d) <= OpensAt(q, e) PROVE FALSE
        OBVIOUS
  <2>2. /\ Utc(ClosesAt(r, d)) <= Utc(OpensAt(q, e))
        /\ Utc(ClosesAt(r, d)) \in Int /\ Utc(OpensAt(q, e)) \in Int
        BY <1>6, <2>1, UtcKeepsOrder
  <2>3. QED BY <1>4, <2>2 DEF Whole, Period, Overlap
<1>8. ~(ClosesAt(q, e) <= OpensAt(r, d))
  <2>1. SUFFICES ASSUME ClosesAt(q, e) <= OpensAt(r, d) PROVE FALSE
        OBVIOUS
  <2>2. /\ Utc(ClosesAt(q, e)) <= Utc(OpensAt(r, d))
        /\ Utc(ClosesAt(q, e)) \in Int /\ Utc(OpensAt(r, d)) \in Int
        BY <1>6, <2>1, UtcKeepsOrder
  <2>3. QED BY <1>4, <2>2 DEF Whole, Period, Overlap
<1>9. d = e
  <2>1. d < e => d * DayLength + DayLength <= e * DayLength
    <3>1. d < e => (d + 1) * DayLength <= e * DayLength
          BY <1>5, Multiples
    <3>2. (d + 1) * DayLength = d * DayLength + DayLength
          BY <1>5, Multiples
    <3>3. QED BY <3>1, <3>2
  <2>2. e < d => e * DayLength + DayLength <= d * DayLength
    <3>1. e < d => (e + 1) * DayLength <= d * DayLength
          BY <1>5, Multiples
    <3>2. (e + 1) * DayLength = e * DayLength + DayLength
          BY <1>5, Multiples
    <3>3. QED BY <3>1, <3>2
  <2>3. d * DayLength \in Int /\ e * DayLength \in Int
        BY <1>5, Multiples
  <2>4. QED BY <1>5, <1>7, <1>8, <2>1, <2>2, <2>3
<1>10. i = j
  <2>1. SUFFICES ASSUME i # j PROVE FALSE
        OBVIOUS
  <2>2. ~Overlap(<<r.start, r.end>>, <<q.start, q.end>>)
        BY <1>3, <1>9, <2>1
  <2>3. r.end <= q.start \/ q.end <= r.start
        BY <1>5, <2>2 DEF Overlap
  <2>4. d * DayLength \in Int
        BY <1>5, Multiples
  <2>5. QED BY <1>5, <1>7, <1>8, <1>9, <2>3, <2>4
<1>11. QED BY <1>9, <1>10

-----------------------------------------------------------------------------
(* What is planned.                                                        *)

\* The rules in force on the days of a window.
Divides(window) == \A x \in DayRules(window) : OnGrid(window[1], x[1], x[2])

LEMMA ActiveIsChosen ==
    ASSUME rule \in [RuleIds -> RuleChoices \cup {NoRule}]
    PROVE  ActiveRules \subseteq RuleChoices
BY DEF ActiveRules

\* A slot of a rule that lies in the window is on one of its days.
LEMMA DaysOfSlots ==
    ASSUME NEW r \in RuleChoices, NEW d \in Days, NEW window \in Int \X Int,
           NEW t \in Within(r, d, window)
    PROVE  d \in DaysOf(window)
<1> DEFINE w == Local(window[1])
           z == Local(window[2])
<1>1. /\ t \in Int /\ t + r.duration \in Int /\ t < t + r.duration
      /\ OpensAt(r, d) <= t /\ t + r.duration <= ClosesAt(r, d)
      BY StartsAreTimes DEF Within
<1>2. w \in Int /\ z \in Int /\ w <= t /\ t + r.duration <= z
      BY LocalIsInt DEF Within
<1>3. /\ d * DayLength <= OpensAt(r, d) /\ ClosesAt(r, d) <= d * DayLength + DayLength
      /\ OpensAt(r, d) \in Int /\ ClosesAt(r, d) \in Int /\ d * DayLength \in Int
      /\ DayLength \in Int /\ DayLength > 0 /\ d \in Int
      BY RuleTimes
<1> HIDE DEF w, z
<1>4. w \div DayLength \in Int /\ (w \div DayLength) * DayLength <= w
      BY <1>2, <1>3, Remainders
<1>5. (d + 1) * DayLength = d * DayLength + DayLength
      BY <1>3, Multiples
<1>6. (w \div DayLength) * DayLength \in Int
      BY <1>3, <1>4, Multiples
<1>7. (w \div DayLength) * DayLength < (d + 1) * DayLength
      BY <1>1, <1>2, <1>3, <1>4, <1>5, <1>6
<1>8. w \div DayLength < d + 1
      BY <1>3, <1>4, <1>7, Multiples
<1>9. w \div DayLength <= d /\ d * DayLength < z
      BY <1>1, <1>2, <1>3, <1>4, <1>8
<1>10. QED BY <1>9 DEF DaysOf, w, z

\* What is planned for a window that begins between slots: the slots of the rules that
\* lie in it, but for the exceptions.
LEMMA PlannedSlots ==
    ASSUME rule \in [RuleIds -> RuleChoices \cup {NoRule}],
           NEW window \in Int \X Int, Divides(window), NEW p
    PROVE  p \in Planned(window) <=>
              /\ \A c \in closed : ~Overlap(c, p)
              /\ \E r \in ActiveRules, d \in Days : \E t \in Within(r, d, window) :
                    r.day = d % 7 /\ p = Period(t, t + r.duration)
<1>1. ASSUME p \in Planned(window)
      PROVE  \E r \in ActiveRules, d \in Days : \E t \in Within(r, d, window) :
                r.day = d % 7 /\ p = Period(t, t + r.duration)
  <2>1. PICK x \in DayRules(window) : p \in Cut(x[1], x[2], window)
        BY <1>1 DEF Planned
  <2>2. PICK r \in ActiveRules, d \in Days : x[1] = r /\ x[2] = d /\ r.day = d % 7
        BY <2>1 DEF DayRules, DaysOf
  <2>3. PICK k \in 0..DayLength :
           /\ From(r, d, window) + (k + 1) * r.duration <= To(r, d, window)
           /\ p = Piece(r, d, window, k)
        BY <2>1, <2>2 DEF Cut
  <2>4. r \in RuleChoices /\ OnGrid(window[1], r, d)
        BY <2>1, <2>2, ActiveIsChosen DEF Divides
  <2> DEFINE t == From(r, d, window) + k * r.duration
  <2>5. /\ t \in Within(r, d, window)
        /\ t + r.duration = From(r, d, window) + (k + 1) * r.duration
        BY <2>3, <2>4, CutFromGrid
  <2>6. p = Period(t, t + r.duration)
        BY <2>3, <2>4, <2>5, PieceIsPeriod
  <2> HIDE DEF t
  <2>7. QED BY <2>2, <2>5, <2>6
<1>2. ASSUME NEW r \in ActiveRules, NEW d \in Days, NEW t \in Within(r, d, window),
             r.day = d % 7, p = Period(t, t + r.duration)
      PROVE  \E x \in DayRules(window) : p \in Cut(x[1], x[2], window)
  <2>1. r \in RuleChoices
        BY ActiveIsChosen
  <2>2. <<r, d>> \in DayRules(window)
        BY <1>2, <2>1, DaysOfSlots DEF DayRules
  <2>3. OnGrid(window[1], r, d)
        BY <2>2 DEF Divides
  <2>4. PICK k \in 0..DayLength :
           /\ From(r, d, window) + (k + 1) * r.duration <= To(r, d, window)
           /\ t = From(r, d, window) + k * r.duration
           /\ t + r.duration = From(r, d, window) + (k + 1) * r.duration
        BY <2>1, <2>3, GridIsCut
  <2>5. p = Piece(r, d, window, k)
        BY <1>2, <2>1, <2>3, <2>4, PieceIsPeriod
  <2>6. p \in Cut(r, d, window)
        BY <2>4, <2>5 DEF Cut
  <2>7. QED BY <2>2, <2>6
<1>3. p \in Planned(window) <=>
         /\ \A c \in closed : ~Overlap(c, p)
         /\ \E x \in DayRules(window) : p \in Cut(x[1], x[2], window)
      BY DEF Planned
<1>4. QED BY <1>1, <1>2, <1>3

-----------------------------------------------------------------------------
(* The steps.                                                              *)

\* The rule that a planned slot is of.
LEMMA PlannedOnGrid ==
    ASSUME rule \in [RuleIds -> RuleChoices \cup {NoRule}],
           NEW window \in Int \X Int, Divides(window), NEW p \in Planned(window)
    PROVE  \E i \in RuleIds, d \in Days : IsFor(i, d) /\ p \in Grid(rule[i], d)
<1>1. PICK r \in ActiveRules, d \in Days : \E t \in Within(r, d, window) :
         r.day = d % 7 /\ p = Period(t, t + r.duration)
      BY PlannedSlots
<1>2. PICK i \in RuleIds : rule[i] = r /\ r # NoRule
      BY DEF ActiveRules
<1>3. p \in Grid(r, d)
      BY <1>1 DEF Within, Grid
<1>4. QED BY <1>1, <1>2, <1>3 DEF IsFor

LEMMA SlotInitInv == SlotInit => SlotInv
<1> SUFFICES ASSUME SlotInit PROVE SlotInv
      OBVIOUS
<1>1. Made = {}
      BY DEF SlotInit, Made
<1>2. SlotTypeOK
      BY <1>1 DEF SlotInit, SlotTypeOK
<1>3. \A i \in RuleIds : rule[i] = NoRule
      BY DEF SlotInit
<1>4. RulesApart
      BY <1>3 DEF RulesApart, IsFor
<1>5. QED BY <1>1, <1>2, <1>4 DEF SlotInv, SlotsOnGrid, MadeApart

\* A step that leaves the rules alone and adds no slot.
LEMMA FewerSlots ==
    ASSUME SlotInv, UNCHANGED <<rule, mixed>>, Made' \subseteq Made,
           (generation = [g \in Generations |-> generation[g]])'
    PROVE  SlotInv'
<1>1. SlotTypeOK'
      BY DEF SlotInv, SlotTypeOK
<1>2. RulesApart => RulesApart'
      BY DEF RulesApart, IsFor
<1>3. SlotsOnGrid => SlotsOnGrid'
      BY DEF SlotsOnGrid, IsFor
<1>4. MadeApart => MadeApart'
      BY DEF MadeApart
<1>5. QED BY <1>1, <1>2, <1>3, <1>4 DEF SlotInv

LEMMA DropRuleKeepsSlotInv ==
    ASSUME SlotInv, NEW i \in RuleIds, DropRule(i)
    PROVE  SlotInv'
<1>1. Made' = Made /\ mixed' = mixed
      BY DEF DropRule, Made
<1>2. rule' = [rule EXCEPT ![i] = NoRule]
      BY DEF DropRule
<1>3. SlotTypeOK'
      BY <1>1, <1>2 DEF SlotInv, SlotTypeOK, DropRule
<1>4. \A j \in RuleIds, d \in Days : IsFor(j, d)' => IsFor(j, d) /\ rule'[j] = rule[j]
      BY <1>2 DEF SlotInv, SlotTypeOK, IsFor
<1>5. RulesApart => RulesApart'
      BY <1>4 DEF RulesApart
<1>6. SlotsOnGrid => SlotsOnGrid'
      BY <1>1, <1>4 DEF SlotsOnGrid
<1>7. MadeApart => MadeApart'
      BY <1>1 DEF MadeApart
<1>8. QED BY <1>1, <1>3, <1>5, <1>6, <1>7 DEF SlotInv

LEMMA SaveRuleKeepsSlotInv ==
    ASSUME SlotInv, NEW i \in RuleIds, NEW r \in RuleChoices, SaveRule(i, r)
    PROVE  SlotInv'
<1>1. Made' = Made /\ rule' = [rule EXCEPT ![i] = r]
      BY DEF SaveRule, Made
<1>2. mixed' = (\/ mixed
                \/ \E j \in RuleIds \ {i} :
                      rule[j].day = r.day /\ Overlap(<<rule[j].start, rule[j].end>>,
                                                     <<r.start, r.end>>)
                \/ \E d \in {x \in Days : x % 7 = r.day} :
                      \/ Skips(r, d)
                      \/ \E p \in Made : Overlap(p, Period(d * DayLength + r.start,
                                                           d * DayLength + r.end)))
      BY DEF SaveRule
<1>3. SlotTypeOK'
  <2>1. mixed' \in BOOLEAN
        BY <1>2
  <2>2. QED BY <1>1, <2>1 DEF SlotInv, SlotTypeOK, SaveRule
<1>4. SUFFICES ASSUME ~mixed' PROVE RulesApart' /\ SlotsOnGrid' /\ MadeApart'
      BY <1>3 DEF SlotInv
<1>5. /\ RulesApart /\ SlotsOnGrid /\ MadeApart
      /\ \A j \in RuleIds \ {i} : rule[j].day = r.day =>
            ~Overlap(<<rule[j].start, rule[j].end>>, <<r.start, r.end>>)
      /\ \A d \in {x \in Days : x % 7 = r.day} :
            ~Skips(r, d) /\ \A p \in Made : ~Overlap(p, Whole(r, d))
      BY <1>2, <1>4 DEF SlotInv, Whole, OpensAt, ClosesAt
<1>6. /\ rule'[i] = r
      /\ \A j \in RuleIds \ {i} : rule'[j] = rule[j]
      BY <1>1 DEF SlotInv, SlotTypeOK
<1>7. \A d \in Days : IsFor(i, d)' <=> r.day = d % 7
      BY <1>6, RuleTimes DEF IsFor
<1>8. \A j \in RuleIds \ {i}, d \in Days : IsFor(j, d)' <=> IsFor(j, d)
      BY <1>6 DEF IsFor
<1>9. \A j, k \in RuleIds : \A d \in Days :
         IsFor(j, d)' /\ IsFor(k, d)' /\ j # k =>
             ~Overlap(<<rule'[j].start, rule'[j].end>>, <<rule'[k].start, rule'[k].end>>)
  <2>1. SUFFICES ASSUME NEW j \in RuleIds, NEW k \in RuleIds, NEW d \in Days,
                        IsFor(j, d)', IsFor(k, d)', j # k
                 PROVE  ~Overlap(<<rule'[j].start, rule'[j].end>>,
                                 <<rule'[k].start, rule'[k].end>>)
        OBVIOUS
  <2>2. CASE j # i /\ k # i
        BY <1>5, <1>6, <1>8, <2>1, <2>2 DEF RulesApart
  <2>3. CASE j = i
    <3>1. rule[k].day = r.day
          BY <1>7, <1>8, <2>1, <2>3 DEF IsFor
    <3>2. ~Overlap(<<rule[k].start, rule[k].end>>, <<r.start, r.end>>)
          BY <1>5, <2>1, <2>3, <3>1
    <3>3. QED BY <1>6, <2>1, <2>3, <3>2 DEF Overlap
  <2>4. CASE k = i
    <3>1. rule[j].day = r.day
          BY <1>7, <1>8, <2>1, <2>4 DEF IsFor
    <3>2. QED BY <1>5, <1>6, <2>1, <2>4, <3>1
  <2>5. QED BY <2>2, <2>3, <2>4
<1>10. \A j \in RuleIds, d \in Days : IsFor(j, d)' => ~Skips(rule'[j], d)
      BY <1>5, <1>6, <1>7, <1>8 DEF RulesApart
<1>11. SlotsOnGrid'
  <2>1. SUFFICES ASSUME NEW p \in Made, NEW j \in RuleIds, NEW d \in Days,
                        IsFor(j, d)', Overlap(p, Whole(rule'[j], d))
                 PROVE  p \in Grid(rule'[j], d)
        BY <1>1 DEF SlotsOnGrid
  <2>2. CASE j = i
        BY <1>5, <1>6, <1>7, <2>1, <2>2
  <2>3. CASE j # i
        BY <1>5, <1>6, <1>8, <2>1, <2>3 DEF SlotsOnGrid
  <2>4. QED BY <2>2, <2>3
<1>12. QED BY <1>1, <1>5, <1>9, <1>10, <1>11 DEF RulesApart, MadeApart

LEMMA PlanKeepsSlotInv ==
    ASSUME SlotInv, NEW g \in Generations, NEW window \in Windows, Plan(g, window)
    PROVE  SlotInv'
<1>1. /\ rule' = rule
      /\ generation' = [generation EXCEPT ![g] = Planned(window) \ slots]
      /\ mixed' = (mixed \/ \E x \in DayRules(window) : ~OnGrid(window[1], x[1], x[2]))
      /\ slots' = slots
      BY DEF Plan
<1>2. window \in Int \X Int
      BY WindowAssumption
<1>3. rule \in [RuleIds -> RuleChoices \cup {NoRule}]
      BY DEF SlotInv, SlotTypeOK
<1>4. Made' \subseteq Made \cup Planned(window)
      BY <1>1 DEF SlotInv, SlotTypeOK, Made
<1>5. generation' = [h \in Generations |-> generation'[h]]
      BY <1>1 DEF SlotInv, SlotTypeOK
<1>6. SlotTypeOK'
  <2>1. Planned(window) \subseteq Int \X Int
    <3>1. SUFFICES ASSUME NEW p \in Planned(window) PROVE p \in Int \X Int
          OBVIOUS
    <3>2. PICK x \in DayRules(window) : p \in Cut(x[1], x[2], window)
          BY DEF Planned
    <3>3. PICK r \in RuleChoices, d \in Days : x[1] = r /\ x[2] = d
          BY <1>3, <3>2, ActiveIsChosen DEF DayRules, DaysOf
    <3>4. PICK k \in 0..DayLength : p = Piece(r, d, window, k)
          BY <3>2, <3>3 DEF Cut
    <3>5. From(r, d, window) \in Int /\ Begin(r, d, window) \in Int
      <4>1. OpensAt(r, d) \in Int /\ window[1] \in Int /\ Local(window[1]) \in Int
            BY <1>2, RuleTimes, LocalIsInt
      <4>2. From(r, d, window) \in Int
            BY <4>1 DEF From, Larger, OpensAt
      <4>3. Utc(d * DayLength + r.start) \in Int
            BY <4>1, UtcIsInt DEF OpensAt
      <4>4. QED BY <4>1, <4>2, <4>3 DEF Begin
    <3>6. k * r.duration \in Int /\ (k + 1) * r.duration \in Int
      <4>1. k \in Int /\ k + 1 \in Int /\ r.duration \in Int /\ r.duration > 0
            BY RuleTimes
      <4>2. QED BY <4>1, Multiples
    <3>7. /\ Utc(From(r, d, window) + k * r.duration) \in Int
          /\ Utc(From(r, d, window) + (k + 1) * r.duration) \in Int
          BY <3>5, <3>6, UtcIsInt
    <3>8. QED BY <3>4, <3>5, <3>7 DEF Piece
  <2>2. mixed' \in BOOLEAN
        BY <1>1
  <2>3. QED BY <1>1, <1>4, <1>5, <2>1, <2>2 DEF SlotInv, SlotTypeOK
<1>7. SUFFICES ASSUME ~mixed' PROVE RulesApart' /\ SlotsOnGrid' /\ MadeApart'
      BY <1>6 DEF SlotInv
<1>8. Divides(window) /\ RulesApart /\ SlotsOnGrid /\ MadeApart /\ Made \subseteq Int \X Int
      BY <1>1, <1>7 DEF Divides, SlotInv, SlotTypeOK
<1>9. ASSUME NEW p \in Planned(window), NEW i \in RuleIds, NEW d \in Days,
             IsFor(i, d), Overlap(p, Whole(rule[i], d))
      PROVE  p \in Grid(rule[i], d)
  <2>1. PICK j \in RuleIds, e \in Days : IsFor(j, e) /\ p \in Grid(rule[j], e)
        BY <1>2, <1>3, <1>8, PlannedOnGrid
  <2>2. rule[j] \in RuleChoices /\ ~Skips(rule[j], e)
        BY <1>3, <1>8, <2>1 DEF RulesApart, IsFor
  <2>3. Whole(rule[i], d) \in Int \X Int
    <3>1. rule[i] \in RuleChoices
          BY <1>3, <1>9 DEF IsFor
    <3>2. OpensAt(rule[i], d) \in Int /\ ClosesAt(rule[i], d) \in Int
          BY <3>1, RuleTimes
    <3>3. QED BY <3>2, UtcIsInt DEF Whole, Period
  <2>4. Overlap(Whole(rule[i], d), Whole(rule[j], e))
        BY <1>9, <2>1, <2>2, <2>3, GridIsWithin
  <2>5. i = j /\ d = e
        BY <1>3, <1>8, <1>9, <2>1, <2>4, WholesAreApart
  <2>6. QED BY <2>1, <2>5
<1>10. \A p \in Made \cup Planned(window) : \A i \in RuleIds, d \in Days :
          IsFor(i, d) /\ Overlap(p, Whole(rule[i], d)) => p \in Grid(rule[i], d)
      BY <1>8, <1>9 DEF SlotsOnGrid
<1>11. ASSUME NEW p \in Planned(window), NEW q \in Made \cup Planned(window), p # q
       PROVE  ~Overlap(p, q) /\ ~Overlap(q, p)
  <2>1. SUFFICES ASSUME Overlap(q, p) \/ Overlap(p, q) PROVE FALSE
        OBVIOUS
  <2>2. PICK i \in RuleIds, d \in Days : IsFor(i, d) /\ p \in Grid(rule[i], d)
        BY <1>2, <1>3, <1>8, PlannedOnGrid
  <2>3. rule[i] \in RuleChoices /\ ~Skips(rule[i], d)
        BY <1>3, <1>8, <2>2 DEF RulesApart, IsFor
  <2>4. q \in Int \X Int
    <3>1. CASE q \in Made
          BY <1>8, <3>1
    <3>2. CASE q \in Planned(window)
      <4>1. PICK j \in RuleIds, e \in Days : IsFor(j, e) /\ q \in Grid(rule[j], e)
            BY <1>2, <1>3, <1>8, <3>2, PlannedOnGrid
      <4>2. rule[j] \in RuleChoices
            BY <1>3, <4>1 DEF IsFor
      <4>3. QED BY <4>1, <4>2, GridIsTyped
    <3>3. QED BY <3>1, <3>2
  <2>5. Overlap(q, Whole(rule[i], d))
        BY <2>1, <2>2, <2>3, <2>4, GridIsWithin
  <2>6. q \in Grid(rule[i], d)
        BY <1>10, <2>2, <2>5
  <2>7. ~Overlap(p, q) /\ ~Overlap(q, p)
        BY <1>11, <2>2, <2>3, <2>6, GridIsApart
  <2>8. QED BY <2>1, <2>7
<1>12. RulesApart'
      BY <1>1, <1>8 DEF RulesApart, IsFor
<1>13. SlotsOnGrid'
  <2>1. SUFFICES ASSUME NEW p \in Made', NEW i \in RuleIds, NEW d \in Days,
                        IsFor(i, d), Overlap(p, Whole(rule[i], d))
                 PROVE  p \in Grid(rule[i], d)
        BY <1>1 DEF SlotsOnGrid, IsFor
  <2>2. QED BY <1>4, <1>10, <2>1
<1>14. MadeApart'
  <2>1. SUFFICES ASSUME NEW p \in Made', NEW q \in Made', p # q
                 PROVE  ~Overlap(p, q)
        BY DEF MadeApart
  <2>2. CASE p \in Planned(window) \/ q \in Planned(window)
        BY <1>4, <1>11, <2>1, <2>2
  <2>3. CASE p \in Made /\ q \in Made
        BY <1>8, <2>1, <2>3 DEF MadeApart
  <2>4. QED BY <1>4, <2>2, <2>3
<1>15. QED BY <1>12, <1>13, <1>14

LEMMA StoreKeepsSlotInv ==
    ASSUME SlotInv, NEW g \in Generations, Store(g)
    PROVE  SlotInv'
<1>1. /\ generation = [h \in Generations |-> generation[h]]
      /\ slots' = slots \cup generation[g]
      /\ generation' = [generation EXCEPT ![g] = {}]
      BY DEF SlotInv, SlotTypeOK, Store
<1>2. generation' = [h \in Generations |-> generation'[h]]
      BY <1>1
<1>3. Made' \subseteq Made
      BY <1>1 DEF Made
<1>4. UNCHANGED <<rule, mixed>>
      BY DEF Store
<1>5. QED BY <1>2, <1>3, <1>4, FewerSlots

LEMMA AbandonKeepsSlotInv ==
    ASSUME SlotInv, NEW g \in Generations, Abandon(g)
    PROVE  SlotInv'
<1>1. Made' \subseteq Made /\ (generation = [h \in Generations |-> generation[h]])'
      BY DEF SlotInv, SlotTypeOK, Abandon, Made
<1>2. UNCHANGED <<rule, mixed>>
      BY DEF Abandon
<1>3. QED BY <1>1, <1>2, FewerSlots

LEMMA ExceptionsKeepSlotInv ==
    ASSUME SlotInv, NEW c \in Closures, Close(c) \/ Reopen(c)
    PROVE  SlotInv'
<1>1. Made' = Made /\ UNCHANGED <<rule, generation, mixed>>
      BY DEF Close, Reopen, Made
<1>2. QED BY <1>1, FewerSlots DEF SlotInv, SlotTypeOK

LEMMA SlotStepsKeepInv ==
    ASSUME SlotInv, [SlotNext]_slotVars
    PROVE  SlotInv'
<1>1. CASE UNCHANGED slotVars
  <2>1. UNCHANGED <<rule, mixed>> /\ Made' = Made /\ generation' = generation
        BY <1>1 DEF slotVars, Made
  <2>2. QED BY <2>1, FewerSlots DEF SlotInv, SlotTypeOK
<1>2. CASE \E i \in RuleIds : DropRule(i) \/ \E r \in RuleChoices : SaveRule(i, r)
      BY <1>2, DropRuleKeepsSlotInv, SaveRuleKeepsSlotInv
<1>3. CASE \E c \in Closures : Close(c) \/ Reopen(c)
      BY <1>3, ExceptionsKeepSlotInv
<1>4. CASE \E g \in Generations : Store(g) \/ Abandon(g) \/ \E w \in Windows : Plan(g, w)
      BY <1>4, StoreKeepsSlotInv, AbandonKeepsSlotInv, PlanKeepsSlotInv
<1>5. QED BY <1>1, <1>2, <1>3, <1>4 DEF SlotNext

LEMMA SlotInvHolds == SlotSpec => []SlotInv
<1>1. QED BY SlotInitInv, SlotStepsKeepInv, PTL DEF SlotSpec

\* Unless rules, windows or the clock have mixed them up, no two slots of the resource
\* overlap, however many windows they were generated for and whatever became of the
\* rules and exceptions they come from.
THEOREM SlotsNeverOverlap == SlotSpec => []SlotsDoNotOverlap
<1>1. SlotInv => SlotsDoNotOverlap
      BY DEF SlotInv, MadeApart, Made, SlotsDoNotOverlap
<1>2. QED BY <1>1, SlotInvHolds, PTL

-----------------------------------------------------------------------------
(* Windows that meet.                                                      *)

\* A slot of a rule does not reach over the meeting of two windows.
LEMMA NoSlotAcross ==
    ASSUME NEW r \in RuleChoices, NEW d \in Days, NEW t \in Starts(r, d), NEW x \in Int,
           OnGrid(x, r, d)
    PROVE  Local(x) <= t \/ t + r.duration <= Local(x)
<1> DEFINE b == OpensAt(r, d)
           m == Local(x)
<1>0. m \in Int
      BY LocalIsInt
<1>1. SUFFICES ASSUME t < m, m < t + r.duration PROVE FALSE
      BY <1>0, StartsAreTimes
<1>2. /\ t \in Int /\ b <= t /\ t + r.duration <= ClosesAt(r, d)
      /\ b \in Int /\ ClosesAt(r, d) \in Int /\ r.duration \in Int /\ r.duration > 0
      BY StartsAreTimes, RuleTimes
<1>3. m - b > 0 /\ m < ClosesAt(r, d)
      BY <1>0, <1>1, <1>2
<1>4. m - b \in Int /\ (m - b) % r.duration = 0
      BY <1>0, <1>2, <1>3 DEF OnGrid, OpensAt, ClosesAt
<1>5. PICK n \in Nat : t = b + n * r.duration
      BY DEF Starts
<1> HIDE DEF b, m
<1>6. PICK k \in Int : m - b = k * r.duration
      BY <1>2, <1>4, Divided
<1>7. /\ n * r.duration \in Int /\ k * r.duration \in Int
      /\ (n + 1) * r.duration = n * r.duration + r.duration
      BY <1>2, Multiples
<1>8. n * r.duration < k * r.duration /\ k * r.duration < (n + 1) * r.duration
      BY <1>0, <1>1, <1>2, <1>5, <1>6, <1>7
<1>9. n < k /\ k < n + 1
      BY <1>2, <1>8, Multiples
<1>10. QED BY <1>9

\* The days of a window are among those of a window that it is a part of.
LEMMA DaysOfParts ==
    ASSUME NEW v \in Int \X Int, NEW w \in Int \X Int, 
           Local(v[1]) <= Local(w[1]), Local(w[2]) <= Local(v[2])
    PROVE  DaysOf(w) \subseteq DaysOf(v)
<1> DEFINE from == Local(v[1])
           part == Local(w[1])
           upto == Local(w[2])
           end == Local(v[2])
<1>0. from <= part /\ upto <= end
      OBVIOUS
<1>1. /\ DayLength \in Int /\ DayLength > 0 /\ from \in Int /\ part \in Int
      /\ upto \in Int /\ end \in Int
      BY DaysAssumption, LocalIsInt
<1> HIDE DEF from, part, upto, end
<1>2. /\ from \div DayLength \in Int /\ (from \div DayLength) * DayLength <= from
      /\ part \div DayLength \in Int
      /\ part < (part \div DayLength) * DayLength + DayLength
      BY <1>1, Remainders
<1>3. /\ (from \div DayLength) * DayLength \in Int /\ (part \div DayLength) * DayLength \in Int
      /\ (part \div DayLength + 1) * DayLength = (part \div DayLength) * DayLength + DayLength
      BY <1>1, <1>2, Multiples
<1>4. (from \div DayLength) * DayLength < (part \div DayLength + 1) * DayLength
      BY <1>0, <1>1, <1>2, <1>3
<1>5. from \div DayLength < part \div DayLength + 1
      BY <1>1, <1>2, <1>4, Multiples
<1>6. \A d \in Days : d \in Nat /\ d * DayLength \in Int
      BY <1>1, DaysAssumption, Multiples
<1>7. QED BY <1>0, <1>1, <1>2, <1>5, <1>6 DEF DaysOf, from, part, upto, end

\* Whatever rules and exceptions there are, generating two windows that meet is
\* generating both at once.
THEOREM WindowsMeet == SlotSpec => []WindowsCompose
<1>1. ASSUME SlotInv PROVE WindowsCompose
  <2> DEFINE Both(v, w) == <<v[1], w[2]>>
             Meet(v, w) == /\ v[2] = w[1]
                           /\ Local(v[1]) <= Local(v[2]) /\ Local(w[1]) <= Local(w[2])
                           /\ \A x \in DayRules(Both(v, w)) : /\ OnGrid(v[1], x[1], x[2])
                                                              /\ OnGrid(w[1], x[1], x[2])
  <2>1. SUFFICES ASSUME NEW v \in Windows, NEW w \in Windows, Meet(v, w)
                 PROVE  Planned(Both(v, w)) = Planned(v) \cup Planned(w)
        BY DEF WindowsCompose
  <2> DEFINE both == <<v[1], w[2]>>
  <2>2. /\ v \in Int \X Int /\ w \in Int \X Int /\ both \in Int \X Int
        /\ w[1] \in Int /\ both[1] = v[1] /\ both[2] = w[2] /\ v[2] = w[1]
        /\ Local(v[1]) \in Int /\ Local(v[2]) \in Int
        /\ Local(w[1]) \in Int /\ Local(w[2]) \in Int
        /\ Local(both[1]) = Local(v[1]) /\ Local(both[2]) = Local(w[2])
        /\ Local(v[2]) = Local(w[1])
        /\ Local(v[1]) <= Local(w[1]) /\ Local(w[1]) <= Local(w[2])
    <3>1. v \in Int \X Int /\ w \in Int \X Int
          BY WindowAssumption
    <3>2. /\ v[1] \in Int /\ v[2] \in Int /\ w[1] \in Int /\ w[2] \in Int
          /\ both \in Int \X Int /\ both[1] = v[1] /\ both[2] = w[2]
          BY <3>1
    <3>3. v[2] = w[1] /\ Local(v[1]) <= Local(v[2]) /\ Local(w[1]) <= Local(w[2])
          BY <2>1
    <3>4. /\ Local(v[1]) \in Int /\ Local(v[2]) \in Int
          /\ Local(w[1]) \in Int /\ Local(w[2]) \in Int
          BY <3>2, LocalIsInt
    <3> HIDE DEF both
    <3>5. Local(both[1]) = Local(v[1]) /\ Local(both[2]) = Local(w[2])
          BY <3>2
    <3>6. QED BY <3>1, <3>2, <3>3, <3>4, <3>5
  <2>3. \A x \in DayRules(both) : OnGrid(v[1], x[1], x[2]) /\ OnGrid(w[1], x[1], x[2])
        BY <2>1
  <2> HIDE DEF both
  <2>4. rule \in [RuleIds -> RuleChoices \cup {NoRule}] /\ ActiveRules \subseteq RuleChoices
        BY <1>1, ActiveIsChosen DEF SlotInv, SlotTypeOK
  <2>5. DayRules(v) \subseteq DayRules(both) /\ DayRules(w) \subseteq DayRules(both)
    <3>1. DaysOf(v) \subseteq DaysOf(both) /\ DaysOf(w) \subseteq DaysOf(both)
          BY <2>2, DaysOfParts
    <3>2. QED BY <3>1 DEF DayRules
  <2>6. Divides(v) /\ Divides(w) /\ Divides(both)
        BY <2>2, <2>3, <2>5 DEF Divides
  <2>7. ASSUME NEW r \in ActiveRules, NEW d \in Days, r.day = d % 7
        PROVE  Within(r, d, both) = Within(r, d, v) \cup Within(r, d, w)
    <3>1. r \in RuleChoices
          BY <2>4
    <3>2. ASSUME NEW t \in Starts(r, d)
          PROVE  t \in Int /\ t + r.duration \in Int /\ t < t + r.duration
          BY <3>1, StartsAreTimes
    <3>3. ASSUME NEW t \in Within(r, d, both)
          PROVE  t \in Within(r, d, v) \cup Within(r, d, w)
      <4>1. d \in DaysOf(both)
            BY <2>2, <3>1, DaysOfSlots
      <4>2. OnGrid(w[1], r, d)
        <5>1. <<r, d>> \in DayRules(both)
              BY <2>7, <4>1 DEF DayRules
        <5>2. QED BY <2>3, <5>1
      <4>3. t \in Starts(r, d) /\ Local(v[1]) <= t /\ t + r.duration <= Local(w[2])
            BY <2>2 DEF Within
      <4>4. Local(w[1]) <= t \/ t + r.duration <= Local(w[1])
            BY <2>2, <3>1, <4>2, <4>3, NoSlotAcross
      <4>5. QED BY <2>2, <4>3, <4>4 DEF Within
    <3>4. ASSUME NEW t \in Within(r, d, v) \cup Within(r, d, w)
          PROVE  t \in Within(r, d, both)
      <4>1. t \in Starts(r, d)
            BY DEF Within
      <4>2. QED BY <2>2, <3>2, <4>1 DEF Within
    <3>5. QED BY <3>3, <3>4
  <2>8. \A p : p \in Planned(both) <=> p \in Planned(v) \cup Planned(w)
    <3>1. TAKE p
    <3>2. /\ p \in Planned(both) <=>
                /\ \A c \in closed : ~Overlap(c, p)
                /\ \E r \in ActiveRules, d \in Days : \E t \in Within(r, d, both) :
                      r.day = d % 7 /\ p = Period(t, t + r.duration)
          /\ p \in Planned(v) <=>
                /\ \A c \in closed : ~Overlap(c, p)
                /\ \E r \in ActiveRules, d \in Days : \E t \in Within(r, d, v) :
                      r.day = d % 7 /\ p = Period(t, t + r.duration)
          /\ p \in Planned(w) <=>
                /\ \A c \in closed : ~Overlap(c, p)
                /\ \E r \in ActiveRules, d \in Days : \E t \in Within(r, d, w) :
                      r.day = d % 7 /\ p = Period(t, t + r.duration)
          BY <2>2, <2>4, <2>6, PlannedSlots
    <3>3. QED BY <2>7, <3>2
  <2>9. Planned(both) = Planned(v) \cup Planned(w)
        BY <2>8
  <2>10. QED BY <2>9 DEF both
<1>2. QED BY <1>1, SlotInvHolds, PTL

=============================================================================
