----------------------------- MODULE SlotHolds -----------------------------
(***************************************************************************)
(* One slot under requests that overlap.  Its hold is a key in Redis with  *)
(* ten minutes to live, what it shows is a row; a handler reads the row,   *)
(* talks to Redis and commits, with steps of other handlers in between.    *)
(* BookingLifecycle has each handler as one step, and what bookings,       *)
(* payments and the waitlist make of the slot.                             *)
(*                                                                         *)
(* A session writes the columns whose value differs from the one it read;  *)
(* the locks of its writes only delay others.  Nothing in the program      *)
(* blocks a slot, and nobody waits for this one.                           *)
(***************************************************************************)
CONSTANTS
    HoldRequests,   \* requests that may be in progress together
    Customers,
    Nobody

ASSUME NobodyAssumption == Nobody \notin Customers

VARIABLES
    slotKey,        \* booking:slot-hold:{slot_id}: its holder, or Nobody
    shown,          \* the row: "open", "held", "lapsed" (held until a time past), "booked"
    made,           \* the slot has been booked at some time
    doing,          \* doing[r]: what r is for, whom, its next step, the row it has read
    running,        \* customers with a hold that is neither over nor given up
    told,           \* those of them whose request has been answered
    outrun,         \* requests about to delete a key that has gone since they looked
    taken,          \* one of them has deleted the key of another customer
    late            \* requests in progress that read the row before it was booked

holdVars == <<slotKey, shown, made, doing, running, told, outrun, taken, late>>

AtRest == [what |-> "none", who |-> Nobody, step |-> "none", seen |-> "open"]

HoldInit ==
    /\ slotKey = Nobody
    /\ shown = "open"
    /\ made = FALSE
    /\ doing = [r \in HoldRequests |-> AtRest]
    /\ running = {} /\ told = {} /\ outrun = {} /\ late = {}
    /\ taken = FALSE

At(r, what, step) == doing[r].what = what /\ doing[r].step = step
Goes(r, step) == doing' = [doing EXCEPT ![r].step = step] /\ UNCHANGED late
Leaves(r) == doing' = [doing EXCEPT ![r] = AtRest] /\ late' = late \ {r}
Begins(r, what, u, step, seen) ==
    /\ doing[r] = AtRest
    /\ doing' = [doing EXCEPT ![r] =
                    [what |-> what, who |-> u, step |-> step, seen |-> seen]]
    /\ UNCHANGED late

\* The status without its time, and as _normalise_expired_hold makes it.
Status == IF shown = "lapsed" THEN "held" ELSE shown
Normalised == IF shown = "lapsed" THEN "open" ELSE shown

KeyStays == UNCHANGED <<slotKey, running, told, outrun, taken>>
SlotStays == KeyStays /\ UNCHANGED <<shown, made>>

-----------------------------------------------------------------------------
(* POST /slots/{slot_id}/hold                                              *)

StartHold(r, u) == shown # "booked" /\ Begins(r, "hold", u, "set", Status) /\ SlotStays

\* SET NX EX 600, and 409 if the slot has a key.
SetKey(r) ==
    /\ At(r, "hold", "set")
    /\ IF slotKey = Nobody
       THEN /\ slotKey' = doing[r].who
            /\ running' = running \cup {doing[r].who}
            /\ Goes(r, "commit")
       ELSE Leaves(r) /\ UNCHANGED <<slotKey, running>>
    /\ UNCHANGED <<shown, made, told, outrun, taken>>

\* The row is read again, which yields what the session has; its time is written, its
\* status only if it was not held when it was read.
CommitHold(r) ==
    /\ At(r, "hold", "commit")
    /\ shown' = IF doing[r].seen # "held" \/ shown = "lapsed"
                THEN "held" ELSE shown
    /\ told' = told \cup ({doing[r].who} \cap running)
    /\ Leaves(r)
    /\ UNCHANGED <<slotKey, made, running, outrun, taken>>

-----------------------------------------------------------------------------
(* release_slot_hold: a GET and a DELETE.                                  *)

\* Mutant: whose key it is does not matter.
LookAtAnyKey(r) ==
    /\ doing[r].step = "look"
    /\ Goes(r, "delete")
    /\ SlotStays

LookAtKey(r) ==
    /\ doing[r].step = "look"
    /\ IF slotKey = doing[r].who THEN Goes(r, "delete")
       ELSE IF doing[r].what = "book" THEN Goes(r, "commit")
       ELSE Leaves(r)
    /\ SlotStays

\* The requests about to delete the key of u.
Deleting(u) == {r \in HoldRequests : doing[r].step = "delete" /\ doing[r].who = u}

DeleteKey(r) ==
    LET u == doing[r].who IN
    /\ doing[r].step = "delete"
    /\ slotKey' = Nobody
    /\ running' = running \ {u}
    /\ told' = told \ {u}
    /\ outrun' = (outrun \cup Deleting(slotKey)) \ {r}
    /\ taken' = (taken \/ (r \in outrun /\ slotKey \notin {u, Nobody}))
    /\ Goes(r, IF doing[r].what = "book" THEN "commit" ELSE "read")
    /\ UNCHANGED <<shown, made>>

-----------------------------------------------------------------------------
(* POST /slots/{slot_id}/release                                           *)

StartRelease(r, u) == Begins(r, "release", u, "look", "open") /\ SlotStays

\* Mutant: the row is opened whatever it shows.
ReadAnything(r) ==
    /\ At(r, "release", "read")
    /\ doing' = [doing EXCEPT ![r].step = "commit", ![r].seen = "held"]
    /\ UNCHANGED late
    /\ SlotStays

ReadReleased(r) ==
    /\ At(r, "release", "read")
    /\ IF shown \in {"held", "lapsed"}
       THEN doing' = [doing EXCEPT ![r].step = "commit", ![r].seen = "held"] /\ UNCHANGED late
       ELSE Leaves(r)
    /\ SlotStays

-----------------------------------------------------------------------------
(* GET /slots/ and the release of expired holds.                           *)

StartList(r) == shown = "lapsed" /\ Begins(r, "list", Nobody, "commit", "held") /\ SlotStays

CommitOpen(r) ==
    /\ At(r, "release", "commit") \/ At(r, "list", "commit")
    /\ shown' = "open"
    /\ Leaves(r)
    /\ KeyStays /\ UNCHANGED made

-----------------------------------------------------------------------------
(* POST /bookings/                                                         *)

StartBooking(r, u) ==
    /\ shown # "booked"
    /\ Begins(r, "book", u, "owner", Normalised)
    /\ SlotStays

\* The key is asked for after the row.
ReadOwner(r) ==
    LET u == doing[r].who IN
    /\ At(r, "book", "owner")
    /\ IF slotKey = u \/ (slotKey = Nobody /\ doing[r].seen # "held")
       THEN Goes(r, "look") ELSE Leaves(r)
    /\ SlotStays

\* A hold that was running when the row was read is left as it is, an expired one is
\* written anew.
CommitBooking(r) ==
    /\ At(r, "book", "commit")
    /\ shown' = IF doing[r].seen = "held" THEN shown ELSE "held"
    /\ made' = TRUE
    /\ Leaves(r)
    /\ KeyStays

-----------------------------------------------------------------------------
(* What else changes the slot.                                             *)

\* A failure, or the end of the process, between two steps of a request: the key is as
\* it has left it, its row is rolled back.
Fail(r) ==
    /\ doing[r] # AtRest
    /\ Leaves(r)
    /\ outrun' = outrun \ {r}
    /\ UNCHANGED <<slotKey, shown, made, running, told, taken>>

\* A release reads the row after the key is deleted, the others begin with it.
HasRead(r) == doing[r].step = "commit" \/ doing[r].what \in {"hold", "book"}

\* A payment for a booking of the slot, and the cancellation of one.
Confirm ==
    /\ made
    /\ shown' = "booked"
    /\ late' = {r \in HoldRequests : HasRead(r)}
    /\ UNCHANGED <<made, doing>> /\ KeyStays
CancelBookingOn ==
    made /\ shown' = "open" /\ UNCHANGED <<made, doing, late>> /\ KeyStays

\* The ten minutes of a hold are over, in Redis and in the row.
KeyLapses(u) ==
    /\ u \in running
    /\ running' = running \ {u}
    /\ told' = told \ {u}
    /\ IF slotKey = u
       THEN slotKey' = Nobody /\ outrun' = outrun \cup Deleting(u)
       ELSE UNCHANGED <<slotKey, outrun>>
    /\ UNCHANGED <<shown, made, doing, taken, late>>
RowLapses == shown = "held" /\ shown' = "lapsed" /\ UNCHANGED <<made, doing, late>> /\ KeyStays

HoldNext ==
    \/ \E r \in HoldRequests :
          \/ \E u \in Customers :
                StartHold(r, u) \/ StartRelease(r, u) \/ StartBooking(r, u)
          \/ SetKey(r) \/ CommitHold(r)
          \/ LookAtKey(r) \/ DeleteKey(r) \/ ReadReleased(r)
          \/ StartList(r) \/ CommitOpen(r)
          \/ ReadOwner(r) \/ CommitBooking(r)
          \/ Fail(r)
    \/ \E u \in Customers : KeyLapses(u)
    \/ RowLapses \/ Confirm \/ CancelBookingOn

HoldSpec == HoldInit /\ [][HoldNext]_holdVars

-----------------------------------------------------------------------------
(* Properties.                                                             *)

\* Two customers are never told that the slot is theirs for the same minutes, unless a
\* release deleted a key that was not its customer's any more: it looks at the key and
\* deletes it in two calls, and the hold it looked at may run out between them.
OneIsTold == \A u, v \in told : u = v \/ taken

\* The slot of a paid booking stops being booked by a cancellation, or by a request that
\* read the row before it was booked; those overwrite it, as no handler locks the row.
BookedSlotStays ==
    shown = "booked" /\ shown' # "booked" =>
        CancelBookingOn \/ \E r \in late : doing'[r] # doing[r]

\* Whoever has the slot keeps it, outside of these two races.
SlotIsKept == [][OneIsTold' /\ BookedSlotStays]_holdVars
=============================================================================
