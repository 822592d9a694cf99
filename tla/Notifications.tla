---------------------------- MODULE Notifications ----------------------------
(***************************************************************************)
(* The devices a user gets push messages on and the preference row that    *)
(* repeats part of it: push_enabled, and the endpoint of the browser that  *)
(* was seen last.  A request changes the devices in one transaction and    *)
(* brings the preference up to date in a second, and a registration sets   *)
(* push_enabled in a third.                                                *)
(*                                                                         *)
(* One user, who is the only one to change these rows.                     *)
(***************************************************************************)
EXTENDS Naturals, SequencesExt

CONSTANTS
    Devices,        \* rows of notificationdevice, each with its own address
    Browsers,       \* the devices of provider webpush, whose address is an endpoint
    Calls           \* requests of the user that may be in progress together

ASSUME BrowserAssumption == Browsers \subseteq Devices

VARIABLES
    active,         \* the devices whose row has is_active
    seen,           \* the rows there are, in the order of updated_at
    preference,     \* the row of notificationpreference, or NoPreference
    call,           \* call[c]: what c has still to do, and what it has read
    alone,          \* the call during which no other has run
    stale,          \* calls have overlapped, or one was cut short
    asked           \* the user has set push_enabled since it was last derived

pushVars == <<active, seen, preference, call, alone, stale, asked>>

NoPreference == [none |-> 0]
NoEndpoint == "none"
Nobody == "nobody"

ASSUME CallAssumption == Nobody \notin Calls

\* The defaults of the columns.
DefaultPreference == [push |-> FALSE, endpoint |-> NoEndpoint]

NotCalled == [todo |-> <<>>, loaded |-> DefaultPreference, sets |-> <<>>]

Busy == {c \in Calls : call[c] # NotCalled}

\* list_devices: the active ones, by their places in the order; the one seen last
\* comes first.
ListDevices == {n \in DOMAIN seen : seen[n] \in active}

\* The endpoint of the first browser in the list.
Endpoint ==
    LET browsers == {n \in ListDevices : seen[n] \in Browsers} IN
    IF browsers = {} THEN NoEndpoint ELSE seen[Max(browsers)]

SeenNow(D) == SelectSeq(seen, LAMBDA d : d \notin D) \o SetToSeq(D)

\* A handler begins with a transaction on the devices, or without one.
BeginCall(c, todo) ==
    /\ call[c] = NotCalled
    /\ call' = [call EXCEPT ![c].todo = todo]
    /\ alone' = IF Busy = {} THEN c ELSE Nobody
    /\ stale' = (stale \/ Busy # {})
    /\ UNCHANGED <<preference, asked>>

Sync == <<"preference", "devices", "sync">>

\* register_device, which finds the row of the endpoint or makes one, and the rest of
\* _register_and_enable_push and register_push_subscription.
Register(c, d) ==
    /\ BeginCall(c, Sync \o <<"preference", "enable", "write">>)
    /\ active' = active \cup {d}
    /\ seen' = SeenNow({d})

\* Mutant: the preference is read and left alone.
DropDevice(c, d) ==
    /\ d \in ToSet(seen)
    /\ BeginCall(c, <<"preference">>)
    /\ active' = active \ {d}
    /\ seen' = SeenNow({d})

\* remove_device, of a row that may be inactive already.
RemoveDevice(c, d) ==
    /\ d \in ToSet(seen)
    /\ BeginCall(c, Sync)
    /\ active' = active \ {d}
    /\ seen' = SeenNow({d})

\* remove_webpush_subscription.  The order of those it touches never matters again.
RemoveSubscription(c) ==
    /\ BeginCall(c, Sync)
    /\ active' = active \ Browsers
    /\ seen' = SeenNow(active \cap Browsers)

\* PATCH /preferences/, and what only reads the row: GET /preferences/ and
\* create_notification.
PatchPreference(c, push) ==
    /\ BeginCall(c, <<"preference", IF push THEN "enable" ELSE "disable", "write">>)
    /\ UNCHANGED <<active, seen>>

ReadPreference(c) ==
    /\ BeginCall(c, <<"preference">>)
    /\ UNCHANGED <<active, seen>>

-----------------------------------------------------------------------------
(* The steps of a call.                                                    *)

Does(c, step) == call[c].todo # <<>> /\ Head(call[c].todo) = step

Goes(c, q) ==
    LET rest == Tail(q.todo) IN
    call' = [call EXCEPT ![c] = IF rest = <<>> THEN NotCalled ELSE [q EXCEPT !.todo = rest]]

\* The call ends with an error; what it has committed stays.
Breaks(c) ==
    /\ call' = [call EXCEPT ![c] = NotCalled]
    /\ stale' = (stale \/ "sync" \in ToSet(call[c].todo))

\* get_or_create_preference: the SELECT.
LoadPreference(c) ==
    /\ Does(c, "preference")
    /\ IF preference = NoPreference
       THEN call' = [call EXCEPT ![c].todo = <<"insert">> \o Tail(@)]
       ELSE Goes(c, [call[c] EXCEPT !.loaded = preference])
    /\ UNCHANGED <<active, seen, preference, alone, stale, asked>>

\* The INSERT of the first row, in a transaction of its own.  user_id is unique: of
\* two calls that found none, one fails.
InsertPreference(c) ==
    /\ Does(c, "insert")
    /\ IF preference = NoPreference
       THEN /\ preference' = DefaultPreference
            /\ Goes(c, [call[c] EXCEPT !.loaded = DefaultPreference])
            /\ UNCHANGED stale
       ELSE Breaks(c) /\ UNCHANGED preference
    /\ UNCHANGED <<active, seen, alone, asked>>

\* Only what differs from the loaded row is written.
DirtyColumns(c, columns) ==
    [f \in {g \in DOMAIN columns : columns[g] # call[c].loaded[g]} |-> columns[f]]

Updated(c) ==
    [f \in DOMAIN preference |->
        IF f \in DOMAIN call[c].sets THEN call[c].sets[f] ELSE preference[f]]

\* _sync_preference_push_fields, up to its commit.
LoadDevices(c) ==
    /\ Does(c, "devices")
    /\ Goes(c, [call[c] EXCEPT !.sets =
                   DirtyColumns(c, [endpoint |-> Endpoint,
                                    push |-> call[c].loaded.push /\ ListDevices # {}])])
    /\ UNCHANGED <<active, seen, preference, alone, stale, asked>>

\* Its commit: a call that has run alone so far puts right what was stale.
CommitSync(c) ==
    /\ Does(c, "sync")
    /\ preference' = Updated(c)
    /\ stale' = (stale /\ alone # c)
    /\ asked' = FALSE
    /\ Goes(c, [call[c] EXCEPT !.sets = <<>>])
    /\ UNCHANGED <<active, seen, alone>>

SetPush(c) ==
    /\ Does(c, "enable") \/ Does(c, "disable")
    /\ Goes(c, [call[c] EXCEPT !.sets = DirtyColumns(c, [push |-> Does(c, "enable")])])
    /\ UNCHANGED <<active, seen, preference, alone, stale, asked>>

CommitPush(c) ==
    /\ Does(c, "write")
    /\ preference' = Updated(c)
    /\ asked' = preference'.push
    /\ Goes(c, call[c])
    /\ UNCHANGED <<active, seen, alone, stale>>

\* An exception, or the end of the process.
CutShort(c) ==
    /\ call[c] # NotCalled
    /\ Breaks(c)
    /\ UNCHANGED <<active, seen, preference, alone, asked>>

PushInit ==
    /\ active = {}
    /\ seen = <<>>
    /\ preference = NoPreference
    /\ call = [c \in Calls |-> NotCalled]
    /\ alone = Nobody
    /\ stale = FALSE
    /\ asked = FALSE

PushNext ==
    \E c \in Calls :
        \/ \E d \in Devices : Register(c, d) \/ RemoveDevice(c, d)
        \/ RemoveSubscription(c)
        \/ \E push \in BOOLEAN : PatchPreference(c, push)
        \/ ReadPreference(c)
        \/ LoadPreference(c) \/ InsertPreference(c) \/ LoadDevices(c) \/ CommitSync(c)
        \/ SetPush(c) \/ CommitPush(c)
        \/ CutShort(c)

PushSpec == PushInit /\ [][PushNext]_pushVars

-----------------------------------------------------------------------------
(* Properties.                                                             *)

\* When no request is in progress the preference repeats what the devices say: the
\* endpoint of the one seen last, and push messages only if there is a device or the
\* user has asked for them since.  What requests that overlapped or were cut short
\* have left wrong, the next change of the devices that runs alone puts right.
PreferenceFollowsDevices ==
    Busy = {} /\ ~stale /\ preference # NoPreference =>
        /\ preference.endpoint = Endpoint
        /\ preference.push => ListDevices # {} \/ asked
=============================================================================
