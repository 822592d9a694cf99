------------------------------ MODULE MCPeople ------------------------------
(***************************************************************************)
(* Instances of what is on file about people: members of tenants and       *)
(* holders of roles (AccessControl), members of rooms (ConnectionManager), *)
(* accounts (AccountRecords), devices with the preference that follows     *)
(* them (Notifications), and security incidents (Incidents).  They share   *)
(* no state: each behaviour chooses an area and leaves the others at rest. *)
(***************************************************************************)
EXTENDS AccessControl, ConnectionManager, AccountRecords, Notifications,
        Incidents, TLC

CONSTANTS r1, r2, u1, u2, m1, m2, i1, e3, editor, p1, s3, ann, bob,
          MaxFrames     \* frames that the connections receive in a behaviour

VARIABLES
    area,
    frames          \* frames received so far

\* One symmetry for all areas: r1 and r2 are requests of every kind, connections among
\* them, m1 and m2 rows of every kind.
MCOwner == r1 :> ann @@ r2 :> ann @@ s3 :> bob

\* TokenChurn and RateLimitSpike count as ErrorSpike does.
InstanceKinds == {"failed_login", "new_ip_login", "error_spike", "admin_change"}

PeopleInit ==
    /\ area \in {"tenant", "catalog", "rooms", "accounts", "push", "incidents"}
    /\ frames = 0
    /\ Init
    /\ SocketInit
    /\ AccountInit
    /\ PushInit
    /\ IncidentInit
    /\ kind \in IF area = "incidents" THEN InstanceKinds ELSE {"admin_change"}

\* No property speaks of what comes after the last subject has become uncertain.
Ended == {RolesOf(u) : u \in Users} \cup {Ownership} \subseteq uncertain

\* Only a request that has not begun can begin, and only one that has takes steps.  One
\* account is deleted, before anything has become uncertain.
TenantArea ==
    /\ area = "tenant"
    /\ ~Ended
    /\ \/ \E r \in Requests :
             IF request[r] = Idle THEN TenantRequest(r) \/ InvitationTimeout(r) ELSE Step(r)
       \/ \E i \in Invitations : Lapse(i)
       \/ uncertain = {} /\ \E u \in Users : DeleteUser(u)
       \/ Crash
    /\ UNCHANGED <<area, frames, socketVars, accountVars, pushVars, incidentVars>>

CatalogArea ==
    /\ area = "catalog"
    /\ \/ \E r \in Requests : CatalogRequest(r) \/ Step(r)
       \/ Crash
    /\ UNCHANGED <<area, frames, socketVars, accountVars, pushVars, incidentVars>>

RoomsArea ==
    /\ area = "rooms"
    /\ \E s \in Sockets :
          \/ (Connect(s) \/ Vanish(s) \/ Disconnect(s) \/ GoOn(s)) /\ UNCHANGED frames
          \/ frames < MaxFrames /\ Serve(s) /\ frames' = frames + 1
    /\ UNCHANGED <<area, vars, accountVars, pushVars, incidentVars>>

AccountsArea ==
    /\ area = "accounts"
    /\ AccountNext
    /\ UNCHANGED <<area, frames, vars, socketVars, pushVars, incidentVars>>

PushArea ==
    /\ area = "push"
    /\ PushNext
    /\ UNCHANGED <<area, frames, vars, socketVars, accountVars, incidentVars>>

IncidentsArea ==
    /\ area = "incidents"
    /\ IncidentNext
    /\ UNCHANGED <<area, frames, vars, socketVars, accountVars, pushVars>>

PeopleNext ==
    \/ TenantArea
    \/ CatalogArea
    \/ RoomsArea
    \/ AccountsArea
    \/ PushArea
    \/ IncidentsArea

PeopleSpec ==
    PeopleInit /\ [][PeopleNext]_<<area, frames, vars, socketVars, accountVars, pushVars, incidentVars>>

Sym == Permutations({r1, r2}) \cup Permutations({m1, m2}) \cup Permutations({u1, u2})
=============================================================================
