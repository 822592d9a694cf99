---------------------------- MODULE PolicyMirror ----------------------------
(***************************************************************************)
(* Roles and permissions are kept twice: as rows of the database and as    *)
(* tuples of the Casbin policy, which answers every permission check.      *)
(*                                                                         *)
(* A handler that changes a role writes its rows in a transaction, then    *)
(* calls Casbin, whose adapter saves each tuple in a transaction of its    *)
(* own, and then commits.  The module has these steps once, for all        *)
(* handlers: a handler prepares a request with the rows it writes and the  *)
(* tuples it removes and adds.                                             *)
(*                                                                         *)
(* One process serves the requests (one worker), so that the tuples in     *)
(* memory are those that are stored.  A failed call changes nothing.       *)
(***************************************************************************)
EXTENDS Naturals

CONSTANTS
    Requests,       \* requests that may be in progress together
    RowIds,         \* primary keys of membership and assignment rows
    Invitations,    \* primary keys of invitations
    Users,
    Roles,          \* the roles of a tenant that are in use
    Catalog,        \* names of the roles of the global catalog
    Permissions,    \* permissions of the catalog, each a resource and an action
    Slug,           \* the domain of the one tenant, which its creator chooses
    Global,         \* the domain of the catalog; no rule keeps a slug from being the same
    Faults          \* what may fail: a subset of {"policy", "commit", "crash"}

ASSUME RoleAssumption == Roles \subseteq {"member", "admin", "owner"} /\ "owner" \in Roles

VARIABLES
    rows,           \* rows[i]: the committed membership or assignment i
    invitation,     \* invitation[i]: the committed invitation i
    tenant,         \* "new", "live" or "gone": its slug is used once
    policy,         \* the rows, stored or not, whose tuple Casbin has
    request,        \* request[r]: how far r has got, and what it writes
    deleted,        \* users whose account has been deleted
    stray,          \* there is an owner row that has lost its user
    uncertain       \* subjects on which the two stores need not agree any more

vars == <<rows, invitation, tenant, policy, request, deleted, stray, uncertain>>

\* TenantMember, UserRole and RolePermission rows, with what they say in the policy
\* (g, user, role, domain and p, role, domain, resource and action) but for the domain.
Membership(u, role) == <<"g", u, role, "tenant">>
Assignment(u, role) == <<"g", u, role, "catalog">>
Grant(role, p) == <<"p", role, p, "catalog">>

Tuples == {Membership(u, role) : u \in Users, role \in Roles}
    \cup {Assignment(u, role) : u \in Users, role \in Catalog}
    \cup {Grant(role, p) : role \in Catalog, p \in Permissions}

InPolicy(t) == <<t[1], t[2], t[3], IF t[4] = "tenant" THEN Slug ELSE Global>>

\* The rows that have one tuple: a membership and an assignment, if the tenant's slug is
\* the domain of the catalog and the roles have one name.
Twins(t) == {s \in Tuples : InPolicy(s) = InPolicy(t)}

NoRow == <<"none">>

\* The rows of invitations: of one that is closed nothing else is ever read.  An open
\* one is PENDING, its 48 hours over or not.
Closed == [status : {"none", "accepted", "expired", "revoked"}]
Open == [status : {"pending", "overdue"}, to : Users, role : Roles]

\* What requests contend for: the role of a user in the tenant, who the owners are,
\* or one tuple of the catalog.
Subject(t) == IF t[4] = "tenant" THEN <<"roles of", t[2]>> ELSE t

Ownership == <<"owners", Slug>>

Idle == [step |-> "idle", about |-> {}, writes |-> <<>>, needs |-> {}, invites |-> <<>>,
         tenancy |-> "as is", joins |-> FALSE, removes |-> {}, adds |-> {}, called |-> {}]

\* The subjects on which a request has changed the policy but not yet the rows.
HalfDone(q) == {Subject(t) : t \in q.called}

Stored(t) == \E i \in RowIds : rows[i] = t

\* A primary key is taken once; one that no request knows any more may stand for
\* a new one.
Fresh(i) ==
    /\ rows[i] = NoRow
    /\ \A r \in Requests : i \notin DOMAIN request[r].writes

-----------------------------------------------------------------------------
\* A handler has read what it decides upon.  Requests about the same subject
\* that overlap may undo each other's calls.
Begin(r, q) ==
    /\ request[r] = Idle
    /\ request' = [request EXCEPT ![r] = q]
    /\ uncertain' = uncertain \cup
           UNION {q.about \cap request[s].about : s \in Requests \ {r}}
    /\ UNCHANGED <<rows, invitation, tenant, policy, deleted, stray>>

End(r) == request' = [request EXCEPT ![r] = Idle]

\* A DELETE of the tenant takes every membership with it, whoever joined meanwhile.
Cascade(r) ==
    IF request[r].tenancy # "gone" THEN request[r].writes
    ELSE [i \in {j \in RowIds : rows[j] # NoRow /\ rows[j][4] = "tenant"} |-> NoRow]

\* Rows a flush has written are locked until the transaction ends; a new member
\* keeps the tenant's row from being deleted, and a deletion keeps members out.
Blocked(r) ==
    \E s \in Requests \ {r} :
        /\ request[s].step \in {"call", "commit"}
        /\ \/ DOMAIN request[s].writes \cap DOMAIN Cascade(r) # {}
           \/ DOMAIN request[s].invites \cap DOMAIN request[r].invites # {}
           \/ request[s].tenancy # "as is" /\ request[r].tenancy # "as is"
           \/ request[s].joins /\ request[r].tenancy = "gone"
           \/ request[s].tenancy = "gone" /\ request[r].joins

\* A new role of a user whose account is gone.
Unfounded(r) ==
    \E i \in DOMAIN request[r].writes :
        LET t == request[r].writes[i] IN
        rows[i] = NoRow /\ t # NoRow /\ t[1] = "g" /\ t[2] \in deleted

\* An UPDATE finds its row gone, the slug is taken, or the tenant or the user no longer
\* exists.
Refused(r) ==
    \/ Unfounded(r)
    \/ \E i \in request[r].needs : rows[i] = NoRow
    \/ request[r].joins /\ tenant # "live"
    \/ request[r].tenancy = "live" /\ tenant # "new"

\* What comes after a flush or a call.
NextStep(q) == IF q.removes \cup q.adds = {} THEN "commit" ELSE "call"

Moved(q) == [q EXCEPT !.step = NextStep(q)]

Flush(r) ==
    /\ request[r].step = "flush"
    /\ ~Blocked(r)
    /\ IF Refused(r) THEN End(r)
       ELSE request' = [request EXCEPT ![r] = Moved([@ EXCEPT !.writes = Cascade(r)])]
    /\ UNCHANGED <<rows, invitation, tenant, policy, deleted, stray, uncertain>>

\* remove_role_for_user and remove_policy come before add_role_for_user and
\* add_policy; removing what is not there, or adding what is, changes nothing.
CallPolicy(r) ==
    LET q == request[r] IN
    /\ q.step = "call"
    /\ \/ \E t \in q.removes :
            /\ policy' = policy \ Twins(t)
            /\ request' = [request EXCEPT ![r] =
                   Moved([q EXCEPT !.removes = q.removes \ {t}, !.called = q.called \cup {t}])]
       \/ \E t \in q.adds :
            /\ q.removes = {}
            /\ policy' = policy \cup Twins(t)
            /\ request' = [request EXCEPT ![r] =
                   Moved([q EXCEPT !.adds = q.adds \ {t}, !.called = q.called \cup {t}])]
    /\ UNCHANGED <<rows, invitation, tenant, deleted, stray, uncertain>>

\* A call raises: the transaction is rolled back, earlier calls are not.
CallFails(r) ==
    /\ "policy" \in Faults
    /\ request[r].step = "call"
    /\ uncertain' = uncertain \cup HalfDone(request[r])
    /\ End(r)
    /\ UNCHANGED <<rows, invitation, tenant, policy, deleted, stray>>

Overwritten(old, writes) == [i \in DOMAIN old |-> IF i \in DOMAIN writes THEN writes[i] ELSE old[i]]

Commit(r) ==
    /\ request[r].step = "commit"
    /\ rows' = Overwritten(rows, request[r].writes)
    /\ invitation' = Overwritten(invitation, request[r].invites)
    /\ tenant' = IF request[r].tenancy = "as is" THEN tenant ELSE request[r].tenancy
    /\ End(r)
    /\ UNCHANGED <<policy, deleted, stray, uncertain>>

\* The commit raises.  The handler means to take its calls back, but the rollback
\* has expired every object of the session: reading tenant.slug, role.name or
\* current_user.id for the call wants the database, which an async session does not
\* ask on attribute access, and the exception is swallowed.
CommitFails(r) ==
    /\ "commit" \in Faults
    /\ request[r].step = "commit"
    /\ uncertain' = uncertain \cup HalfDone(request[r])
    /\ End(r)
    /\ UNCHANGED <<rows, invitation, tenant, policy, deleted, stray>>

\* The process dies: the database rolls every open transaction back, and the
\* policy is loaded again as it was saved.
Crash ==
    /\ "crash" \in Faults
    /\ \E r \in Requests : request[r] # Idle
    /\ uncertain' = uncertain \cup UNION {HalfDone(request[r]) : r \in Requests}
    /\ request' = [r \in Requests |-> Idle]
    /\ UNCHANGED <<rows, invitation, tenant, policy, deleted, stray>>

Step(r) == Flush(r) \/ CallPolicy(r) \/ CallFails(r) \/ Commit(r) \/ CommitFails(r)

-----------------------------------------------------------------------------
(* Properties.                                                             *)

Resting(x) == \A r \in Requests : x \notin request[r].about

\* The stores agree about every subject no request is busy with, unless two requests
\* about it have overlapped, one was cut short after its first call, or the user's
\* account was deleted: the handlers write and remove the same tuples in both stores,
\* and a failure of the first call leaves both as they were.  A tuple that two rows may
\* stand for goes with the first of them.
PolicyMirrorsRows ==
    \A t \in Tuples :
        /\ Twins(t) = {t}
        /\ Subject(t) \notin uncertain
        /\ Resting(Subject(t))
        => (t \in policy <=> Stored(t))
=============================================================================
