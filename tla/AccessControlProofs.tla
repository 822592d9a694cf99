------------------------ MODULE AccessControlProofs ------------------------
(***************************************************************************)
(* Proofs about AccessControl and PolicyMirror, for one tenant and any     *)
(* number of requests, users, rows and roles, and for all faults.          *)
(*                                                                         *)
(* Every row belongs to one subject, and a request that writes it is about *)
(* that subject.  As long as a subject is certain one request at a time is *)
(* about it, so that nobody else changes its rows and its tuples: what the *)
(* policy will be when the request has made its calls is what the rows     *)
(* will be when it has committed.                                          *)
(***************************************************************************)
EXTENDS AccessControl, Sequences, FiniteSetTheorems, TLAPS

RowType == Tuples \cup {NoRow}

IsMembership(t) == t # NoRow /\ t[4] = "tenant"

IsRequest(q) ==
    q = [step |-> q.step, about |-> q.about, writes |-> q.writes, needs |-> q.needs,
         invites |-> q.invites, tenancy |-> q.tenancy, joins |-> q.joins,
         removes |-> q.removes, adds |-> q.adds, called |-> q.called]

InvitationType == Closed \cup Open

InvitesOK(w) ==
    /\ DOMAIN w \subseteq Invitations
    /\ \A k \in DOMAIN w : w[k] \in InvitationType

\* A request as a handler has prepared it and as its steps have changed it.
RequestOK(q) ==
    /\ IsRequest(q)
    /\ q.step \in {"idle", "flush", "call", "commit"}
    /\ q.step = "idle" => q = Idle
    /\ q.step = "flush" => q.called = {}
    /\ q.step = "commit" => q.removes \cup q.adds = {}
    /\ DOMAIN q.writes \subseteq RowIds
    /\ \A i \in DOMAIN q.writes : q.writes[i] \in RowType
    /\ InvitesOK(q.invites)
    /\ q.removes \cup q.adds \cup q.called \subseteq Tuples
    /\ \A t \in q.removes \cup q.adds \cup q.called : Subject(t) \in q.about
    /\ q.tenancy \in {"as is", "live", "gone"}
    /\ q.joins \in BOOLEAN
    /\ q.tenancy = "gone" =>
          /\ \A u \in Users : RolesOf(u) \in q.about
          /\ \A i \in DOMAIN q.writes : q.writes[i] = NoRow

AccessTypeOK ==
    /\ rows \in [RowIds -> RowType]
    /\ invitation \in [Invitations -> InvitationType]
    /\ tenant \in {"new", "live", "gone"}
    /\ policy \subseteq Tuples
    /\ request = [r \in Requests |-> request[r]]
    /\ \A r \in Requests : RequestOK(request[r])
    /\ deleted \subseteq Users /\ stray \in BOOLEAN

\* Row i holds a tuple of subject x, or will when a request commits.
Has(i, x) ==
    \/ rows[i] # NoRow /\ Subject(rows[i]) = x
    \/ \E r \in Requests :
          /\ i \in DOMAIN request[r].writes
          /\ request[r].writes[i] # NoRow
          /\ Subject(request[r].writes[i]) = x

SubjectsOfTuples == {Subject(t) : t \in Tuples}

OneSubject ==
    \A i \in RowIds : \A x, y \in SubjectsOfTuples : Has(i, x) /\ Has(i, y) => x = y

WritersKnow ==
    \A r \in Requests : \A i \in DOMAIN request[r].writes : \A x \in SubjectsOfTuples :
        Has(i, x) => x \in request[r].about

\* Two requests about one subject make it uncertain.
OneAtATime ==
    \A r, s \in Requests : r # s => request[r].about \cap request[s].about \subseteq uncertain

\* What r writes in the end, and row i after that.
Plan(r) == IF request[r].step = "flush" THEN Cascade(r) ELSE request[r].writes
After(r, i) == IF i \in DOMAIN Plan(r) THEN Plan(r)[i] ELSE rows[i]

\* The rows whose tuple no other row may stand for.
Singles == {t \in Tuples : Twins(t) = {t}}

\* When r has made its calls the policy has the tuples that the rows will have.
CallsFitRows ==
    \A r \in Requests : \A t \in Singles :
        Subject(t) \in request[r].about /\ Subject(t) \notin uncertain =>
            ((\E i \in RowIds : After(r, i) = t)
                <=> t \in (policy \ request[r].removes) \cup request[r].adds)

\* Then every user is a member once.
OnceAfter ==
    \A r \in Requests : \A u \in Users :
        RolesOf(u) \in request[r].about /\ RolesOf(u) \notin uncertain =>
            \A i, j \in RowIds :
                /\ IsMembership(After(r, i)) /\ After(r, i)[2] = u
                /\ IsMembership(After(r, j)) /\ After(r, j)[2] = u
                => i = j

\* The stores agree on what no request has called about.
StoresAgree ==
    \A t \in Singles :
        /\ Subject(t) \notin uncertain
        /\ \A r \in Requests : Subject(t) \notin HalfDone(request[r])
        => (t \in policy <=> Stored(t))

OnceNow ==
    \A u \in Users : RolesOf(u) \notin uncertain =>
        \A i, j \in MembershipsOf(u) : i = j

\* Before the tenant there are no members.
NewIsEmpty ==
    tenant = "new" =>
        /\ Members = {}
        /\ \A r \in Requests : \A i \in DOMAIN request[r].writes :
              IsMembership(request[r].writes[i]) => request[r].tenancy = "live"

\* An owner row that has lost its user belongs to an account that was deleted.
StrayKnown == stray => Ownership \in uncertain

MirrorInv ==
    /\ AccessTypeOK
    /\ StrayKnown
    /\ OneSubject
    /\ WritersKnow
    /\ OneAtATime
    /\ CallsFitRows
    /\ OnceAfter
    /\ StoresAgree
    /\ OnceNow
    /\ NewIsEmpty

-----------------------------------------------------------------------------
(* The owners of a tenant.                                                 *)

Locks(r) == request[r].step \in {"call", "commit"}

\* A request that is not about the owners and does not delete the tenant writes
\* memberships that are not there yet, and nobody else does.
JoinersAreNew ==
    \A r \in Requests : \A i \in DOMAIN request[r].writes :
        /\ Ownership \notin request[r].about
        /\ request[r].tenancy # "gone"
        /\ IsMembership(request[r].writes[i])
        => /\ rows[i] = NoRow
           /\ \A s \in Requests : i \in DOMAIN request[s].writes => s = r
           /\ request[r].joins \/ request[r].tenancy = "live"

\* Who removes or changes a membership is about the owners, or deletes the tenant.
ChangesKnow ==
    \A r \in Requests : \A i \in DOMAIN request[r].writes :
        IsMembership(rows[i]) => Ownership \in request[r].about \/ request[r].tenancy = "gone"

\* Rows are locked by one request at a time, and a deletion by itself.
RowsLockedOnce ==
    \A r, s \in Requests : r # s /\ Locks(r) /\ Locks(s) =>
        /\ DOMAIN request[r].writes \cap DOMAIN request[s].writes = {}
        /\ request[r].tenancy = "gone" => ~request[s].joins /\ request[s].tenancy = "as is"

\* A row that is changed is there; a deletion takes all members.
ChangedRowsExist ==
    \A r \in Requests : \A i \in DOMAIN request[r].writes :
        Locks(r) /\ Ownership \in request[r].about /\ request[r].writes[i] # NoRow
            => rows[i] # NoRow

DeletionTakesAll ==
    \A r \in Requests : Locks(r) /\ request[r].tenancy = "gone" =>
        Members \subseteq DOMAIN request[r].writes

\* An owner is about to be removed only if there is another.
AnotherOwner ==
    Ownership \notin uncertain =>
        \A r \in Requests : \A i \in OwnerRows \cap DOMAIN request[r].writes :
            request[r].tenancy = "as is" /\ request[r].writes[i] = NoRow =>
                \E j \in OwnerRows : j \notin DOMAIN request[r].writes

ChangeShape ==
    \A r \in Requests : Ownership \in request[r].about =>
        /\ request[r].tenancy = "as is"
        /\ \A i, j \in DOMAIN request[r].writes : i = j
        /\ \A i \in DOMAIN request[r].writes : request[r].writes[i] = NoRow \/ i \in request[r].needs

OwnersInv ==
    /\ JoinersAreNew
    /\ ChangesKnow
    /\ RowsLockedOnce
    /\ ChangedRowsExist
    /\ DeletionTakesAll
    /\ AnotherOwner
    /\ ChangeShape

-----------------------------------------------------------------------------
(* Tuples and their subjects.                                              *)

LEMMA LongTuple ==
    ASSUME NEW a, NEW b, NEW c, NEW d, NEW e, NEW f
    PROVE  <<a, b, c, d>> # <<e>> /\ <<a, b, c, d>> # <<e, f>>
<1>1. Len(<<a, b, c, d>>) = 4
    OBVIOUS
<1>2. Len(<<e>>) = 1 /\ Len(<<e, f>>) = 2
    OBVIOUS
<1> QED
    BY <1>1, <1>2

LEMMA TupleForm ==
    ASSUME NEW t \in Tuples
    PROVE  \/ \E u \in Users, role \in Roles : t = <<"g", u, role, "tenant">>
           \/ \E u \in Users, role \in Catalog : t = <<"g", u, role, "catalog">>
           \/ \E role \in Catalog, p \in Permissions : t = <<"p", role, p, "catalog">>
<1>1. CASE t \in {Membership(u, role) : u \in Users, role \in Roles}
    BY <1>1 DEF Membership
<1>2. CASE t \in {Assignment(u, role) : u \in Users, role \in Catalog}
    BY <1>2 DEF Assignment
<1>3. CASE t \in {Grant(role, p) : role \in Catalog, p \in Permissions}
    BY <1>3 DEF Grant
<1> QED
    BY <1>1, <1>2, <1>3 DEF Tuples

LEMMA NoRowIsNoTuple == \A t \in Tuples : t # NoRow
BY TupleForm, LongTuple DEF NoRow

LEMMA RolesOfForm == \A u : RolesOf(u) = <<"roles of", u>>
BY DEF RolesOf, Subject, Membership

LEMMA MembershipForm ==
    ASSUME NEW t \in Tuples, t[4] = "tenant"
    PROVE  /\ t = Membership(t[2], t[3])
           /\ t[2] \in Users /\ t[3] \in Roles
           /\ Subject(t) = RolesOf(t[2])
<1>1. PICK u \in Users, role \in Roles : t = <<"g", u, role, "tenant">>
    <2>1. \A a, b, c : <<a, b, c, "catalog">>[4] = "catalog"
        OBVIOUS
    <2> QED
        BY <2>1, TupleForm
<1>2. t[2] = u /\ t[3] = role
    BY <1>1
<1> QED
    BY <1>1, <1>2, RolesOfForm DEF Membership, Subject

LEMMA CatalogForm ==
    \A t \in Tuples : t[4] # "tenant" => Subject(t) = t
BY DEF Subject

LEMMA MembershipIsTuple ==
    ASSUME NEW u \in Users, NEW role \in Roles
    PROVE  /\ Membership(u, role) \in Tuples
           /\ IsMembership(Membership(u, role))
           /\ Membership(u, role)[2] = u
           /\ Membership(u, role)[3] = role
           /\ Subject(Membership(u, role)) = RolesOf(u)
<1>1. Membership(u, role) \in Tuples
    BY DEF Tuples
<1>2. Membership(u, role)[2] = u /\ Membership(u, role)[3] = role
      /\ Membership(u, role)[4] = "tenant"
    BY DEF Membership
<1> QED
    BY <1>1, <1>2, NoRowIsNoTuple, MembershipForm DEF IsMembership

LEMMA RolesOfInjective ==
    \A u, v : RolesOf(u) = RolesOf(v) => u = v
<1> SUFFICES ASSUME NEW u, NEW v, <<"roles of", u>> = <<"roles of", v>> PROVE u = v
    BY RolesOfForm
<1> QED
    OBVIOUS

LEMMA SubjectsDiffer ==
    /\ \A t \in Tuples : Subject(t) # Ownership
    /\ \A t \in Tuples : \A u : t[4] # "tenant" => Subject(t) # RolesOf(u)
    /\ \A u : RolesOf(u) # Ownership
<1>1. \A u : RolesOf(u) # Ownership
    BY RolesOfForm DEF Ownership
<1>2. ASSUME NEW t \in Tuples, NEW u PROVE t # RolesOf(u) /\ t # Ownership
    BY TupleForm, LongTuple, RolesOfForm DEF Ownership
<1> QED
    BY <1>1, <1>2, MembershipForm, CatalogForm

\* Rows that share their tuple with no other are added and removed by themselves.
LEMMA TwinFacts ==
    ASSUME NEW t \in Tuples
    PROVE  /\ t \in Twins(t) /\ Twins(t) \subseteq Tuples
           /\ \A y \in Singles : y \in Tuples /\ (y \in Twins(t) <=> y = t)
<1>1. t \in Twins(t) /\ Twins(t) \subseteq Tuples
    BY DEF Twins
<1>2. ASSUME NEW y \in Singles PROVE y \in Tuples /\ (y \in Twins(t) <=> y = t)
    <2>1. y \in Tuples /\ Twins(y) = {y}
        BY <1>2 DEF Singles
    <2>2. y \in Twins(t) => t \in Twins(y)
        BY <2>1 DEF Twins
    <2> QED
        BY <1>1, <2>1, <2>2
<1> QED
    BY <1>1, <1>2

\* A tenant whose slug is not the catalog's domain has tuples of its own.
LEMMA OwnTuples ==
    ASSUME Slug # Global
    PROVE  Singles = Tuples
<1>1. ASSUME NEW s \in Tuples, NEW t \in Tuples, InPolicy(s) = InPolicy(t)
      PROVE  s = t
    <2> DEFINE domain(x) == IF x[4] = "tenant" THEN Slug ELSE Global
    <2>1. s[1] = t[1] /\ s[2] = t[2] /\ s[3] = t[3] /\ domain(s) = domain(t)
        BY <1>1 DEF InPolicy
    <2>2. ASSUME NEW x \in Tuples
          PROVE  x = <<x[1], x[2], x[3], x[4]>> /\ x[4] \in {"tenant", "catalog"}
        BY TupleForm
    <2>3. s[4] = t[4]
        BY <2>1, <2>2
    <2> QED
        BY <2>1, <2>2, <2>3
<1>2. ASSUME NEW t \in Tuples PROVE Twins(t) = {t}
    BY <1>1 DEF Twins
<1> QED
    BY <1>2 DEF Singles

LEMMA NoWrites == DOMAIN Idle.writes = {} /\ DOMAIN Idle.invites = {}
BY DEF Idle

-----------------------------------------------------------------------------
(* Requests.                                                               *)

LEMMA IdleOK == RequestOK(Idle) /\ HalfDone(Idle) = {} /\ Idle.about = {}
<1>1. Idle.called = {} /\ Idle.removes = {} /\ Idle.adds = {}
    BY DEF Idle
<1>2. HalfDone(Idle) = {}
    BY <1>1 DEF HalfDone
<1>3. RequestOK(Idle)
    BY <1>1, NoWrites DEF RequestOK, IsRequest, InvitesOK, Idle
<1> QED
    BY <1>2, <1>3 DEF Idle

LEMMA SubjectsAreSubjects == \A t \in Tuples : Subject(t) \in SubjectsOfTuples
BY DEF SubjectsOfTuples

LEMMA HalfDoneIsKnown ==
    ASSUME NEW q, RequestOK(q)
    PROVE  HalfDone(q) \subseteq q.about
<1>1. \A t \in q.called : Subject(t) \in q.about
    BY DEF RequestOK
<1> QED
    BY <1>1 DEF HalfDone

\* Subjects are the same in every state.
LEMMA SubjectsAreConstant ==
    /\ Tuples' = Tuples /\ SubjectsOfTuples' = SubjectsOfTuples /\ Singles' = Singles
    /\ \A t : Subject(t)' = Subject(t)
    /\ \A u : RolesOf(u)' = RolesOf(u)
BY DEF Tuples, SubjectsOfTuples, Singles, Twins, InPolicy, Subject, RolesOf, Membership

\* What a request would do that begins now.
PlanOf(q) == IF q.tenancy = "gone" THEN [i \in Members |-> NoRow] ELSE q.writes
AfterOf(q, i) == IF i \in DOMAIN PlanOf(q) THEN PlanOf(q)[i] ELSE rows[i]

\* Nobody is busy with the subject.
Settled(x) == x \notin uncertain /\ \A s \in Requests : x \notin request[s].about

\* A new row belongs to a subject of the request, and so does one that is changed,
\* which stays with its subject.
WritesFit(q) ==
    \A i \in DOMAIN q.writes :
        /\ q.writes[i] # NoRow => Subject(q.writes[i]) \in q.about
        /\ \/ Fresh(i)
           \/ /\ rows[i] # NoRow
              /\ Subject(rows[i]) \in q.about
              /\ q.writes[i] # NoRow => Subject(q.writes[i]) = Subject(rows[i])

PolicyWillFit(q) ==
    \A t \in Singles : Subject(t) \in q.about /\ Settled(Subject(t)) =>
        ((\E i \in RowIds : AfterOf(q, i) = t) <=> t \in (policy \ q.removes) \cup q.adds)

MembersWillBeOnce(q) ==
    \A u \in Users : RolesOf(u) \in q.about /\ Settled(RolesOf(u)) =>
        \A i, j \in RowIds :
            /\ IsMembership(AfterOf(q, i)) /\ AfterOf(q, i)[2] = u
            /\ IsMembership(AfterOf(q, j)) /\ AfterOf(q, j)[2] = u
            => i = j

\* A membership that is written is new, or the request is about the owners, of whom
\* it leaves one, or deletes the tenant.
OwnersSeen(q) ==
    /\ \A i \in DOMAIN q.writes :
          \/ Fresh(i) /\ (IsMembership(q.writes[i]) => q.joins \/ q.tenancy = "live")
          \/ Ownership \in q.about \/ q.tenancy = "gone"
          \/ ~IsMembership(rows[i]) /\ ~IsMembership(q.writes[i])
    /\ Ownership \in q.about =>
          /\ q.tenancy = "as is"
          /\ \A i, j \in DOMAIN q.writes : i = j
          /\ \A i \in DOMAIN q.writes : q.writes[i] = NoRow \/ i \in q.needs
    /\ Ownership \notin uncertain =>
          \A i \in OwnerRows \cap DOMAIN q.writes :
              q.tenancy = "as is" /\ q.writes[i] = NoRow =>
                  \E j \in OwnerRows : j \notin DOMAIN q.writes

\* What a handler has to see to.
Prepared(q) ==
    /\ RequestOK(q)
    /\ q.step = "flush"
    /\ WritesFit(q)
    /\ PolicyWillFit(q)
    /\ MembersWillBeOnce(q)
    /\ tenant = "new" => \A i \in DOMAIN q.writes :
          IsMembership(q.writes[i]) => q.tenancy = "live"
    /\ OwnersSeen(q)

\* A handler has begun a request.
Begins(r) == \E q : Begin(r, q) /\ Prepared(q)

LEMMA BeginTypes ==
    ASSUME MirrorInv, NEW r \in Requests, NEW q, Begin(r, q), RequestOK(q)
    PROVE  AccessTypeOK'
<1>1. request' = [s \in Requests |-> request'[s]]
    BY DEF Begin, MirrorInv, AccessTypeOK
<1>2. \A s \in Requests : request'[s] = q \/ request'[s] = request[s]
    BY DEF Begin, MirrorInv, AccessTypeOK
<1>3. \A s \in Requests : RequestOK(request[s])
    BY DEF MirrorInv, AccessTypeOK
<1>4. \A s \in Requests : RequestOK(request'[s])
    BY <1>2, <1>3
<1>5. \A s \in Requests : RequestOK(request[s])'
    BY <1>4 DEF RequestOK, IsRequest, InvitesOK, RolesOf, Subject, Membership
<1> QED
    BY <1>1, <1>5 DEF Begin, MirrorInv, AccessTypeOK

\* The request, and everybody else's.
LEMMA BeginFacts ==
    ASSUME MirrorInv, NEW r \in Requests, NEW q, Begin(r, q)
    PROVE  /\ request[r] = Idle
           /\ request'[r] = q
           /\ \A s \in Requests : s # r => request'[s] = request[s]
           /\ uncertain \subseteq uncertain' /\ stray' = stray
           /\ rows' = rows /\ policy' = policy /\ tenant' = tenant
           /\ \A s \in Requests : s # r => q.about \cap request[s].about \subseteq uncertain'
BY DEF Begin, MirrorInv, AccessTypeOK

LEMMA BeginHas ==
    ASSUME MirrorInv, NEW r \in Requests, NEW q, Begin(r, q), Prepared(q),
           NEW i \in RowIds, NEW x, Has(i, x)'
    PROVE  \/ Has(i, x)
           \/ /\ i \in DOMAIN q.writes /\ q.writes[i] # NoRow /\ Subject(q.writes[i]) = x
              /\ Fresh(i)
<1>1. CASE rows[i] # NoRow /\ Subject(rows[i]) = x
    BY <1>1 DEF Has
<1>2. CASE \E s \in Requests : /\ i \in DOMAIN request'[s].writes
                               /\ request'[s].writes[i] # NoRow
                               /\ Subject(request'[s].writes[i]) = x
    <2>1. PICK s \in Requests : /\ i \in DOMAIN request'[s].writes
                                /\ request'[s].writes[i] # NoRow
                                /\ Subject(request'[s].writes[i]) = x
        BY <1>2
    <2>2. CASE s # r
        BY <2>1, <2>2, BeginFacts DEF Has
    <2>3. CASE s = r
        <3>1. /\ i \in DOMAIN q.writes
              /\ q.writes[i] # NoRow
              /\ Subject(q.writes[i]) = x
            BY <2>1, <2>3, BeginFacts
        <3>2. CASE Fresh(i)
            BY <3>1, <3>2
        <3>3. CASE ~Fresh(i)
            BY <3>1, <3>3 DEF Prepared, WritesFit, Has
        <3> QED
            BY <3>2, <3>3
    <2> QED
        BY <2>2, <2>3
<1> QED
    <2>1. rows' = rows
        BY BeginFacts
    <2>2. \/ rows'[i] # NoRow /\ Subject(rows'[i]) = x
          \/ \E s \in Requests : /\ i \in DOMAIN request'[s].writes
                                 /\ request'[s].writes[i] # NoRow
                                 /\ Subject(request'[s].writes[i]) = x
        BY DEF Has, Subject
    <2> QED
        BY <1>1, <1>2, <2>1, <2>2

LEMMA FreshHasNone ==
    ASSUME NEW i, NEW x, Fresh(i), Has(i, x)
    PROVE  FALSE
BY DEF Fresh, Has

LEMMA BeginKeepsInv ==
    ASSUME MirrorInv, NEW r \in Requests, NEW q, Begin(r, q), Prepared(q)
    PROVE  MirrorInv'
<1>1. AccessTypeOK'
    BY BeginTypes DEF Prepared
<1>2. OneSubject'
    <2>1. OneSubject
        BY DEF MirrorInv
    <2>2. ASSUME NEW i \in RowIds, NEW x \in SubjectsOfTuples, NEW y \in SubjectsOfTuples,
                 Has(i, x)', Has(i, y)'
          PROVE  x = y
        <3>1. \/ Has(i, x)
              \/ /\ i \in DOMAIN q.writes /\ q.writes[i] # NoRow /\ Subject(q.writes[i]) = x
                 /\ Fresh(i)
            BY <2>2, BeginHas
        <3>2. \/ Has(i, y)
              \/ /\ i \in DOMAIN q.writes /\ q.writes[i] # NoRow /\ Subject(q.writes[i]) = y
                 /\ Fresh(i)
            BY <2>2, BeginHas
        <3> QED
            BY <2>1, <3>1, <3>2, FreshHasNone DEF OneSubject
    <2>3. SubjectsOfTuples' = SubjectsOfTuples
        BY DEF SubjectsOfTuples, Subject, Tuples
    <2> QED
        BY <2>2, <2>3 DEF OneSubject
<1>3. WritersKnow'
    <2>1. ASSUME NEW s \in Requests, NEW i \in DOMAIN request'[s].writes,
                 NEW x \in SubjectsOfTuples, Has(i, x)'
          PROVE  x \in request'[s].about
        <3>0. i \in RowIds
            BY <1>1, <2>1 DEF AccessTypeOK, RequestOK
        <3>1. \/ Has(i, x)
              \/ /\ i \in DOMAIN q.writes /\ q.writes[i] # NoRow /\ Subject(q.writes[i]) = x
                 /\ Fresh(i)
            BY <2>1, <3>0, BeginHas
        <3>2. CASE s # r
            <4>1. request'[s] = request[s] /\ ~Fresh(i)
                BY <2>1, <3>2, BeginFacts DEF Fresh
            <4> QED
                BY <2>1, <3>1, <4>1 DEF MirrorInv, WritersKnow
        <3>3. CASE s = r
            <4>1. request'[r] = q /\ i \in DOMAIN q.writes
                BY <2>1, <3>3, BeginFacts
            <4>2. CASE Fresh(i)
                <5>1. q.writes[i] # NoRow /\ Subject(q.writes[i]) = x
                    BY <3>1, <4>2, FreshHasNone
                <5> QED
                    BY <3>3, <4>1, <5>1 DEF Prepared, WritesFit
            <4>3. CASE ~Fresh(i)
                <5>1. rows[i] # NoRow /\ Subject(rows[i]) \in q.about
                    BY <4>1, <4>3 DEF Prepared, WritesFit
                <5>2. Has(i, Subject(rows[i])) /\ Has(i, x)
                    BY <3>1, <4>3, <5>1 DEF Has
                <5>3. Subject(rows[i]) \in SubjectsOfTuples
                    BY <3>0, <5>1, SubjectsAreSubjects DEF MirrorInv, AccessTypeOK, RowType
                <5>4. x = Subject(rows[i])
                    BY <3>0, <5>2, <5>3 DEF MirrorInv, OneSubject
                <5> QED
                    BY <3>3, <4>1, <5>1, <5>4
            <4> QED
                BY <4>2, <4>3
        <3> QED
            BY <3>2, <3>3
    <2>2. SubjectsOfTuples' = SubjectsOfTuples
        BY DEF SubjectsOfTuples, Subject, Tuples
    <2> QED
        BY <2>1, <2>2 DEF WritersKnow
<1>4. OneAtATime'
    <2>1. \A s, z \in Requests : s # z /\ s # r /\ z # r =>
              request'[s].about \cap request'[z].about \subseteq uncertain'
        BY BeginFacts DEF MirrorInv, OneAtATime
    <2>2. \A s \in Requests : s # r => request'[s].about \cap request'[r].about \subseteq uncertain'
        BY BeginFacts
    <2> QED
        BY <2>1, <2>2 DEF OneAtATime
<1>5. ASSUME NEW s \in Requests, s # r
      PROVE  \A i : After(s, i)' = After(s, i)
    BY <1>5, BeginFacts DEF After, Plan, Cascade
<1>6. \A i : After(r, i)' = AfterOf(q, i)
    BY BeginFacts DEF After, AfterOf, Plan, PlanOf, Cascade, Members, Prepared
<1>7. \A x : x \in q.about /\ x \notin uncertain' => Settled(x)
    <2>1. \A x : x \in request[r].about => FALSE
        BY BeginFacts, IdleOK
    <2> QED
        BY <2>1, BeginFacts DEF Settled
<1>8. CallsFitRows'
    <2>1. ASSUME NEW s \in Requests, NEW t \in Singles,
                 Subject(t) \in request'[s].about, Subject(t) \notin uncertain'
          PROVE  (\E i \in RowIds : After(s, i)' = t)
                    <=> t \in (policy' \ request'[s].removes) \cup request'[s].adds
        <3>1. CASE s # r
            <4>1. /\ request'[s] = request[s] /\ policy' = policy
                  /\ Subject(t) \notin uncertain
                BY <2>1, <3>1, BeginFacts
            <4>2. (\E i \in RowIds : After(s, i) = t)
                    <=> t \in (policy \ request[s].removes) \cup request[s].adds
                BY <2>1, <4>1 DEF MirrorInv, CallsFitRows
            <4> QED
                BY <1>5, <3>1, <4>1, <4>2
        <3>2. CASE s = r
            <4>1. request'[s] = q /\ policy' = policy
                BY <3>2, BeginFacts
            <4>2. Settled(Subject(t))
                BY <1>7, <2>1, <4>1
            <4> QED
                BY <1>6, <2>1, <3>2, <4>1, <4>2 DEF Prepared, PolicyWillFit
        <3> QED
            BY <3>1, <3>2
    <2>2. Singles' = Singles /\ \A t : Subject(t)' = Subject(t)
        BY SubjectsAreConstant
    <2> QED
        BY <2>1, <2>2 DEF CallsFitRows
<1>9. OnceAfter'
    <2> SUFFICES ASSUME NEW s \in Requests, NEW u \in Users,
                        (RolesOf(u) \in request[s].about)', (RolesOf(u) \notin uncertain)',
                        NEW i \in RowIds, NEW j \in RowIds,
                        IsMembership(After(s, i))', (After(s, i)[2] = u)',
                        IsMembership(After(s, j))', (After(s, j)[2] = u)'
                 PROVE  i = j
        BY DEF OnceAfter
    <2>1. RolesOf(u) \in request'[s].about /\ RolesOf(u) \notin uncertain'
        BY SubjectsAreConstant
    <2>2. /\ IsMembership(After(s, i)') /\ After(s, i)'[2] = u
          /\ IsMembership(After(s, j)') /\ After(s, j)'[2] = u
        BY DEF IsMembership
    <2>3. CASE s # r
        BY <1>5, <2>1, <2>2, <2>3, BeginFacts DEF MirrorInv, OnceAfter
    <2>4. CASE s = r
        BY <1>6, <1>7, <2>1, <2>2, <2>4, BeginFacts DEF Prepared, MembersWillBeOnce
    <2> QED
        BY <2>3, <2>4
<1>10. StoresAgree'
    <2>1. ASSUME NEW t \in Singles, Subject(t) \notin uncertain',
                 \A s \in Requests : Subject(t) \notin HalfDone(request'[s])
          PROVE  t \in policy' <=> Stored(t)'
        <3>1. \A s \in Requests : Subject(t) \notin HalfDone(request[s])
            <4>1. Subject(t) \notin HalfDone(request[r])
                BY BeginFacts, IdleOK
            <4> QED
                BY <2>1, <4>1, BeginFacts
        <3>2. t \in policy <=> Stored(t)
            BY <2>1, <3>1, BeginFacts DEF MirrorInv, StoresAgree
        <3> QED
            BY <3>2, BeginFacts DEF Stored
    <2> QED
        BY <2>1, SubjectsAreConstant DEF StoresAgree, HalfDone
<1>11. OnceNow'
    <2> SUFFICES ASSUME NEW u \in Users, (RolesOf(u) \notin uncertain)',
                        NEW i \in MembershipsOf(u)', NEW j \in MembershipsOf(u)'
                 PROVE  i = j
        BY DEF OnceNow
    <2>1. RolesOf(u) \notin uncertain
        BY BeginFacts, SubjectsAreConstant
    <2>2. i \in MembershipsOf(u) /\ j \in MembershipsOf(u)
        BY BeginFacts DEF MembershipsOf, Members
    <2> QED
        BY <2>1, <2>2 DEF MirrorInv, OnceNow
<1>12. NewIsEmpty'
    <2>1. ASSUME tenant = "new", NEW s \in Requests, NEW i \in DOMAIN request'[s].writes,
                 IsMembership(request'[s].writes[i])
          PROVE  request'[s].tenancy = "live"
        <3>1. CASE s # r
            BY <2>1, <3>1, BeginFacts DEF MirrorInv, NewIsEmpty
        <3>2. CASE s = r
            BY <2>1, <3>2, BeginFacts DEF Prepared
        <3> QED
            BY <3>1, <3>2
    <2>2. tenant = "new" => Members = {}
        BY DEF MirrorInv, NewIsEmpty
    <2> QED
        BY <2>1, <2>2, BeginFacts DEF NewIsEmpty, Members, IsMembership
<1>13. StrayKnown'
    BY BeginFacts DEF MirrorInv, StrayKnown, Ownership
<1> QED
    BY <1>1, <1>2, <1>3, <1>4, <1>8, <1>9, <1>10, <1>11, <1>12, <1>13 DEF MirrorInv

-----------------------------------------------------------------------------
(* The steps of a request.                                                 *)

\* Requests that are given up: what one had called about is uncertain from now on.
GivenUp ==
    /\ request' = [s \in Requests |-> request'[s]]
    /\ \A s \in Requests :
          \/ request'[s] = request[s]
          \/ request'[s] = Idle /\ HalfDone(request[s]) \subseteq uncertain'
    /\ uncertain \subseteq uncertain'
    /\ invitation' \in [Invitations -> InvitationType]
    /\ rows' = rows /\ tenant' = tenant /\ policy' = policy
    /\ deleted' = deleted /\ stray' = stray

LEMMA GivenUpHas ==
    ASSUME GivenUp, NEW i, NEW x, Has(i, x)'
    PROVE  Has(i, x)
<1>1. \/ rows[i] # NoRow /\ Subject(rows[i]) = x
      \/ \E s \in Requests : /\ i \in DOMAIN request'[s].writes
                             /\ request'[s].writes[i] # NoRow
                             /\ Subject(request'[s].writes[i]) = x
    BY DEF Has, GivenUp, Subject
<1> QED
    BY <1>1, NoWrites DEF Has, GivenUp

LEMMA GivingUpKeepsInv ==
    ASSUME MirrorInv, GivenUp
    PROVE  MirrorInv'
<1>1. AccessTypeOK'
    <2>1. \A s \in Requests : RequestOK(request'[s])
        BY IdleOK DEF GivenUp, MirrorInv, AccessTypeOK
    <2>2. \A s \in Requests : RequestOK(request[s])'
        BY <2>1 DEF RequestOK, IsRequest, InvitesOK, RolesOf, Subject, Membership
    <2> QED
        BY <2>2 DEF GivenUp, MirrorInv, AccessTypeOK
<1>2. OneSubject'
    BY GivenUpHas, SubjectsAreConstant DEF MirrorInv, OneSubject
<1>3. WritersKnow'
    <2>1. ASSUME NEW s \in Requests, NEW i \in DOMAIN request'[s].writes,
                 NEW x \in SubjectsOfTuples, Has(i, x)'
          PROVE  x \in request'[s].about
        <3>1. request'[s] = request[s]
            BY <2>1, NoWrites DEF GivenUp
        <3> QED
            BY <2>1, <3>1, GivenUpHas DEF MirrorInv, WritersKnow
    <2> QED
        BY <2>1, SubjectsAreConstant DEF WritersKnow
<1>4. OneAtATime'
    BY IdleOK DEF GivenUp, MirrorInv, OneAtATime
<1>5. ASSUME NEW s \in Requests, request'[s] = request[s]
      PROVE  \A i : After(s, i)' = After(s, i)
    BY <1>5 DEF After, Plan, Cascade, GivenUp
<1>6. CallsFitRows'
    <2> SUFFICES ASSUME NEW s \in Requests, NEW t \in Singles,
                        Subject(t) \in request'[s].about, Subject(t) \notin uncertain'
                 PROVE  (\E i \in RowIds : After(s, i)' = t)
                            <=> t \in (policy' \ request'[s].removes) \cup request'[s].adds
        BY SubjectsAreConstant DEF CallsFitRows, Subject
    <2>1. request'[s] = request[s]
        BY IdleOK DEF GivenUp
    <2>2. policy' = policy /\ Subject(t) \notin uncertain
        BY DEF GivenUp
    <2> QED
        BY <1>5, <2>1, <2>2 DEF MirrorInv, CallsFitRows
<1>7. OnceAfter'
    <2> SUFFICES ASSUME NEW s \in Requests, NEW u \in Users,
                        (RolesOf(u) \in request[s].about)', (RolesOf(u) \notin uncertain)',
                        NEW i \in RowIds, NEW j \in RowIds,
                        IsMembership(After(s, i))', (After(s, i)[2] = u)',
                        IsMembership(After(s, j))', (After(s, j)[2] = u)'
                 PROVE  i = j
        BY DEF OnceAfter
    <2>1. RolesOf(u) \in request'[s].about /\ RolesOf(u) \notin uncertain'
        BY SubjectsAreConstant
    <2>2. /\ IsMembership(After(s, i)') /\ After(s, i)'[2] = u
          /\ IsMembership(After(s, j)') /\ After(s, j)'[2] = u
        BY DEF IsMembership
    <2>3. request'[s] = request[s] /\ RolesOf(u) \notin uncertain
        BY <2>1, IdleOK DEF GivenUp
    <2> QED
        BY <1>5, <2>1, <2>2, <2>3 DEF MirrorInv, OnceAfter
<1>8. StoresAgree'
    <2>1. ASSUME NEW t \in Singles, Subject(t) \notin uncertain',
                 \A s \in Requests : Subject(t) \notin HalfDone(request'[s])
          PROVE  t \in policy' <=> Stored(t)'
        <3>1. \A s \in Requests : Subject(t) \notin HalfDone(request[s])
            BY <2>1 DEF GivenUp
        <3>2. t \in policy <=> Stored(t)
            BY <2>1, <3>1 DEF GivenUp, MirrorInv, StoresAgree
        <3> QED
            BY <3>2 DEF GivenUp, Stored
    <2> QED
        BY <2>1, SubjectsAreConstant DEF StoresAgree, HalfDone
<1>9. OnceNow'
    <2> SUFFICES ASSUME NEW u \in Users, (RolesOf(u) \notin uncertain)',
                        NEW i \in MembershipsOf(u)', NEW j \in MembershipsOf(u)'
                 PROVE  i = j
        BY DEF OnceNow
    <2>1. RolesOf(u) \notin uncertain
        BY SubjectsAreConstant DEF GivenUp
    <2>2. i \in MembershipsOf(u) /\ j \in MembershipsOf(u)
        BY DEF GivenUp, MembershipsOf, Members
    <2> QED
        BY <2>1, <2>2 DEF MirrorInv, OnceNow
<1>10. NewIsEmpty'
    <2>1. ASSUME tenant = "new", NEW s \in Requests, NEW i \in DOMAIN request'[s].writes,
                 IsMembership(request'[s].writes[i])
          PROVE  request'[s].tenancy = "live"
        BY <2>1, NoWrites DEF GivenUp, MirrorInv, NewIsEmpty
    <2>2. tenant = "new" => Members = {}
        BY DEF MirrorInv, NewIsEmpty
    <2> QED
        BY <2>1, <2>2 DEF NewIsEmpty, Members, IsMembership, GivenUp
<1>11. StrayKnown'
    BY DEF GivenUp, MirrorInv, StrayKnown, Ownership
<1> QED
    BY <1>1, <1>2, <1>3, <1>4, <1>6, <1>7, <1>8, <1>9, <1>10, <1>11 DEF MirrorInv

\* r goes on: the rows stay, it writes what it planned, its calls come to the same,
\* and the policy changes at most where r has called.
Proceeds(r) ==
    /\ request' = [s \in Requests |-> request'[s]]
    /\ \A s \in Requests : s # r => request'[s] = request[s]
    /\ RequestOK(request'[r])
    /\ request'[r].step \in {"call", "commit"}
    /\ request'[r].about = request[r].about
    /\ request'[r].tenancy = request[r].tenancy
    /\ request'[r].writes = Plan(r)
    /\ request'[r].joins = request[r].joins /\ request'[r].needs = request[r].needs
    /\ request[r].step \in {"flush", "call"}
    /\ request[r].step = "flush" => ~Blocked(r) /\ ~Refused(r)
    /\ \A t \in Singles : t \in (policy' \ request'[r].removes) \cup request'[r].adds
          <=> t \in (policy \ request[r].removes) \cup request[r].adds
    /\ policy' \subseteq Tuples
    /\ HalfDone(request[r]) \subseteq HalfDone(request'[r])
    /\ \A t \in Singles : Subject(t) \notin HalfDone(request'[r]) => (t \in policy' <=> t \in policy)
    /\ uncertain' = uncertain /\ rows' = rows /\ tenant' = tenant /\ invitation' = invitation
    /\ deleted' = deleted /\ stray' = stray

LEMMA CascadeFacts ==
    ASSUME MirrorInv, NEW r \in Requests
    PROVE  /\ DOMAIN Plan(r) \subseteq RowIds
           /\ \A i \in DOMAIN Plan(r) :
                 \/ Plan(r) = request[r].writes
                 \/ /\ request[r].tenancy = "gone"
                    /\ rows[i] # NoRow /\ rows[i][4] = "tenant" /\ Plan(r)[i] = NoRow
<1>1. RequestOK(request[r])
    BY DEF MirrorInv, AccessTypeOK
<1>2. DOMAIN request[r].writes \subseteq RowIds
    BY <1>1 DEF RequestOK
<1> QED
    BY <1>2 DEF Plan, Cascade

LEMMA ProceedsHas ==
    ASSUME MirrorInv, NEW r \in Requests, Proceeds(r), NEW i, NEW x, Has(i, x)'
    PROVE  Has(i, x)
<1>1. \/ rows'[i] # NoRow /\ Subject(rows'[i]) = x
      \/ \E s \in Requests : /\ i \in DOMAIN request'[s].writes
                             /\ request'[s].writes[i] # NoRow
                             /\ Subject(request'[s].writes[i]) = x
    BY DEF Has, Subject
<1>2. CASE rows'[i] # NoRow /\ Subject(rows'[i]) = x
    BY <1>2 DEF Has, Proceeds
<1>3. ASSUME NEW s \in Requests,
             i \in DOMAIN request'[s].writes,
             request'[s].writes[i] # NoRow,
             Subject(request'[s].writes[i]) = x
      PROVE  Has(i, x)
    <2>1. CASE s # r
        BY <1>3, <2>1 DEF Has, Proceeds
    <2>2. CASE s = r
        <3>1. i \in DOMAIN Plan(r) /\ Plan(r)[i] # NoRow /\ Subject(Plan(r)[i]) = x
            BY <1>3, <2>2 DEF Proceeds
        <3>2. Plan(r) = request[r].writes
            BY <3>1, CascadeFacts
        <3> QED
            BY <3>1, <3>2 DEF Has
    <2> QED
        BY <2>1, <2>2
<1> QED
    BY <1>1, <1>2, <1>3

LEMMA ProceedingKeepsInv ==
    ASSUME MirrorInv, NEW r \in Requests, Proceeds(r)
    PROVE  MirrorInv'
<1>1. AccessTypeOK'
    <2>1. \A s \in Requests : RequestOK(request'[s])
        BY DEF Proceeds, MirrorInv, AccessTypeOK
    <2>2. \A s \in Requests : RequestOK(request[s])'
        BY <2>1 DEF RequestOK, IsRequest, InvitesOK, RolesOf, Subject, Membership
    <2> QED
        BY <2>2 DEF Proceeds, MirrorInv, AccessTypeOK
<1>2. OneSubject'
    BY ProceedsHas, SubjectsAreConstant DEF MirrorInv, OneSubject
<1>3. WritersKnow'
    <2>1. ASSUME NEW s \in Requests, NEW i \in DOMAIN request'[s].writes,
                 NEW x \in SubjectsOfTuples, Has(i, x)'
          PROVE  x \in request'[s].about
        <3>1. Has(i, x)
            BY <2>1, ProceedsHas
        <3>2. CASE s # r
            BY <2>1, <3>1, <3>2 DEF MirrorInv, WritersKnow, Proceeds
        <3>3. CASE s = r
            <4>1. i \in DOMAIN Plan(r) /\ request'[r].about = request[r].about
                BY <2>1, <3>3 DEF Proceeds
            <4>2. CASE Plan(r) = request[r].writes
                BY <2>1, <3>1, <3>3, <4>1, <4>2 DEF MirrorInv, WritersKnow
            <4>3. CASE request[r].tenancy = "gone" /\ rows[i] # NoRow /\ rows[i][4] = "tenant"
                <5>1. rows[i] \in Tuples /\ i \in RowIds
                    BY <4>1, <4>3, CascadeFacts DEF MirrorInv, AccessTypeOK, RowType
                <5>2. rows[i][2] \in Users /\ Subject(rows[i]) = RolesOf(rows[i][2])
                    BY <4>3, <5>1, MembershipForm
                <5>3. Has(i, Subject(rows[i])) /\ Subject(rows[i]) \in SubjectsOfTuples
                    BY <4>3, <5>1, SubjectsAreSubjects DEF Has
                <5>4. x = Subject(rows[i])
                    BY <2>1, <3>1, <5>1, <5>3 DEF MirrorInv, OneSubject
                <5>5. RequestOK(request[r])
                    BY DEF MirrorInv, AccessTypeOK
                <5>6. Subject(rows[i]) \in request[r].about
                    BY <4>3, <5>2, <5>5 DEF RequestOK
                <5> QED
                    BY <3>3, <4>1, <5>4, <5>6
            <4> QED
                BY <4>1, <4>2, <4>3, CascadeFacts
        <3> QED
            BY <3>2, <3>3
    <2> QED
        BY <2>1, SubjectsAreConstant DEF WritersKnow
<1>4. OneAtATime'
    BY DEF Proceeds, MirrorInv, OneAtATime
<1>5. ASSUME NEW s \in Requests
      PROVE  \A i : After(s, i)' = After(s, i)
    <2>1. CASE s # r
        BY <2>1 DEF After, Plan, Cascade, Proceeds
    <2>2. CASE s = r
        <3>1. Plan(r)' = Plan(r)
            BY DEF Proceeds, Plan
        <3> QED
            BY <2>2, <3>1 DEF After, Proceeds
    <2> QED
        BY <2>1, <2>2
<1>6. CallsFitRows'
    <2> SUFFICES ASSUME NEW s \in Requests, NEW t \in Singles,
                        Subject(t) \in request'[s].about, Subject(t) \notin uncertain'
                 PROVE  (\E i \in RowIds : After(s, i)' = t)
                            <=> t \in (policy' \ request'[s].removes) \cup request'[s].adds
        BY SubjectsAreConstant DEF CallsFitRows, Subject
    <2>1. request'[s].about = request[s].about /\ uncertain' = uncertain
        BY DEF Proceeds
    <2>2. (\E i \in RowIds : After(s, i) = t)
              <=> t \in (policy \ request[s].removes) \cup request[s].adds
        BY <2>1 DEF MirrorInv, CallsFitRows
    <2>3. t \in (policy' \ request'[s].removes) \cup request'[s].adds
              <=> t \in (policy \ request[s].removes) \cup request[s].adds
        <3>1. CASE s = r
            BY <3>1 DEF Proceeds
        <3>2. CASE s # r
            <4>1. Subject(t) \notin request[r].about
                BY <2>1, <3>2 DEF MirrorInv, OneAtATime
            <4>2. Subject(t) \notin HalfDone(request'[r])
                BY <4>1, HalfDoneIsKnown DEF Proceeds
            <4> QED
                BY <3>2, <4>2 DEF Proceeds
        <3> QED
            BY <3>1, <3>2
    <2> QED
        BY <1>5, <2>2, <2>3
<1>7. OnceAfter'
    <2> SUFFICES ASSUME NEW s \in Requests, NEW u \in Users,
                        (RolesOf(u) \in request[s].about)', (RolesOf(u) \notin uncertain)',
                        NEW i \in RowIds, NEW j \in RowIds,
                        IsMembership(After(s, i))', (After(s, i)[2] = u)',
                        IsMembership(After(s, j))', (After(s, j)[2] = u)'
                 PROVE  i = j
        BY DEF OnceAfter
    <2>1. RolesOf(u) \in request'[s].about /\ RolesOf(u) \notin uncertain'
        BY SubjectsAreConstant
    <2>2. /\ IsMembership(After(s, i)') /\ After(s, i)'[2] = u
          /\ IsMembership(After(s, j)') /\ After(s, j)'[2] = u
        BY DEF IsMembership
    <2>3. request'[s].about = request[s].about /\ RolesOf(u) \notin uncertain
        BY <2>1 DEF Proceeds
    <2> QED
        BY <1>5, <2>1, <2>2, <2>3 DEF MirrorInv, OnceAfter
<1>8. StoresAgree'
    <2>1. ASSUME NEW t \in Singles, Subject(t) \notin uncertain',
                 \A s \in Requests : Subject(t) \notin HalfDone(request'[s])
          PROVE  t \in policy' <=> Stored(t)'
        <3>1. \A s \in Requests : Subject(t) \notin HalfDone(request[s])
            BY <2>1 DEF Proceeds
        <3>2. t \in policy <=> Stored(t)
            BY <2>1, <3>1 DEF Proceeds, MirrorInv, StoresAgree
        <3>3. Stored(t)' <=> Stored(t)
            BY DEF Stored, Proceeds
        <3> QED
            BY <2>1, <3>2, <3>3 DEF Proceeds
    <2> QED
        BY <2>1, SubjectsAreConstant DEF StoresAgree, HalfDone
<1>9. OnceNow'
    <2> SUFFICES ASSUME NEW u \in Users, (RolesOf(u) \notin uncertain)',
                        NEW i \in MembershipsOf(u)', NEW j \in MembershipsOf(u)'
                 PROVE  i = j
        BY DEF OnceNow
    <2>1. RolesOf(u) \notin uncertain
        BY SubjectsAreConstant DEF Proceeds
    <2>2. i \in MembershipsOf(u) /\ j \in MembershipsOf(u)
        BY DEF Proceeds, MembershipsOf, Members
    <2> QED
        BY <2>1, <2>2 DEF MirrorInv, OnceNow
<1>10. NewIsEmpty'
    <2>1. ASSUME tenant = "new", NEW s \in Requests, NEW i \in DOMAIN request'[s].writes,
                 IsMembership(request'[s].writes[i])
          PROVE  request'[s].tenancy = "live"
        <3>1. CASE s # r
            BY <2>1, <3>1 DEF Proceeds, MirrorInv, NewIsEmpty
        <3>2. CASE s = r
            <4>1. i \in DOMAIN Plan(r) /\ Plan(r)[i] # NoRow /\ IsMembership(Plan(r)[i])
                BY <2>1, <3>2 DEF Proceeds, IsMembership
            <4>2. Plan(r) = request[r].writes
                BY <4>1, CascadeFacts
            <4>3. request[r].tenancy = "live"
                BY <2>1, <4>1, <4>2 DEF MirrorInv, NewIsEmpty
            <4> QED
                BY <3>2, <4>3 DEF Proceeds
        <3> QED
            BY <3>1, <3>2
    <2>2. tenant = "new" => Members = {}
        BY DEF MirrorInv, NewIsEmpty
    <2> QED
        BY <2>1, <2>2 DEF NewIsEmpty, Members, IsMembership, Proceeds
<1>11. StrayKnown'
    BY DEF Proceeds, MirrorInv, StrayKnown, Ownership
<1> QED
    BY <1>1, <1>2, <1>3, <1>4, <1>6, <1>7, <1>8, <1>9, <1>10, <1>11 DEF MirrorInv

\* A request after a flush or a call.
MovedTo(q, w, R, A, C) ==
    Moved([q EXCEPT !.writes = w, !.removes = R, !.adds = A, !.called = C])

LEMMA MovedOK ==
    ASSUME NEW q, RequestOK(q), q.step \in {"flush", "call"},
           NEW w, DOMAIN w \subseteq RowIds, \A i \in DOMAIN w : w[i] \in RowType,
           q.tenancy = "gone" => \A i \in DOMAIN w : w[i] = NoRow,
           NEW R, NEW A, NEW C, R \cup A \cup C = q.removes \cup q.adds \cup q.called
    PROVE  /\ RequestOK(MovedTo(q, w, R, A, C))
           /\ MovedTo(q, w, R, A, C).step \in {"call", "commit"}
           /\ MovedTo(q, w, R, A, C).about = q.about
           /\ MovedTo(q, w, R, A, C).tenancy = q.tenancy
           /\ MovedTo(q, w, R, A, C).writes = w
           /\ MovedTo(q, w, R, A, C).removes = R
           /\ MovedTo(q, w, R, A, C).adds = A
           /\ MovedTo(q, w, R, A, C).called = C
           /\ MovedTo(q, w, R, A, C).invites = q.invites
           /\ MovedTo(q, w, R, A, C).joins = q.joins
           /\ MovedTo(q, w, R, A, C).needs = q.needs
<1> DEFINE n == MovedTo(q, w, R, A, C)
           st == IF R \cup A = {} THEN "commit" ELSE "call"
<1>1. n = [step |-> st, about |-> q.about, writes |-> w, needs |-> q.needs,
           invites |-> q.invites, tenancy |-> q.tenancy, joins |-> q.joins,
           removes |-> R, adds |-> A, called |-> C]
    <2>1. q = [step |-> q.step, about |-> q.about, writes |-> q.writes, needs |-> q.needs,
               invites |-> q.invites, tenancy |-> q.tenancy, joins |-> q.joins,
               removes |-> q.removes, adds |-> q.adds, called |-> q.called]
        BY DEF RequestOK, IsRequest
    <2> DEFINE m == [q EXCEPT !.writes = w, !.removes = R, !.adds = A, !.called = C]
    <2> DEFINE m1 == [q EXCEPT !.writes = w]
               m2 == [m1 EXCEPT !.removes = R]
               m3 == [m2 EXCEPT !.adds = A]
    <2>2. m = [m3 EXCEPT !.called = C]
        OBVIOUS
    <2>3. m1 = [step |-> q.step, about |-> q.about, writes |-> w, needs |-> q.needs,
               invites |-> q.invites, tenancy |-> q.tenancy, joins |-> q.joins,
               removes |-> q.removes, adds |-> q.adds, called |-> q.called]
        BY <2>1
    <2> HIDE DEF m1
    <2>4. m2 = [step |-> q.step, about |-> q.about, writes |-> w, needs |-> q.needs,
               invites |-> q.invites, tenancy |-> q.tenancy, joins |-> q.joins,
               removes |-> R, adds |-> q.adds, called |-> q.called]
        BY <2>3
    <2> HIDE DEF m2
    <2>5. m3 = [step |-> q.step, about |-> q.about, writes |-> w, needs |-> q.needs,
               invites |-> q.invites, tenancy |-> q.tenancy, joins |-> q.joins,
               removes |-> R, adds |-> A, called |-> q.called]
        BY <2>4
    <2> HIDE DEF m3
    <2>6. m = [step |-> q.step, about |-> q.about, writes |-> w, needs |-> q.needs,
               invites |-> q.invites, tenancy |-> q.tenancy, joins |-> q.joins,
               removes |-> R, adds |-> A, called |-> C]
        BY <2>2, <2>5
    <2> HIDE DEF m
    <2>7. n = [m EXCEPT !.step = IF m.removes \cup m.adds = {} THEN "commit" ELSE "call"]
        BY DEF m, MovedTo, Moved, NextStep
    <2> QED
        BY <2>6, <2>7
<1>2. st \in {"call", "commit"} /\ (st = "commit" => R \cup A = {})
    OBVIOUS
<1> HIDE DEF n, st
<1>3. /\ n.about = q.about /\ n.tenancy = q.tenancy /\ n.writes = w
      /\ n.removes = R /\ n.adds = A /\ n.called = C /\ n.step = st
      /\ n.invites = q.invites /\ n.joins = q.joins /\ n.needs = q.needs
    BY <1>1
<1>4. RequestOK(n)
    <2>1. IsRequest(n)
        BY <1>1 DEF IsRequest
    <2>2. /\ n.removes \cup n.adds \cup n.called \subseteq Tuples
          /\ \A t \in n.removes \cup n.adds \cup n.called : Subject(t) \in n.about
        BY <1>3 DEF RequestOK
    <2>3. /\ n.tenancy \in {"as is", "live", "gone"}
          /\ n.joins \in BOOLEAN
          /\ InvitesOK(n.invites)
          /\ n.tenancy = "gone" =>
                /\ \A u \in Users : RolesOf(u) \in n.about
                /\ \A i \in DOMAIN n.writes : n.writes[i] = NoRow
        BY <1>3 DEF RequestOK
    <2>4. /\ n.step \in {"call", "commit"}
          /\ n.step = "commit" => n.removes \cup n.adds = {}
          /\ DOMAIN n.writes \subseteq RowIds
          /\ \A i \in DOMAIN n.writes : n.writes[i] \in RowType
        BY <1>2, <1>3
    <2> QED
        BY <2>1, <2>2, <2>3, <2>4 DEF RequestOK
<1>5. n.step \in {"call", "commit"}
    BY <1>2, <1>3
<1> QED
    BY <1>3, <1>4, <1>5 DEF n

LEMMA FlushFacts ==
    ASSUME MirrorInv, NEW r \in Requests, Flush(r)
    PROVE  GivenUp \/ Proceeds(r)
<1> DEFINE q == request[r]
<1>1. RequestOK(q) /\ q.step = "flush" /\ q.called = {}
    BY DEF MirrorInv, AccessTypeOK, RequestOK, Flush
<1>2. request = [s \in Requests |-> request[s]] /\ invitation \in [Invitations -> InvitationType]
    BY DEF MirrorInv, AccessTypeOK
<1>3. CASE Refused(r)
    <2>1. request' = [request EXCEPT ![r] = Idle]
        BY <1>3 DEF Flush, End
    <2>2. HalfDone(q) = {}
        BY <1>1 DEF HalfDone
    <2> QED
        BY <1>2, <2>1, <2>2 DEF Flush, GivenUp
<1>4. CASE ~Refused(r)
    <2> DEFINE w == Cascade(r)
               n == Moved([q EXCEPT !.writes = w])
    <2>1. request' = [request EXCEPT ![r] = n]
        BY <1>4 DEF Flush
    <2>2. n = MovedTo(q, w, q.removes, q.adds, q.called)
        BY <1>1 DEF RequestOK, IsRequest, MovedTo
    <2>3. Plan(r) = w
        BY <1>1 DEF Plan
    <2>4. /\ DOMAIN w \subseteq RowIds
          /\ \A i \in DOMAIN w : w[i] \in RowType
          /\ q.tenancy = "gone" => \A i \in DOMAIN w : w[i] = NoRow
        BY <1>1 DEF RequestOK, Cascade, RowType
    <2> HIDE DEF w
    <2>5. /\ RequestOK(n) /\ n.step \in {"call", "commit"}
          /\ n.about = q.about /\ n.tenancy = q.tenancy /\ n.writes = w
          /\ n.removes = q.removes /\ n.adds = q.adds /\ n.called = q.called
          /\ n.joins = q.joins /\ n.needs = q.needs
        BY <1>1, <2>2, <2>4, MovedOK
    <2> HIDE DEF n
    <2>6. request'[r] = n /\ policy' = policy /\ HalfDone(n) = HalfDone(q)
        BY <1>2, <2>1, <2>5 DEF Flush, HalfDone
    <2>7. policy \subseteq Tuples
        BY DEF MirrorInv, AccessTypeOK
    <2>8. \A s \in Requests : s # r => request'[s] = request[s]
        BY <1>2, <2>1
    <2>9. request' = [s \in Requests |-> request'[s]]
        BY <1>2, <2>1
    <2> QED
        BY <1>1, <1>4, <2>3, <2>5, <2>6, <2>7, <2>8, <2>9 DEF Flush, Proceeds
<1> QED
    BY <1>3, <1>4

LEMMA CallFacts ==
    ASSUME MirrorInv, NEW r \in Requests, CallPolicy(r)
    PROVE  Proceeds(r)
<1> DEFINE q == request[r]
           Others(t) == \A y \in Singles : y # t => (y \in policy' <=> y \in policy)
           Agreed(R, A) == \A y \in Singles :
               y \in (policy' \ R) \cup A <=> y \in (policy \ q.removes) \cup q.adds
<1>1. RequestOK(q) /\ q.step = "call"
    BY DEF MirrorInv, AccessTypeOK, CallPolicy
<1>2. request = [s \in Requests |-> request[s]] /\ policy \subseteq Tuples
    BY DEF MirrorInv, AccessTypeOK
<1>3. /\ DOMAIN q.writes \subseteq RowIds
      /\ \A i \in DOMAIN q.writes : q.writes[i] \in RowType
      /\ q.tenancy = "gone" => \A i \in DOMAIN q.writes : q.writes[i] = NoRow
      /\ q.removes \cup q.adds \cup q.called \subseteq Tuples
      /\ Plan(r) = q.writes
    BY <1>1 DEF RequestOK, Plan
<1>4. UNCHANGED <<rows, invitation, tenant, deleted, stray, uncertain>>
    BY DEF CallPolicy
<1>5. ASSUME NEW t, NEW R, NEW A, NEW n,
             t \in q.removes \cup q.adds,
             R \cup A \cup (q.called \cup {t}) = q.removes \cup q.adds \cup q.called,
             n = MovedTo(q, q.writes, R, A, q.called \cup {t}),
             request' = [request EXCEPT ![r] = n],
             policy' \subseteq Tuples, Agreed(R, A), Others(t)
      PROVE  Proceeds(r)
    <2>1. /\ RequestOK(n) /\ n.step \in {"call", "commit"}
          /\ n.about = q.about /\ n.tenancy = q.tenancy /\ n.writes = q.writes
          /\ n.removes = R /\ n.adds = A /\ n.called = q.called \cup {t}
          /\ n.joins = q.joins /\ n.needs = q.needs
        BY <1>1, <1>3, <1>5, MovedOK
    <2>2. request'[r] = n /\ \A s \in Requests : s # r => request'[s] = request[s]
        BY <1>2, <1>5
    <2>3. HalfDone(q) \subseteq HalfDone(n) /\ Subject(t) \in HalfDone(n)
        BY <2>1 DEF HalfDone
    <2>4. \A y \in Singles : Subject(y) \notin HalfDone(n) => (y \in policy' <=> y \in policy)
        BY <1>5, <2>3
    <2>5. policy' \subseteq Tuples
        BY <1>5
    <2>6. request' = [s \in Requests |-> request'[s]]
        BY <1>2, <1>5
    <2> QED
        BY <1>1, <1>3, <1>4, <1>5, <2>1, <2>2, <2>3, <2>4, <2>5, <2>6 DEF Proceeds
<1>6. ASSUME NEW t \in q.removes, policy' = policy \ Twins(t),
             request' = [request EXCEPT ![r] =
                                Moved([q EXCEPT !.removes = q.removes \ {t},
                                                !.called = q.called \cup {t}])]
      PROVE  Proceeds(r)
    <2>1. 
                                Moved([q EXCEPT !.removes = q.removes \ {t},
                                                !.called = q.called \cup {t}])
            = MovedTo(q, q.writes, q.removes \ {t}, q.adds, q.called \cup {t})
        BY <1>1 DEF RequestOK, IsRequest, MovedTo
    <2>2. (q.removes \ {t}) \cup q.adds \cup (q.called \cup {t})
            = q.removes \cup q.adds \cup q.called
        OBVIOUS
    <2>3. t \in Tuples
        BY <1>3
    <2>4. policy' \subseteq Tuples
        BY <1>2, <1>6
    <2>5. Others(t)
        BY <1>6, <2>3, TwinFacts
    <2>6. \A y \in Singles : y = t => y \notin policy'
        BY <1>6, <2>3, TwinFacts
    <2>7. Agreed(q.removes \ {t}, q.adds)
        BY <1>6, <2>5, <2>6
    <2> HIDE DEF q, Others, Agreed
    <2> QED
        BY <1>5, <1>6, <2>1, <2>2, <2>4, <2>5, <2>7
<1>7. ASSUME NEW t \in q.adds, q.removes = {}, policy' = policy \cup Twins(t),
             request' = [request EXCEPT ![r] =
                                Moved([q EXCEPT !.adds = q.adds \ {t},
                                                !.called = q.called \cup {t}])]
      PROVE  Proceeds(r)
    <2>1. 
                                Moved([q EXCEPT !.adds = q.adds \ {t},
                                                !.called = q.called \cup {t}])
            = MovedTo(q, q.writes, q.removes, q.adds \ {t}, q.called \cup {t})
        BY <1>1 DEF RequestOK, IsRequest, MovedTo
    <2>2. q.removes \cup (q.adds \ {t}) \cup (q.called \cup {t})
            = q.removes \cup q.adds \cup q.called
        OBVIOUS
    <2>3. t \in Tuples
        BY <1>3
    <2>4. policy' \subseteq Tuples
        BY <1>2, <1>7, <2>3, TwinFacts
    <2>5. Others(t)
        BY <1>7, <2>3, TwinFacts
    <2>6. \A y \in Singles : y = t => y \in policy'
        BY <1>7, <2>3, TwinFacts
    <2>7. Agreed(q.removes, q.adds \ {t})
        BY <1>7, <2>5, <2>6
    <2> HIDE DEF q, Others, Agreed
    <2> QED
        BY <1>5, <1>7, <2>1, <2>2, <2>4, <2>5, <2>7
<1>8. CASE \E t \in q.removes :
              /\ policy' = policy \ Twins(t)
              /\ request' = [request EXCEPT ![r] =
                                Moved([q EXCEPT !.removes = q.removes \ {t},
                                                !.called = q.called \cup {t}])]
    BY <1>6, <1>8
<1>9. CASE \E t \in q.adds :
              /\ q.removes = {}
              /\ policy' = policy \cup Twins(t)
              /\ request' = [request EXCEPT ![r] =
                                Moved([q EXCEPT !.adds = q.adds \ {t},
                                                !.called = q.called \cup {t}])]
    BY <1>7, <1>9
<1> QED
    BY <1>8, <1>9 DEF CallPolicy

LEMMA CutShort ==
    ASSUME MirrorInv,
           (\E r \in Requests : CallFails(r) \/ CommitFails(r)) \/ Crash \/ UNCHANGED vars
              \/ \E i \in Invitations : Lapse(i)
    PROVE  GivenUp
<1>1. /\ request = [s \in Requests |-> request[s]]
      /\ invitation \in [Invitations -> InvitationType]
    BY DEF MirrorInv, AccessTypeOK
<1>2. ASSUME NEW r \in Requests, CallFails(r) \/ CommitFails(r) PROVE GivenUp
    <2>1. /\ request' = [request EXCEPT ![r] = Idle]
          /\ uncertain' = uncertain \cup HalfDone(request[r])
          /\ UNCHANGED <<rows, invitation, tenant, policy, deleted, stray>>
        BY <1>2 DEF CallFails, CommitFails, End
    <2> QED
        BY <1>1, <2>1 DEF GivenUp
<1>3. CASE Crash
    <2>1. \A s \in Requests : HalfDone(request[s]) \subseteq uncertain'
        BY <1>3 DEF Crash
    <2>2. request' = [s \in Requests |-> Idle] /\ uncertain \subseteq uncertain'
        BY <1>3 DEF Crash
    <2>3. UNCHANGED <<rows, invitation, tenant, policy, deleted, stray>>
        BY <1>3 DEF Crash
    <2> QED
        BY <1>1, <2>1, <2>2, <2>3 DEF GivenUp
<1>4. CASE UNCHANGED vars
    BY <1>1, <1>4 DEF GivenUp, vars
<1>5. ASSUME NEW i \in Invitations, Lapse(i) PROVE GivenUp
    <2>1. /\ invitation[i] \in Open
          /\ invitation' = [invitation EXCEPT ![i] = [invitation[i] EXCEPT !.status = "overdue"]]
        BY <1>1, <1>5 DEF Lapse, InvitationType, Closed
    <2>2. [invitation[i] EXCEPT !.status = "overdue"] \in InvitationType
        BY <2>1 DEF InvitationType, Open
    <2>3. invitation' \in [Invitations -> InvitationType]
        BY <1>1, <2>1, <2>2
    <2> QED
        BY <1>1, <1>5, <2>3 DEF GivenUp, Lapse
<1> QED
    BY <1>2, <1>3, <1>4, <1>5

-----------------------------------------------------------------------------
(* The commit.                                                             *)

LEMMA CommitFacts ==
    ASSUME MirrorInv, NEW r \in Requests, Commit(r)
    PROVE  /\ RequestOK(request[r]) /\ Plan(r) = request[r].writes
           /\ request[r].removes = {} /\ request[r].adds = {}
           /\ rows' = [i \in RowIds |-> rows'[i]]
           /\ \A i \in RowIds : rows'[i] = After(r, i)
           /\ request'[r] = Idle
           /\ \A s \in Requests : s # r => request'[s] = request[s]
           /\ request' = [s \in Requests |-> request'[s]]
           /\ uncertain' = uncertain /\ policy' = policy
           /\ tenant' = "new" => tenant = "new" /\ request[r].tenancy = "as is"
           /\ tenant' \in {"new", "live", "gone"}
           /\ invitation' \in [Invitations -> InvitationType]
           /\ deleted' = deleted /\ stray' = stray
<1>1. RequestOK(request[r]) /\ request[r].step = "commit"
    BY DEF MirrorInv, AccessTypeOK, Commit
<1>2. Plan(r) = request[r].writes /\ request[r].removes = {} /\ request[r].adds = {}
    BY <1>1 DEF Plan, RequestOK
<1>3. DOMAIN rows = RowIds
    BY DEF MirrorInv, AccessTypeOK
<1>4. /\ rows' = [i \in RowIds |-> rows'[i]]
      /\ \A i \in RowIds : rows'[i] = After(r, i)
    BY <1>2, <1>3 DEF Commit, Overwritten, After
<1>5. request = [s \in Requests |-> request[s]] /\ tenant \in {"new", "live", "gone"}
    BY DEF MirrorInv, AccessTypeOK
<1>6. request' = [request EXCEPT ![r] = Idle]
    BY DEF Commit, End
<1>7. request[r].tenancy \in {"as is", "live", "gone"}
    BY <1>1 DEF RequestOK
<1>8. InvitesOK(request[r].invites) /\ invitation \in [Invitations -> InvitationType]
    BY <1>1 DEF MirrorInv, AccessTypeOK, RequestOK
<1>9. invitation' \in [Invitations -> InvitationType]
    BY <1>8 DEF Commit, Overwritten, InvitesOK
<1> QED
    BY <1>1, <1>2, <1>4, <1>5, <1>6, <1>7, <1>9 DEF Commit

\* A row belongs to no subject that it does not belong to already.
LEMMA CommitHas ==
    ASSUME MirrorInv, NEW r \in Requests, Commit(r), NEW i \in RowIds, NEW x, Has(i, x)'
    PROVE  Has(i, x)
<1>1. \/ rows'[i] # NoRow /\ Subject(rows'[i]) = x
      \/ \E s \in Requests : /\ i \in DOMAIN request'[s].writes
                             /\ request'[s].writes[i] # NoRow
                             /\ Subject(request'[s].writes[i]) = x
    BY DEF Has, Subject
<1>2. CASE rows'[i] # NoRow /\ Subject(rows'[i]) = x
    <2>1. rows'[i] = After(r, i) /\ Plan(r) = request[r].writes
        BY CommitFacts
    <2>2. CASE i \in DOMAIN request[r].writes
        BY <1>2, <2>1, <2>2 DEF After, Has
    <2>3. CASE i \notin DOMAIN request[r].writes
        BY <1>2, <2>1, <2>3 DEF After, Has
    <2> QED
        BY <2>2, <2>3
<1>3. CASE \E s \in Requests : /\ i \in DOMAIN request'[s].writes
                               /\ request'[s].writes[i] # NoRow
                               /\ Subject(request'[s].writes[i]) = x
    BY <1>3, CommitFacts, NoWrites DEF Has
<1> QED
    BY <1>1, <1>2, <1>3

\* The rows of a subject that r is not about stay as they are.
LEMMA CommitLeaves ==
    ASSUME MirrorInv, NEW r \in Requests, Commit(r),
           NEW i \in RowIds, NEW t \in Tuples, Subject(t) \notin request[r].about
    PROVE  rows'[i] = t <=> rows[i] = t
<1>1. CASE i \in DOMAIN request[r].writes
    <2>1. \A x \in SubjectsOfTuples : Has(i, x) => x \in request[r].about
        BY <1>1 DEF MirrorInv, WritersKnow
    <2>2. ~Has(i, Subject(t))
        BY <2>1, SubjectsAreSubjects
    <2>3. rows[i] # t
        BY <2>2, NoRowIsNoTuple DEF Has
    <2>4. request[r].writes[i] # t
        BY <1>1, <2>2, NoRowIsNoTuple DEF Has
    <2>5. rows'[i] = request[r].writes[i]
        BY <1>1, CommitFacts DEF After
    <2> QED
        BY <2>3, <2>4, <2>5
<1>2. CASE i \notin DOMAIN request[r].writes
    BY <1>2, CommitFacts DEF After
<1> QED
    BY <1>1, <1>2

\* So does what the others plan to make of them.
LEMMA CommitLeavesPlans ==
    ASSUME MirrorInv, NEW r \in Requests, Commit(r), NEW s \in Requests, s # r,
           NEW i \in RowIds, NEW t \in Tuples, Subject(t) \notin request[r].about
    PROVE  After(s, i)' = t <=> After(s, i) = t
<1>1. request'[s] = request[s] /\ i \in DOMAIN rows /\ rows[i] \in RowType
    BY CommitFacts DEF MirrorInv, AccessTypeOK
<1>2. CASE i \in DOMAIN request[r].writes
    <2>1. \A x \in SubjectsOfTuples : Has(i, x) => x \in request[r].about
        BY <1>2 DEF MirrorInv, WritersKnow
    <2>2. ~Has(i, Subject(t))
        BY <2>1, SubjectsAreSubjects
    <2>3. t # NoRow /\ rows[i] # t /\ rows'[i] # t
        BY <2>2, NoRowIsNoTuple, CommitLeaves DEF Has
    <2>4. i \in DOMAIN request[s].writes => request[s].writes[i] # t
        BY <2>2, <2>3 DEF Has
    <2>5. After(s, i) # t
        BY <2>3, <2>4 DEF After, Plan, Cascade
    <2>6. After(s, i)' # t
        BY <1>1, <2>3, <2>4 DEF After, Plan, Cascade
    <2> QED
        BY <2>5, <2>6
<1>3. CASE i \notin DOMAIN request[r].writes
    <2>1. rows'[i] = rows[i]
        BY <1>3, CommitFacts DEF After
    <2>2. After(s, i)' = After(s, i)
        BY <1>1, <2>1 DEF After, Plan, Cascade
    <2> QED
        BY <2>2
<1> QED
    BY <1>2, <1>3

LEMMA AfterIsRow ==
    ASSUME MirrorInv, NEW r \in Requests, NEW i \in RowIds
    PROVE  After(r, i) \in RowType
<1>1. RequestOK(request[r]) /\ rows[i] \in RowType
    BY DEF MirrorInv, AccessTypeOK
<1>2. CASE i \in DOMAIN request[r].writes
    BY <1>1, <1>2 DEF RequestOK, After, Plan, Cascade, RowType
<1>3. CASE i \notin DOMAIN request[r].writes
    BY <1>1, <1>3 DEF After, Plan, Cascade, RowType
<1> QED
    BY <1>2, <1>3

\* The rows that hold a membership of u.
LEMMA MembershipFacts ==
    ASSUME NEW t \in RowType, NEW u, IsMembership(t), t[2] = u
    PROVE  t \in Tuples /\ Subject(t) = RolesOf(u) /\ u \in Users
<1>1. t \in Tuples /\ t[4] = "tenant"
    BY DEF IsMembership, RowType
<1> QED
    BY <1>1, MembershipForm

LEMMA CommitKeepsInv ==
    ASSUME MirrorInv, NEW r \in Requests, Commit(r)
    PROVE  MirrorInv'
<1>1. AccessTypeOK'
    <2>1. \A s \in Requests : RequestOK(request'[s])
        BY IdleOK, CommitFacts DEF MirrorInv, AccessTypeOK
    <2>2. \A s \in Requests : RequestOK(request[s])'
        BY <2>1 DEF RequestOK, IsRequest, InvitesOK, RolesOf, Subject, Membership
    <2>3. \A i \in RowIds : rows'[i] \in RowType
        BY CommitFacts, AfterIsRow
    <2>4. rows' \in [RowIds -> RowType]
        BY <2>3, CommitFacts
    <2>5. RowType' = RowType /\ InvitationType' = InvitationType /\ policy \subseteq Tuples
        BY SubjectsAreConstant DEF RowType, NoRow, MirrorInv, AccessTypeOK, InvitationType,
           Closed, Open
    <2>6. deleted' \subseteq Users /\ stray' \in BOOLEAN
        BY CommitFacts DEF MirrorInv, AccessTypeOK
    <2> QED
        BY <2>2, <2>4, <2>5, <2>6, CommitFacts, SubjectsAreConstant DEF AccessTypeOK
<1>2. OneSubject'
    BY CommitHas, SubjectsAreConstant DEF MirrorInv, OneSubject
<1>3. WritersKnow'
    <2>1. ASSUME NEW s \in Requests, NEW i \in DOMAIN request'[s].writes,
                 NEW x \in SubjectsOfTuples, Has(i, x)'
          PROVE  x \in request'[s].about
        <3>1. request'[s] = request[s]
            BY <2>1, CommitFacts, NoWrites
        <3>2. RequestOK(request[s])
            BY DEF MirrorInv, AccessTypeOK
        <3>3. i \in RowIds
            BY <2>1, <3>1, <3>2 DEF RequestOK
        <3> QED
            BY <2>1, <3>1, <3>3, CommitHas DEF MirrorInv, WritersKnow
    <2> QED
        BY <2>1, SubjectsAreConstant DEF WritersKnow
<1>4. OneAtATime'
    BY IdleOK, CommitFacts DEF MirrorInv, OneAtATime
<1>5. ASSUME NEW s \in Requests, NEW x \in request'[s].about, x \notin uncertain'
      PROVE  /\ s # r /\ request'[s] = request[s]
             /\ x \in request[s].about /\ x \notin uncertain /\ x \notin request[r].about
    BY <1>5, IdleOK, CommitFacts DEF MirrorInv, OneAtATime
<1>6. CallsFitRows'
    <2> SUFFICES ASSUME NEW s \in Requests, NEW t \in Singles,
                        Subject(t) \in request'[s].about, Subject(t) \notin uncertain'
                 PROVE  (\E i \in RowIds : After(s, i)' = t)
                            <=> t \in (policy' \ request'[s].removes) \cup request'[s].adds
        BY SubjectsAreConstant DEF CallsFitRows, Subject
    <2>1. /\ s # r /\ request'[s] = request[s] /\ Subject(t) \in request[s].about
          /\ Subject(t) \notin uncertain /\ Subject(t) \notin request[r].about
        BY <1>5
    <2>2. policy' = policy /\ t \in Tuples
        BY CommitFacts DEF Singles
    <2>3. \A i \in RowIds : After(s, i)' = t <=> After(s, i) = t
        BY <2>1, <2>2, CommitLeavesPlans
    <2> QED
        BY <2>1, <2>2, <2>3 DEF MirrorInv, CallsFitRows
<1>7. OnceAfter'
    <2> SUFFICES ASSUME NEW s \in Requests, NEW u \in Users,
                        (RolesOf(u) \in request[s].about)', (RolesOf(u) \notin uncertain)',
                        NEW i \in RowIds, NEW j \in RowIds,
                        IsMembership(After(s, i))', (After(s, i)[2] = u)',
                        IsMembership(After(s, j))', (After(s, j)[2] = u)'
                 PROVE  i = j
        BY DEF OnceAfter
    <2>1. RolesOf(u) \in request'[s].about /\ RolesOf(u) \notin uncertain'
        BY SubjectsAreConstant
    <2>2. /\ s # r /\ request'[s] = request[s] /\ RolesOf(u) \in request[s].about
          /\ RolesOf(u) \notin uncertain /\ RolesOf(u) \notin request[r].about
        BY <1>5, <2>1
    <2>3. /\ IsMembership(After(s, i)') /\ After(s, i)'[2] = u
          /\ IsMembership(After(s, j)') /\ After(s, j)'[2] = u
        BY DEF IsMembership
    <2>4. \A k \in RowIds : After(s, k)' \in RowType
        <3> SUFFICES ASSUME NEW k \in RowIds PROVE After(s, k)' \in RowType
            OBVIOUS
        <3>1. RequestOK(request[s]) /\ rows'[k] \in RowType
            <4>1. rows'[k] = After(r, k)
                BY CommitFacts
            <4>2. After(r, k) \in RowType
                BY AfterIsRow
            <4>3. RequestOK(request[s])
                BY DEF MirrorInv, AccessTypeOK
            <4> QED
                BY <4>1, <4>2, <4>3
        <3>2. k \in DOMAIN request[s].writes => request[s].writes[k] \in RowType
            BY <3>1 DEF RequestOK
        <3> QED
            BY <2>2, <3>1, <3>2 DEF After, Plan, Cascade, RowType
    <2>5. ASSUME NEW k \in RowIds, IsMembership(After(s, k)'), After(s, k)'[2] = u
          PROVE  After(s, k) = After(s, k)'
        <3>1. After(s, k)' \in Tuples /\ Subject(After(s, k)') = RolesOf(u)
            BY <2>4, <2>5, MembershipFacts
        <3>2. \A t \in Tuples : Subject(t) \notin request[r].about =>
                  (After(s, k)' = t <=> After(s, k) = t)
            BY <2>2, CommitLeavesPlans
        <3> QED
            BY <2>2, <3>1, <3>2
    <2>6. /\ IsMembership(After(s, i)) /\ After(s, i)[2] = u
          /\ IsMembership(After(s, j)) /\ After(s, j)[2] = u
        BY <2>3, <2>5
    <2> QED
        BY <2>2, <2>6 DEF MirrorInv, OnceAfter
<1>8. StoresAgree'
    <2>1. ASSUME NEW t \in Singles, Subject(t) \notin uncertain',
                 \A s \in Requests : Subject(t) \notin HalfDone(request'[s])
          PROVE  t \in policy' <=> (\E i \in RowIds : rows'[i] = t)
        <3>1. policy' = policy /\ uncertain' = uncertain /\ t \in Tuples
            BY CommitFacts DEF Singles
        <3>2. CASE Subject(t) \in request[r].about
            <4>1. (\E i \in RowIds : After(r, i) = t) <=> t \in policy
                BY <2>1, <3>1, <3>2, CommitFacts DEF MirrorInv, CallsFitRows
            <4> QED
                BY <3>1, <4>1, CommitFacts
        <3>3. CASE Subject(t) \notin request[r].about
            <4>1. Subject(t) \notin HalfDone(request[r])
                BY <3>3, CommitFacts, HalfDoneIsKnown
            <4>2. \A s \in Requests : Subject(t) \notin HalfDone(request[s])
                BY <2>1, <4>1, CommitFacts
            <4>3. t \in policy <=> Stored(t)
                BY <2>1, <3>1, <4>2 DEF MirrorInv, StoresAgree
            <4>4. \A i \in RowIds : rows'[i] = t <=> rows[i] = t
                BY <3>1, <3>3, CommitLeaves
            <4> QED
                BY <3>1, <4>3, <4>4 DEF Stored
        <3> QED
            BY <3>2, <3>3
    <2> QED
        BY <2>1, SubjectsAreConstant DEF StoresAgree, HalfDone, Stored
<1>9. OnceNow'
    <2> SUFFICES ASSUME NEW u \in Users, (RolesOf(u) \notin uncertain)',
                        NEW i \in MembershipsOf(u)', NEW j \in MembershipsOf(u)'
                 PROVE  i = j
        BY DEF OnceNow
    <2>1. RolesOf(u) \notin uncertain
        BY SubjectsAreConstant, CommitFacts
    <2>2. /\ i \in RowIds /\ IsMembership(rows'[i]) /\ rows'[i][2] = u
          /\ j \in RowIds /\ IsMembership(rows'[j]) /\ rows'[j][2] = u
        BY DEF MembershipsOf, Members, IsMembership
    <2>3. CASE RolesOf(u) \in request[r].about
        <3>1. rows'[i] = After(r, i) /\ rows'[j] = After(r, j)
            BY <2>2, CommitFacts
        <3> QED
            BY <2>1, <2>2, <2>3, <3>1 DEF MirrorInv, OnceAfter
    <2>4. CASE RolesOf(u) \notin request[r].about
        <3>1. \A k \in RowIds : rows'[k] \in RowType
            BY CommitFacts, AfterIsRow
        <3>2. ASSUME NEW k \in RowIds, IsMembership(rows'[k]), rows'[k][2] = u
              PROVE  k \in MembershipsOf(u)
            <4>1. rows'[k] \in Tuples /\ Subject(rows'[k]) = RolesOf(u)
                BY <3>1, <3>2, MembershipFacts
            <4>2. \A t \in Tuples : Subject(t) \notin request[r].about =>
                      (rows'[k] = t <=> rows[k] = t)
                BY CommitLeaves
            <4>3. rows[k] = rows'[k]
                BY <2>4, <4>1, <4>2
            <4> QED
                BY <3>2, <4>3 DEF MembershipsOf, Members, IsMembership
        <3> QED
            BY <2>1, <2>2, <3>2 DEF MirrorInv, OnceNow
    <2> QED
        BY <2>3, <2>4
<1>10. NewIsEmpty'
    <2>1. ASSUME tenant' = "new"
          PROVE  /\ \A i \in RowIds : ~IsMembership(rows'[i])
                 /\ \A s \in Requests : \A i \in DOMAIN request'[s].writes :
                       IsMembership(request'[s].writes[i]) => request'[s].tenancy = "live"
        <3>1. tenant = "new" /\ request[r].tenancy = "as is"
            BY <2>1, CommitFacts
        <3>2. /\ \A i \in RowIds : ~IsMembership(rows[i])
              /\ \A s \in Requests : \A i \in DOMAIN request[s].writes :
                    IsMembership(request[s].writes[i]) => request[s].tenancy = "live"
            BY <3>1 DEF MirrorInv, NewIsEmpty, Members, IsMembership
        <3>3. \A i \in RowIds : ~IsMembership(After(r, i))
            BY <3>1, <3>2, CommitFacts DEF After
        <3> QED
            BY <3>2, <3>3, CommitFacts, NoWrites
    <2> QED
        BY <2>1 DEF NewIsEmpty, Members, IsMembership
<1>11. StrayKnown'
    BY CommitFacts DEF MirrorInv, StrayKnown, Ownership
<1> QED
    BY <1>1, <1>2, <1>3, <1>4, <1>6, <1>7, <1>8, <1>9, <1>10, <1>11 DEF MirrorInv

-----------------------------------------------------------------------------
(* The handlers.                                                           *)

LEMMA MoreThanOne ==
    ASSUME NEW S, NEW i \in S, Cardinality(S) > 1
    PROVE  \E j \in S : j # i
<1> SUFFICES ASSUME S = {i} PROVE FALSE
    OBVIOUS
<1>1. Cardinality({i}) = 1
    BY FS_Singleton
<1> QED
    BY <1>1

\* A handler that changes the role of v in row i, where v has no other: it writes x,
\* takes the old tuple from the policy and puts the new one there.
MemberChange(q, v, i, x) ==
    /\ IsRequest(q) /\ q.step = "flush" /\ q.called = {} /\ q.joins \in BOOLEAN
    /\ InvitesOK(q.invites)
    /\ q.about = {RolesOf(v)} \/ q.about = {RolesOf(v), Ownership}
    /\ q.writes = Writes(i, x)
    /\ q.tenancy \in {"as is", "live"} /\ (tenant = "new" => q.tenancy = "live")
    /\ x # NoRow => \E role \in Roles : x = Membership(v, role)
    /\ \/ /\ Fresh(i) /\ MembershipsOf(v) = {} /\ x # NoRow /\ q.removes = {}
          /\ q.joins \/ q.tenancy = "live"
          /\ Ownership \notin q.about
       \/ /\ i \in MembershipsOf(v) /\ q.removes = {rows[i]}
          /\ Ownership \in q.about
          /\ q.tenancy = "as is" /\ (x = NoRow \/ i \in q.needs)
          /\ x = NoRow /\ i \in OwnerRows /\ Ownership \notin uncertain =>
                \E j \in OwnerRows : j # i
    /\ q.adds = IF x = NoRow THEN {} ELSE {x}

LEMMA MemberRequest ==
    ASSUME MirrorInv, NEW v \in Users, NEW i \in RowIds, NEW x \in RowType, NEW q,
           MemberChange(q, v, i, x)
    PROVE  Prepared(q)
<1> USE DEF MemberChange
<1>1. DOMAIN q.writes = {i} /\ q.writes[i] = x
    BY DEF Writes
<1>2. rows[i] \in RowType /\ \A j \in RowIds : rows[j] \in RowType
    BY DEF MirrorInv, AccessTypeOK
<1>3. ASSUME i \in MembershipsOf(v)
      PROVE  rows[i] \in Tuples /\ rows[i] # NoRow /\ Subject(rows[i]) = RolesOf(v)
    BY <1>2, <1>3, MembershipFacts, NoRowIsNoTuple DEF MembershipsOf, Members, IsMembership
<1>4. ASSUME x # NoRow
      PROVE  x \in Tuples /\ IsMembership(x) /\ Subject(x) = RolesOf(v) /\ x[2] = v
    <2>1. PICK role \in Roles : x = Membership(v, role)
        BY <1>4
    <2> QED
    BY     <2>1, MembershipIsTuple
<1>5. RequestOK(q)
    <2>1. /\ q.removes \cup q.adds \cup q.called \subseteq Tuples
          /\ \A t \in q.removes \cup q.adds \cup q.called : Subject(t) \in q.about
        BY <1>3, <1>4
    <2> QED
        BY <1>1, <2>1 DEF RequestOK
<1>6. WritesFit(q)
    BY <1>1, <1>3, <1>4 DEF WritesFit
<1>7. \A j : AfterOf(q, j) = IF j = i THEN x ELSE rows[j]
    BY <1>1 DEF AfterOf, PlanOf
<1>8. ASSUME Settled(RolesOf(v)) PROVE MembershipsOf(v) \subseteq {i}
    BY <1>8 DEF MirrorInv, OnceNow, Settled, MembershipsOf
<1>9. ASSUME NEW t \in Tuples, Subject(t) \in q.about
      PROVE  IsMembership(t) /\ t[2] = v /\ Subject(t) = RolesOf(v)
    <2>1. Subject(t) = RolesOf(v)
        BY <1>9, SubjectsDiffer
    <2>2. t[4] = "tenant"
        BY <2>1, SubjectsDiffer
    <2>3. RolesOf(t[2]) = RolesOf(v)
        BY <2>1, <2>2, MembershipForm
    <2> QED
        BY <2>1, <2>2, <2>3, RolesOfInjective, NoRowIsNoTuple DEF IsMembership
<1>10. PolicyWillFit(q)
    <2> SUFFICES ASSUME NEW t \in Singles, Subject(t) \in q.about, Settled(Subject(t))
                 PROVE  (\E j \in RowIds : AfterOf(q, j) = t)
                            <=> t \in (policy \ q.removes) \cup q.adds
        BY DEF PolicyWillFit
    <2>0. t \in Tuples
        BY DEF Singles
    <2>1. IsMembership(t) /\ t[2] = v /\ Subject(t) = RolesOf(v)
        BY <2>0, <1>9
    <2>2. MembershipsOf(v) \subseteq {i}
        BY <1>8, <2>1
    <2>3. \A j \in RowIds : rows[j] = t => j = i /\ i \in MembershipsOf(v)
        BY <2>1, <2>2 DEF MembershipsOf, Members, IsMembership
    <2>4. (\E j \in RowIds : AfterOf(q, j) = t) <=> x = t
        BY <1>7, <2>3
    <2>5. t \in policy => rows[i] = t /\ i \in MembershipsOf(v)
        <3>1. \A s \in Requests : Subject(t) \notin HalfDone(request[s])
            BY HalfDoneIsKnown DEF Settled, MirrorInv, AccessTypeOK
        <3>2. t \in policy => Stored(t)
            BY <3>1 DEF Settled, MirrorInv, StoresAgree
        <3> QED
            BY <2>3, <3>2 DEF Stored
    <2>6. t \in q.adds <=> x = t
        BY <2>0, NoRowIsNoTuple
    <2>7. t \in policy => t \in q.removes
        BY <1>3, <2>5
    <2> QED
        BY <2>4, <2>6, <2>7
<1>11. MembersWillBeOnce(q)
    <2> SUFFICES ASSUME NEW u \in Users, RolesOf(u) \in q.about, Settled(RolesOf(u)),
                        NEW j \in RowIds, IsMembership(AfterOf(q, j)), AfterOf(q, j)[2] = u
                 PROVE  j = i
        BY DEF MembersWillBeOnce
    <2>1. u = v
        BY RolesOfInjective, SubjectsDiffer
    <2>2. CASE j # i
        <3>1. j \in MembershipsOf(v)
            BY <1>7, <2>1, <2>2 DEF MembershipsOf, Members, IsMembership
        <3> QED
            BY <1>8, <2>1, <3>1
    <2> QED
        BY <2>2
<1>12. OwnersSeen(q)
    <2>1. \A j \in DOMAIN q.writes :
              \/ Fresh(j) /\ (IsMembership(q.writes[j]) => q.joins \/ q.tenancy = "live")
              \/ Ownership \in q.about
        BY <1>1
    <2>2. Ownership \in q.about =>
              /\ q.tenancy = "as is"
              /\ \A j, k \in DOMAIN q.writes : j = k
              /\ \A j \in DOMAIN q.writes : q.writes[j] = NoRow \/ j \in q.needs
        BY <1>1
    <2>3. ASSUME NEW j \in OwnerRows \cap DOMAIN q.writes, q.writes[j] = NoRow,
                 Ownership \notin uncertain
          PROVE  \E k \in OwnerRows : k \notin DOMAIN q.writes
        <3>1. j = i /\ x = NoRow
            BY <1>1, <2>3
        <3>2. \E k \in OwnerRows : k # i
            BY <2>3, <3>1
        <3> QED
            BY <1>1, <3>2
    <2> QED
        BY <2>1, <2>2, <2>3 DEF OwnersSeen
<1> QED
    BY <1>5, <1>6, <1>10, <1>11, <1>12 DEF Prepared

\* The fields of what the handlers prepare.
LEMMA ChangeFields ==
    Change \in [step : {"flush"}, about : {{}}, writes : {<<>>}, needs : {{}}, invites : {<<>>},
                tenancy : {"as is"}, joins : {FALSE}, removes : {{}}, adds : {{}},
                called : {{}}]
BY DEF Change, Idle

LEMMA NoInvites == InvitesOK(<<>>)
<1>1. DOMAIN <<>> = {}
    BY NoWrites DEF Idle
<1> QED
    BY <1>1 DEF InvitesOK

LEMMA ClosesOK ==
    ASSUME NEW k \in Invitations
    PROVE  \A status \in {"accepted", "expired", "revoked"} : InvitesOK(Closes(k, status))
BY DEF InvitesOK, Closes, Writes, InvitationType, Closed

LEMMA CreateTenantStep ==
    ASSUME MirrorInv, NEW r \in Requests, NEW u \in Users, CreateTenant(r, u)
    PROVE  Begins(r)
<1> DEFINE x == Membership(u, "owner")
           n(i) == [Change EXCEPT !.about = {RolesOf(u)}, !.writes = Writes(i, x),
                                  !.adds = {x}, !.tenancy = "live"]
<1>1. PICK i \in RowIds : tenant = "new" /\ Fresh(i) /\ Begin(r, n(i))
    BY DEF CreateTenant
<1>1a. PICK q : q = n(i)
    OBVIOUS
<1>2. /\ IsRequest(q) /\ q.step = "flush" /\ q.called = {} /\ q.joins \in BOOLEAN
      /\ q.about = {RolesOf(u)} /\ q.writes = Writes(i, x) /\ q.tenancy = "live"
      /\ q.removes = {} /\ q.adds = {x} /\ InvitesOK(q.invites)
    BY <1>1a, ChangeFields, NoInvites DEF IsRequest
<1>3. Begin(r, q)
    BY <1>1a, <1>1
<1> HIDE DEF n
<1>4. x \in RowType /\ x # NoRow /\ "owner" \in Roles
    BY RoleAssumption, MembershipIsTuple, NoRowIsNoTuple DEF RowType
<1>5. MembershipsOf(u) = {}
    BY <1>1 DEF MirrorInv, NewIsEmpty, MembershipsOf
<1> HIDE DEF x
<1>6. \E role \in Roles : x = Membership(u, role)
    BY <1>4 DEF x
<1>7. MemberChange(q, u, i, x)
    BY <1>1, <1>2, <1>4, <1>5, <1>6, SubjectsDiffer DEF MemberChange
<1>8. Prepared(q)
    BY <1>4, <1>5, <1>7, MemberRequest
<1> QED
    BY <1>3, <1>8 DEF Begins

LEMMA UpdateMemberRoleStep ==
    ASSUME MirrorInv, NEW r \in Requests, NEW u \in Users, NEW v \in Users,
           NEW role \in Roles, UpdateMemberRole(r, u, v, role)
    PROVE  Begins(r)
<1> DEFINE x == Membership(v, role)
           n(i) == [Change EXCEPT !.about = {RolesOf(v), Ownership}, !.writes = Writes(i, x),
                                  !.needs = {i}, !.removes = {rows[i]}, !.adds = {x}]
<1>1. PICK i \in MembershipsOf(v) : Begin(r, n(i))
    BY DEF UpdateMemberRole
<1>1a. PICK q : q = n(i)
    OBVIOUS
<1>2. /\ IsRequest(q) /\ q.step = "flush" /\ q.called = {} /\ q.joins \in BOOLEAN
      /\ q.about = {RolesOf(v), Ownership} /\ q.writes = Writes(i, x) /\ q.tenancy = "as is"
      /\ q.needs = {i} /\ q.removes = {rows[i]} /\ q.adds = {x} /\ InvitesOK(q.invites)
    BY <1>1a, ChangeFields, NoInvites DEF IsRequest
<1>3. Begin(r, q)
    BY <1>1a, <1>1
<1> HIDE DEF n
<1>4. x \in RowType /\ x # NoRow
    BY MembershipIsTuple, NoRowIsNoTuple DEF RowType
<1>5. i \in RowIds /\ tenant # "new"
    BY <1>1 DEF MirrorInv, NewIsEmpty, MembershipsOf, Members
<1> HIDE DEF x
<1>6. \E z \in Roles : x = Membership(v, z)
    BY DEF x
<1>7. /\ i \in MembershipsOf(v) /\ q.removes = {rows[i]}
      /\ Ownership \in q.about
      /\ q.tenancy = "as is" /\ (x = NoRow \/ i \in q.needs)
    BY <1>1, <1>2, <1>4
<1>8. MemberChange(q, v, i, x)
    BY <1>1, <1>2, <1>4, <1>5, <1>6, <1>7 DEF MemberChange
<1>9. Prepared(q)
    BY <1>4, <1>5, <1>8, MemberRequest
<1> QED
    BY <1>3, <1>9 DEF Begins

LEMMA RemoveMemberStep ==
    ASSUME MirrorInv, NEW r \in Requests, NEW u \in Users, NEW v \in Users,
           RemoveMember(r, u, v)
    PROVE  Begins(r)
<1> DEFINE n(i) == [Change EXCEPT !.about = {RolesOf(v), Ownership}, !.writes = Writes(i, NoRow),
                                  !.removes = {rows[i]}]
<1>1. PICK i \in MembershipsOf(v) :
          Begin(r, n(i)) /\ (i \in OwnerRows => Cardinality(OwnerRows) > 1 \/ stray)
    BY DEF RemoveMember
<1>1a. PICK q : q = n(i)
    OBVIOUS
<1>2. /\ IsRequest(q) /\ q.step = "flush" /\ q.called = {} /\ q.joins \in BOOLEAN
      /\ q.about = {RolesOf(v), Ownership} /\ q.writes = Writes(i, NoRow)
      /\ q.tenancy = "as is" /\ q.removes = {rows[i]} /\ q.adds = {}
      /\ InvitesOK(q.invites)
    BY <1>1a, ChangeFields, NoInvites DEF IsRequest
<1>3. Begin(r, q)
    BY <1>1a, <1>1
<1> HIDE DEF n
<1>4. i \in RowIds /\ tenant # "new" /\ NoRow \in RowType
    BY <1>1 DEF MirrorInv, NewIsEmpty, MembershipsOf, Members, RowType
<1>5. /\ i \in MembershipsOf(v) /\ q.removes = {rows[i]}
      /\ Ownership \in q.about /\ q.tenancy = "as is"
    BY <1>1, <1>2
<1>6. i \in OwnerRows /\ Ownership \notin uncertain => \E j \in OwnerRows : j # i
    BY <1>1, MoreThanOne DEF MirrorInv, StrayKnown
<1>7. MemberChange(q, v, i, NoRow)
    BY <1>2, <1>4, <1>5, <1>6 DEF MemberChange
<1>8. Prepared(q)
    BY <1>4, <1>5, <1>7, MemberRequest
<1> QED
    BY <1>3, <1>8 DEF Begins

LEMMA AcceptInvitationStep ==
    ASSUME MirrorInv, NEW r \in Requests, NEW u \in Users, NEW k \in Invitations,
           AcceptInvitation(r, u, k)
    PROVE  Begins(r)
<1> DEFINE x == Membership(u, invitation[k].role)
           n(i) == [Change EXCEPT !.about = {RolesOf(u)}, !.writes = Writes(i, x),
                                  !.invites = Closes(k, "accepted"), !.adds = {x},
                                  !.joins = TRUE]
<1>1. PICK i \in RowIds : Fresh(i) /\ Begin(r, n(i))
    BY DEF AcceptInvitation
<1>2. MembershipsOf(u) = {} /\ tenant = "live" /\ invitation[k].role \in Roles
    <2>1. invitation[k] \in Closed \cup Open /\ invitation[k].status = "pending"
        BY DEF AcceptInvitation, MirrorInv, AccessTypeOK, InvitationType
    <2>2. invitation[k] \in Open
        BY <2>1 DEF Closed
    <2> QED
        BY <2>2 DEF AcceptInvitation, Open
<1>1a. PICK q : q = n(i)
    OBVIOUS
<1>3. /\ IsRequest(q) /\ q.step = "flush" /\ q.called = {} /\ q.joins = TRUE
      /\ q.about = {RolesOf(u)} /\ q.writes = Writes(i, x) /\ q.tenancy = "as is"
      /\ q.removes = {} /\ q.adds = {x} /\ InvitesOK(q.invites)
    BY <1>1a, ChangeFields, ClosesOK DEF IsRequest
<1>4. Begin(r, q)
    BY <1>1a, <1>1
<1> HIDE DEF n
<1>5. x \in RowType /\ x # NoRow
    BY <1>2, MembershipIsTuple, NoRowIsNoTuple DEF RowType
<1>6. \E z \in Roles : x = Membership(u, z)
    BY <1>2
<1> HIDE DEF x
<1>7. MemberChange(q, u, i, x)
    BY <1>1, <1>2, <1>3, <1>5, <1>6, SubjectsDiffer DEF MemberChange
<1>8. Prepared(q)
    BY <1>4, <1>5, <1>7, MemberRequest
<1> QED
    BY <1>4, <1>8 DEF Begins

LEMMA DeleteTenantStep ==
    ASSUME MirrorInv, NEW r \in Requests, NEW u \in Users, DeleteTenant(r, u)
    PROVE  Begins(r)
<1> DEFINE A == {RolesOf(v) : v \in Users}
           W == [i \in Members |-> NoRow]
           R == {rows[i] : i \in Members}
           n == [Change EXCEPT !.about = A, !.writes = W, !.needs = Members,
                               !.removes = R, !.tenancy = "gone"]
<1>1. PICK q : q = n
    OBVIOUS
<1>2. Begin(r, q)
    BY <1>1 DEF DeleteTenant
<1> HIDE DEF A, W, R
<1>3. /\ IsRequest(q) /\ q.step = "flush" /\ q.called = {} /\ q.joins \in BOOLEAN
      /\ q.about = A /\ q.writes = W /\ q.tenancy = "gone" /\ q.removes = R /\ q.adds = {}
      /\ InvitesOK(q.invites)
    BY <1>1, ChangeFields, NoInvites DEF IsRequest
<1> HIDE DEF n
<1>4. DOMAIN W = Members /\ (\A i \in Members : W[i] = NoRow) /\ Members \subseteq RowIds
    BY DEF W, Members
<1>5. \A i \in RowIds : rows[i] \in RowType
    BY DEF MirrorInv, AccessTypeOK
<1>6. ASSUME NEW i \in Members
      PROVE  rows[i] \in Tuples /\ rows[i] # NoRow /\ Subject(rows[i]) \in A
    <2>1. rows[i] \in RowType /\ IsMembership(rows[i])
        BY <1>4, <1>5 DEF Members, IsMembership
    <2>2. rows[i] \in Tuples /\ Subject(rows[i]) = RolesOf(rows[i][2]) /\ rows[i][2] \in Users
        BY <2>1, MembershipFacts
    <2> QED
        BY <2>1, <2>2 DEF A, IsMembership
<1>7. \A t \in R : \E i \in Members : t = rows[i]
    BY DEF R
<1>8. RequestOK(q)
    <2>1. /\ q.removes \cup q.adds \cup q.called \subseteq Tuples
          /\ \A t \in q.removes \cup q.adds \cup q.called : Subject(t) \in q.about
        BY <1>3, <1>6, <1>7
    <2>2. \A v \in Users : RolesOf(v) \in A
        BY DEF A
    <2> QED
        BY <1>3, <1>4, <2>1, <2>2 DEF RequestOK, RowType
<1>9. WritesFit(q)
    BY <1>3, <1>4, <1>6 DEF WritesFit
<1>10. \A i \in RowIds : AfterOf(q, i) = IF i \in Members THEN NoRow ELSE rows[i]
    BY <1>3 DEF AfterOf, PlanOf
<1>11. \A i \in RowIds : ~IsMembership(AfterOf(q, i))
    BY <1>10 DEF IsMembership, Members
<1>12. PolicyWillFit(q)
    <2> SUFFICES ASSUME NEW t \in Singles, Subject(t) \in q.about, Settled(Subject(t))
                 PROVE  (\E j \in RowIds : AfterOf(q, j) = t)
                            <=> t \in (policy \ q.removes) \cup q.adds
        BY DEF PolicyWillFit
    <2>0. t \in Tuples
        BY DEF Singles
    <2>1. PICK v \in Users : Subject(t) = RolesOf(v)
        BY <1>3 DEF A
    <2>2. IsMembership(t)
        BY <2>0, <2>1, SubjectsDiffer, NoRowIsNoTuple DEF IsMembership
    <2>3. ~\E j \in RowIds : AfterOf(q, j) = t
        BY <1>11, <2>2
    <2>4. \A s \in Requests : Subject(t) \notin HalfDone(request[s])
        BY HalfDoneIsKnown DEF Settled, MirrorInv, AccessTypeOK
    <2>5. t \in policy => Stored(t)
        BY <2>4 DEF Settled, MirrorInv, StoresAgree
    <2>6. Stored(t) => t \in R
        BY <2>2 DEF Stored, R, Members, IsMembership
    <2> QED
        BY <1>3, <2>3, <2>5, <2>6
<1>13. MembersWillBeOnce(q)
    BY <1>11 DEF MembersWillBeOnce
<1>14. OwnersSeen(q)
    <2>1. Ownership \notin A
        BY SubjectsDiffer DEF A
    <2> QED
        BY <1>3, <2>1 DEF OwnersSeen
<1>15. Prepared(q)
    <2>1. \A i \in DOMAIN q.writes : ~IsMembership(q.writes[i])
        BY <1>3, <1>4 DEF IsMembership
    <2> QED
        BY <1>3, <1>8, <1>9, <1>12, <1>13, <1>14, <2>1 DEF Prepared
<1> QED
    BY <1>2, <1>15 DEF Begins

\* A request that writes invitations only.
LEMMA InvitationRequest ==
    ASSUME MirrorInv, NEW r \in Requests, NEW q, Begin(r, q),
           IsRequest(q), q.step = "flush", q.called = {}, q.joins \in BOOLEAN,
           q.about = {}, q.writes = <<>>, q.tenancy = "as is", q.removes = {}, q.adds = {},
           InvitesOK(q.invites)
    PROVE  Begins(r)
<1>1. DOMAIN q.writes = {}
    BY NoWrites DEF Idle
<1>2. RequestOK(q) /\ WritesFit(q) /\ PolicyWillFit(q) /\ MembersWillBeOnce(q) /\ OwnersSeen(q)
    BY <1>1 DEF RequestOK, WritesFit, PolicyWillFit, MembersWillBeOnce, OwnersSeen
<1>3. Prepared(q)
    BY <1>1, <1>2 DEF Prepared
<1> QED
    BY <1>3 DEF Begins

LEMMA InvitationSteps ==
    ASSUME MirrorInv, NEW r \in Requests, NEW k \in Invitations,
           \/ \E u \in Users : RevokeInvitation(r, u, k)
           \/ \E u, v \in Users, role \in Roles : InviteMember(r, u, v, role)
           \/ AcceptTooLate(r, k)
    PROVE  Begins(r)
<1>1. ASSUME NEW u \in Users, NEW v \in Users, NEW role \in Roles, InviteMember(r, u, v, role)
      PROVE  Begins(r)
    <2> DEFINE I(i) == Writes(i, [status |-> "pending", to |-> v, role |-> role])
    <2>1. PICK i \in Invitations : Begin(r, [Change EXCEPT !.invites = I(i), !.joins = TRUE])
        BY <1>1 DEF InviteMember
    <2>4. InvitesOK(I(i))
        BY DEF InvitesOK, Writes, InvitationType, Open
    <2> HIDE DEF I
    <2>2. PICK q : q = [Change EXCEPT !.invites = I(i), !.joins = TRUE]
        OBVIOUS
    <2>3. /\ IsRequest(q) /\ q.step = "flush" /\ q.called = {} /\ q.joins \in BOOLEAN
          /\ q.about = {} /\ q.writes = <<>> /\ q.tenancy = "as is" /\ q.removes = {}
          /\ q.adds = {} /\ InvitesOK(q.invites)
        BY <2>2, <2>4, ChangeFields DEF IsRequest
    <2> QED
        BY <2>1, <2>2, <2>3, InvitationRequest
<1>2. ASSUME NEW status \in {"accepted", "expired", "revoked"}, Begin(r, [Change EXCEPT !.invites = Closes(k, status)])
      PROVE  Begins(r)
    <2>1. PICK q : q = [Change EXCEPT !.invites = Closes(k, status)]
        OBVIOUS
    <2>2. /\ IsRequest(q) /\ q.step = "flush" /\ q.called = {} /\ q.joins \in BOOLEAN
          /\ q.about = {} /\ q.writes = <<>> /\ q.tenancy = "as is" /\ q.removes = {}
          /\ q.adds = {} /\ InvitesOK(q.invites)
        BY <1>2, <2>1, ChangeFields, ClosesOK DEF IsRequest
    <2> QED
        BY <1>2, <2>1, <2>2, InvitationRequest
<1> QED
    BY <1>1, <1>2 DEF RevokeInvitation, AcceptTooLate

\* The catalog: one row and its tuple.
LEMMA CatalogTuples ==
    /\ \A u \in Users : \A role \in Catalog :
          Assignment(u, role) \in Tuples /\ Assignment(u, role)[4] # "tenant"
    /\ \A role \in Catalog : \A p \in Permissions :
          Grant(role, p) \in Tuples /\ Grant(role, p)[4] # "tenant"
<1>1. ASSUME NEW u \in Users, NEW role \in Catalog
      PROVE  Assignment(u, role) \in Tuples /\ Assignment(u, role)[4] # "tenant"
    <2>1. Assignment(u, role) \in Tuples
        BY DEF Tuples
    <2> QED
        BY <2>1 DEF Assignment
<1>2. ASSUME NEW role \in Catalog, NEW p \in Permissions
      PROVE  Grant(role, p) \in Tuples /\ Grant(role, p)[4] # "tenant"
    <2>1. Grant(role, p) \in Tuples
        BY DEF Tuples
    <2> QED
        BY <2>1 DEF Grant
<1> QED
    BY <1>1, <1>2

LEMMA CatalogRequestStep ==
    ASSUME MirrorInv, NEW r \in Requests, NEW y \in Tuples, y[4] # "tenant",
           NEW i \in RowIds, NEW x \in {y, NoRow}, NEW q, Begin(r, q),
           IsRequest(q), q.step = "flush", q.called = {}, q.joins \in BOOLEAN,
           InvitesOK(q.invites), q.about = {Subject(y)}, q.writes = Writes(i, x), q.tenancy = "as is",
           \/ x = y /\ Fresh(i) /\ q.removes = {} /\ q.adds = {y}
           \/ /\ x = NoRow /\ rows[i] = y /\ \A j \in RowIds : rows[j] = y => j = i
              /\ q.removes = {y} /\ q.adds = {}
    PROVE  Begins(r)
<1>1. DOMAIN q.writes = {i} /\ q.writes[i] = x
    BY DEF Writes
<1>2. y # NoRow /\ Subject(y) = y /\ x \in RowType
    BY NoRowIsNoTuple, CatalogForm DEF RowType
<1>3. RequestOK(q)
    <2>1. /\ q.removes \cup q.adds \cup q.called \subseteq Tuples
          /\ \A t \in q.removes \cup q.adds \cup q.called : Subject(t) \in q.about
        OBVIOUS
    <2> QED
        BY <1>1, <1>2, <2>1 DEF RequestOK
<1>4. WritesFit(q)
    BY <1>1, <1>2 DEF WritesFit
<1>5. \A j : AfterOf(q, j) = IF j = i THEN x ELSE rows[j]
    BY <1>1 DEF AfterOf, PlanOf
<1>6. ASSUME NEW t \in Tuples, Subject(t) \in q.about PROVE t = y
    <2>1. Subject(t) = Subject(y)
        BY <1>6
    <2>2. t[4] = "tenant" => Subject(t) = RolesOf(t[2])
        BY MembershipForm
    <2>3. t[4] # "tenant"
        BY <2>1, <2>2, SubjectsDiffer
    <2> QED
        BY <1>2, <2>1, <2>3, CatalogForm
<1>7. PolicyWillFit(q)
    <2>1. (\E j \in RowIds : AfterOf(q, j) = y) <=> x = y
        BY <1>2, <1>5
    <2>2. y \in (policy \ q.removes) \cup q.adds <=> x = y
        BY <1>2
    <2> QED
        BY <1>6, <2>1, <2>2 DEF PolicyWillFit, Singles
<1>8. MembersWillBeOnce(q)
    BY <1>2, SubjectsDiffer DEF MembersWillBeOnce
<1>9. OwnersSeen(q)
    <2>1. ~IsMembership(y) /\ ~IsMembership(NoRow) /\ Ownership \notin q.about
        BY SubjectsDiffer DEF IsMembership
    <2>2. i \notin OwnerRows
        BY <2>1 DEF OwnerRows, Members, IsMembership, Fresh
    <2> QED
        BY <1>1, <2>1, <2>2 DEF OwnersSeen
<1>10. Prepared(q)
    BY <1>1, <1>3, <1>4, <1>7, <1>8, <1>9 DEF Prepared, IsMembership
<1> QED
    BY <1>10 DEF Begins

LEMMA RecordStep ==
    ASSUME MirrorInv, NEW r \in Requests, NEW y \in Tuples, y[4] # "tenant", Record(r, y)
    PROVE  Begins(r)
<1> DEFINE n(i) == [Change EXCEPT !.about = {Subject(y)}, !.writes = Writes(i, y), !.adds = {y}]
<1>1. PICK i \in RowIds : Fresh(i) /\ Begin(r, n(i))
    BY DEF Record
<1>2. PICK q : q = n(i)
    OBVIOUS
<1>3. /\ IsRequest(q) /\ q.step = "flush" /\ q.called = {} /\ q.joins \in BOOLEAN
      /\ q.about = {Subject(y)} /\ q.writes = Writes(i, y) /\ q.tenancy = "as is"
      /\ q.removes = {} /\ q.adds = {y} /\ InvitesOK(q.invites)
    BY <1>2, ChangeFields, NoInvites DEF IsRequest
<1>4. Begin(r, q)
    BY <1>1, <1>2
<1> HIDE DEF n
<1> QED
    BY <1>1, <1>3, <1>4, CatalogRequestStep

LEMMA EraseStep ==
    ASSUME MirrorInv, NEW r \in Requests, NEW y \in Tuples, y[4] # "tenant", Erase(r, y)
    PROVE  Begins(r)
<1> DEFINE n(i) == [Change EXCEPT !.about = {Subject(y)}, !.writes = Writes(i, NoRow),
                                  !.removes = {y}]
<1>1. PICK i \in RowIds : /\ rows[i] = y /\ \A j \in RowIds : rows[j] = y => j = i
                          /\ Begin(r, n(i))
    BY DEF Erase
<1>2. PICK q : q = n(i)
    OBVIOUS
<1>3. /\ IsRequest(q) /\ q.step = "flush" /\ q.called = {} /\ q.joins \in BOOLEAN
      /\ q.about = {Subject(y)} /\ q.writes = Writes(i, NoRow) /\ q.tenancy = "as is"
      /\ q.removes = {y} /\ q.adds = {} /\ InvitesOK(q.invites)
    BY <1>2, ChangeFields, NoInvites DEF IsRequest
<1>4. Begin(r, q)
    BY <1>1, <1>2
<1> HIDE DEF n
<1> QED
    BY <1>1, <1>3, <1>4, CatalogRequestStep

-----------------------------------------------------------------------------
(* The deletion of an account.                                             *)

\* The memberships of the user go, every other row stays.
LEMMA DeletionFacts ==
    ASSUME MirrorInv, NEW u \in Users, DeleteUser(u)
    PROVE  /\ rows' = [i \in RowIds |-> rows'[i]]
           /\ \A i \in RowIds :
                 \/ rows'[i] = rows[i]
                 \/ /\ i \in MembershipsOf(u) /\ rows'[i] = NoRow
                    /\ rows[i] \in Tuples /\ Subject(rows[i]) = RolesOf(u)
           /\ request' = request /\ policy' = policy /\ invitation' = invitation
           /\ tenant' = tenant
           /\ uncertain \subseteq uncertain' /\ RolesOf(u) \in uncertain'
           /\ \A i \in MembershipsOf(u) \cap OwnerRows : Ownership \in uncertain'
           /\ deleted' \subseteq Users /\ stray' \in BOOLEAN
<1>1. rows' = [i \in RowIds |-> IF i \in MembershipsOf(u) THEN NoRow ELSE rows[i]]
    BY DEF DeleteUser
<1>2. ASSUME NEW i \in MembershipsOf(u)
      PROVE  i \in RowIds /\ rows[i] \in Tuples /\ Subject(rows[i]) = RolesOf(u)
    <2>1. i \in RowIds /\ rows[i] \in RowType /\ IsMembership(rows[i]) /\ rows[i][2] = u
        BY <1>2 DEF MembershipsOf, Members, IsMembership, MirrorInv, AccessTypeOK
    <2> QED
        BY <2>1, MembershipFacts
<1>3. deleted' \subseteq Users /\ stray' \in BOOLEAN
    BY DEF DeleteUser, MirrorInv, AccessTypeOK
<1>4. /\ uncertain' = uncertain \cup {RolesOf(u)}
             \cup {Ownership : i \in MembershipsOf(u) \cap OwnerRows}
      /\ UNCHANGED <<invitation, tenant, policy, request>>
    BY DEF DeleteUser
<1>5. /\ rows' = [i \in RowIds |-> rows'[i]]
      /\ \A i \in RowIds :
            \/ rows'[i] = rows[i]
            \/ /\ i \in MembershipsOf(u) /\ rows'[i] = NoRow
               /\ rows[i] \in Tuples /\ Subject(rows[i]) = RolesOf(u)
    BY <1>1, <1>2
<1>6. \A i \in MembershipsOf(u) \cap OwnerRows : Ownership \in uncertain'
    BY <1>4
<1> QED
    BY <1>3, <1>4, <1>5, <1>6

\* What a request plans becomes nothing for the rows that go.
LEMMA DeletionLeavesPlans ==
    ASSUME MirrorInv, NEW u \in Users, DeleteUser(u), NEW s \in Requests, NEW i \in RowIds,
           NEW t \in Tuples, Subject(t) # RolesOf(u)
    PROVE  After(s, i)' = t <=> After(s, i) = t
<1>1. request' = request /\ t # NoRow
    BY DeletionFacts, NoRowIsNoTuple
<1>2. \/ rows'[i] = rows[i]
      \/ i \in MembershipsOf(u) /\ rows'[i] = NoRow /\ rows[i] # t /\ i \in Members
    BY DeletionFacts DEF MembershipsOf
<1>3. i \in Members' => i \in Members
    BY <1>2 DEF Members
<1>4. CASE request[s].step = "flush" /\ request[s].tenancy = "gone"
    <2>1. After(s, i) = IF i \in Members THEN NoRow ELSE rows[i]
        BY <1>4 DEF After, Plan, Cascade, Members
    <2>2. After(s, i)' = IF i \in Members' THEN NoRow ELSE rows'[i]
        BY <1>1, <1>4 DEF After, Plan, Cascade, Members, NoRow
    <2>3. i \in Members /\ i \notin Members' => rows'[i] # t
        BY <1>1, <1>2 DEF Members
    <2>4. i \notin Members => rows'[i] = rows[i]
        BY <1>2
    <2> QED
        BY <1>1, <1>3, <2>1, <2>2, <2>3, <2>4
<1>5. CASE ~(request[s].step = "flush" /\ request[s].tenancy = "gone")
    <2>1. Plan(s) = request[s].writes /\ Plan(s)' = request[s].writes
        BY <1>1, <1>5 DEF Plan, Cascade
    <2> QED
        BY <1>1, <1>2, <2>1 DEF After
<1> QED
    BY <1>4, <1>5

LEMMA DeletionKeepsInv ==
    ASSUME MirrorInv, NEW u \in Users, DeleteUser(u)
    PROVE  MirrorInv'
<1>1. AccessTypeOK'
    <2>1. \A s \in Requests : RequestOK(request[s])'
        <3>1. \A s \in Requests : RequestOK(request'[s])
            BY DeletionFacts DEF MirrorInv, AccessTypeOK
        <3> QED
            BY <3>1 DEF RequestOK, IsRequest, InvitesOK, RolesOf, Subject, Membership
    <2>2. rows' \in [RowIds -> RowType]
        BY DeletionFacts DEF MirrorInv, AccessTypeOK, RowType
    <2>3. /\ RowType' = RowType /\ InvitationType' = InvitationType /\ policy \subseteq Tuples
          /\ invitation \in [Invitations -> InvitationType] /\ tenant \in {"new", "live", "gone"}
          /\ request = [r \in Requests |-> request[r]]
        BY SubjectsAreConstant DEF RowType, NoRow, MirrorInv, AccessTypeOK, InvitationType,
           Closed, Open
    <2> QED
        BY <2>1, <2>2, <2>3, DeletionFacts, SubjectsAreConstant DEF AccessTypeOK
<1>2. \A i \in RowIds : \A x : Has(i, x)' => Has(i, x)
    BY DeletionFacts DEF Has, Subject, NoRow
<1>3. OneSubject'
    BY <1>2, SubjectsAreConstant DEF MirrorInv, OneSubject
<1>4. WritersKnow'
    <2>1. ASSUME NEW s \in Requests, NEW i \in DOMAIN request[s].writes,
                 NEW x \in SubjectsOfTuples, Has(i, x)'
          PROVE  x \in request[s].about
        <3>1. i \in RowIds
            BY DEF MirrorInv, AccessTypeOK, RequestOK
        <3> QED
            BY <1>2, <2>1, <3>1 DEF MirrorInv, WritersKnow
    <2> QED
        BY <2>1, DeletionFacts, SubjectsAreConstant DEF WritersKnow
<1>5. OneAtATime'
    BY DeletionFacts DEF MirrorInv, OneAtATime
<1>6. \A x : x \notin uncertain' => x \notin uncertain /\ x # RolesOf(u)
    BY DeletionFacts
<1>7. CallsFitRows'
    <2> SUFFICES ASSUME NEW s \in Requests, NEW t \in Singles,
                        Subject(t) \in request[s].about, Subject(t) \notin uncertain'
                 PROVE  (\E i \in RowIds : After(s, i)' = t)
                            <=> t \in (policy \ request[s].removes) \cup request[s].adds
        BY DeletionFacts, SubjectsAreConstant DEF CallsFitRows
    <2>1. t \in Tuples /\ Subject(t) \notin uncertain /\ Subject(t) # RolesOf(u)
        BY <1>6 DEF Singles
    <2>2. \A i \in RowIds : After(s, i)' = t <=> After(s, i) = t
        BY <2>1, DeletionLeavesPlans
    <2> QED
        BY <2>1, <2>2 DEF MirrorInv, CallsFitRows
<1>8. OnceAfter'
    <2> SUFFICES ASSUME NEW s \in Requests, NEW v \in Users,
                        (RolesOf(v) \in request[s].about)', (RolesOf(v) \notin uncertain)',
                        NEW i \in RowIds, NEW j \in RowIds,
                        IsMembership(After(s, i))', (After(s, i)[2] = v)',
                        IsMembership(After(s, j))', (After(s, j)[2] = v)'
                 PROVE  i = j
        BY DEF OnceAfter
    <2>1. /\ RolesOf(v) \in request[s].about /\ RolesOf(v) \notin uncertain
          /\ RolesOf(v) # RolesOf(u)
        BY <1>6, DeletionFacts, SubjectsAreConstant
    <2>2. /\ IsMembership(After(s, i)') /\ After(s, i)'[2] = v
          /\ IsMembership(After(s, j)') /\ After(s, j)'[2] = v
        BY DEF IsMembership
    <2>3. ASSUME NEW k \in RowIds, IsMembership(After(s, k)'), After(s, k)'[2] = v
          PROVE  After(s, k) = After(s, k)'
        <3>1. After(s, k)' \in RowType
            <4>1. RowType' = RowType /\ AccessTypeOK'
                BY <1>1, SubjectsAreConstant DEF RowType, NoRow
            <4>2. request' = request
                BY DeletionFacts
            <4>3. \A m \in DOMAIN request[s].writes : request[s].writes[m] \in RowType
                BY DEF MirrorInv, AccessTypeOK, RequestOK
            <4>4. rows'[k] \in RowType
                BY <4>1 DEF AccessTypeOK
            <4> QED
                BY <4>2, <4>3, <4>4 DEF After, Plan, Cascade, RowType, NoRow
        <3>2. After(s, k)' \in Tuples /\ Subject(After(s, k)') = RolesOf(v)
            BY <2>3, <3>1, MembershipFacts
        <3> QED
            BY <2>1, <3>2, DeletionLeavesPlans
    <2>4. /\ IsMembership(After(s, i)) /\ After(s, i)[2] = v
          /\ IsMembership(After(s, j)) /\ After(s, j)[2] = v
        BY <2>2, <2>3
    <2> QED
        BY <2>1, <2>4 DEF MirrorInv, OnceAfter
<1>9. StoresAgree'
    <2>1. ASSUME NEW t \in Singles, Subject(t) \notin uncertain',
                 \A s \in Requests : Subject(t) \notin HalfDone(request[s])
          PROVE  t \in policy <=> (\E i \in RowIds : rows'[i] = t)
        <3>1. t # NoRow /\ Subject(t) \notin uncertain /\ Subject(t) # RolesOf(u)
            BY <1>6, <2>1, NoRowIsNoTuple DEF Singles
        <3>2. \A i \in RowIds : rows'[i] = t <=> rows[i] = t
            BY <3>1, DeletionFacts
        <3> QED
            BY <2>1, <3>1, <3>2 DEF MirrorInv, StoresAgree, Stored
    <2> QED
        BY <2>1, DeletionFacts, SubjectsAreConstant DEF StoresAgree, HalfDone, Stored
<1>10. \A i : IsMembership(rows'[i]) /\ i \in RowIds => rows'[i] = rows[i]
    BY DeletionFacts DEF IsMembership
<1>11. OnceNow'
    <2> SUFFICES ASSUME NEW v \in Users, (RolesOf(v) \notin uncertain)',
                        NEW i \in MembershipsOf(v)', NEW j \in MembershipsOf(v)'
                 PROVE  i = j
        BY DEF OnceNow
    <2>1. RolesOf(v) \notin uncertain
        BY <1>6, SubjectsAreConstant
    <2>2. i \in MembershipsOf(v) /\ j \in MembershipsOf(v)
        BY <1>10 DEF MembershipsOf, Members, IsMembership, NoRow
    <2> QED
        BY <2>1, <2>2 DEF MirrorInv, OnceNow
<1>12. NewIsEmpty'
    <2>1. tenant' = tenant /\ request' = request
        BY DeletionFacts
    <2>2. Members = {} => Members' = {}
        BY <1>10 DEF Members, IsMembership, NoRow
    <2> QED
        BY <2>1, <2>2 DEF MirrorInv, NewIsEmpty, IsMembership, NoRow
<1>13. StrayKnown'
    <2>1. stray' => stray \/ \E i \in MembershipsOf(u) \cap OwnerRows : TRUE
        BY DEF DeleteUser
    <2> QED
        BY <2>1, DeletionFacts DEF MirrorInv, StrayKnown, Ownership
<1> QED
    BY <1>1, <1>3, <1>4, <1>5, <1>7, <1>8, <1>9, <1>11, <1>12, <1>13 DEF MirrorInv

-----------------------------------------------------------------------------
(* The two stores.                                                         *)

LEMMA MirrorInit == Init => MirrorInv
<1> SUFFICES ASSUME Init PROVE MirrorInv
    OBVIOUS
<1>1. /\ rows = [i \in RowIds |-> NoRow] /\ tenant = "new" /\ policy = {} /\ uncertain = {}
      /\ deleted = {} /\ stray = FALSE
      /\ invitation = [i \in Invitations |-> NoInvitation]
      /\ request = [r \in Requests |-> Idle]
    BY DEF Init
<1>2. Members = {}
    BY <1>1 DEF Members
<1>3. AccessTypeOK /\ StrayKnown
    <2>1. NoInvitation \in InvitationType
        BY DEF NoInvitation, InvitationType, Closed
    <2>2. rows \in [RowIds -> RowType] /\ invitation \in [Invitations -> InvitationType]
        BY <1>1, <2>1 DEF RowType
    <2> QED
        BY <1>1, <2>2, IdleOK DEF AccessTypeOK, StrayKnown
<1>4. \A i \in RowIds : \A x : ~Has(i, x)
    BY <1>1, NoWrites DEF Has
<1>5. \A r \in Requests : request[r].about = {} /\ DOMAIN request[r].writes = {}
    BY <1>1, IdleOK, NoWrites
<1>6. OneSubject /\ WritersKnow /\ OneAtATime
    BY <1>4, <1>5 DEF OneSubject, WritersKnow, OneAtATime
<1>7. CallsFitRows /\ OnceAfter
    BY <1>5 DEF CallsFitRows, OnceAfter
<1>8. StoresAgree
    <2>1. \A t \in Singles : ~Stored(t)
        BY <1>1, NoRowIsNoTuple DEF Stored, Singles
    <2> QED
        BY <1>1, <2>1 DEF StoresAgree
<1>9. OnceNow /\ NewIsEmpty
    BY <1>2, <1>5 DEF OnceNow, NewIsEmpty, MembershipsOf
<1> QED
    BY <1>3, <1>6, <1>7, <1>8, <1>9 DEF MirrorInv

LEMMA TenantRequestBegins ==
    ASSUME MirrorInv, NEW r \in Requests, TenantRequest(r) \/ InvitationTimeout(r)
    PROVE  Begins(r)
<1>1. ASSUME NEW u \in Users, CreateTenant(r, u) \/ DeleteTenant(r, u) PROVE Begins(r)
    BY <1>1, CreateTenantStep, DeleteTenantStep
<1>2. ASSUME NEW u \in Users, NEW v \in Users, NEW role \in Roles,
             UpdateMemberRole(r, u, v, role)
      PROVE  Begins(r)
    BY <1>2, UpdateMemberRoleStep
<1>3. ASSUME NEW u \in Users, NEW v \in Users, NEW role \in Roles, InviteMember(r, u, v, role)
      PROVE  Begins(r)
    <2>1. PICK k \in Invitations : TRUE
        BY <1>3 DEF InviteMember
    <2> QED
        BY <1>3, InvitationSteps
<1>4. ASSUME NEW u \in Users, NEW v \in Users, RemoveMember(r, u, v) PROVE Begins(r)
    BY <1>4, RemoveMemberStep
<1>5. ASSUME NEW u \in Users, NEW k \in Invitations,
             AcceptInvitation(r, u, k) \/ RevokeInvitation(r, u, k)
      PROVE  Begins(r)
    BY <1>5, AcceptInvitationStep, InvitationSteps
<1>6. ASSUME NEW k \in Invitations, AcceptTooLate(r, k) PROVE Begins(r)
    BY <1>6, InvitationSteps
<1> QED
    BY <1>1, <1>2, <1>3, <1>4, <1>5, <1>6 DEF TenantRequest, InvitationTimeout

LEMMA CatalogRequestBegins ==
    ASSUME MirrorInv, NEW r \in Requests, CatalogRequest(r)
    PROVE  Begins(r)
<1>1. PICK role \in Catalog :
          \/ \E u \in Users : AssignRole(r, u, role) \/ RemoveRole(r, u, role)
          \/ \E p \in Permissions : AssignPermission(r, role, p) \/ RemovePermission(r, role, p)
    BY DEF CatalogRequest
<1>2. ASSUME NEW u \in Users, AssignRole(r, u, role) \/ RemoveRole(r, u, role) PROVE Begins(r)
    <2>1. Assignment(u, role) \in Tuples /\ Assignment(u, role)[4] # "tenant"
        BY CatalogTuples
    <2> QED
        BY <1>2, <2>1, RecordStep, EraseStep DEF AssignRole, RemoveRole
<1>3. ASSUME NEW p \in Permissions,
             AssignPermission(r, role, p) \/ RemovePermission(r, role, p)
      PROVE  Begins(r)
    <2>1. Grant(role, p) \in Tuples /\ Grant(role, p)[4] # "tenant"
        BY CatalogTuples
    <2> QED
        BY <1>3, <2>1, RecordStep, EraseStep DEF AssignPermission, RemovePermission
<1> QED
    BY <1>1, <1>2, <1>3

LEMMA MirrorNext == MirrorInv /\ [Next]_vars => MirrorInv'
<1> SUFFICES ASSUME MirrorInv, [Next]_vars PROVE MirrorInv'
    OBVIOUS
<1>1. ASSUME NEW r \in Requests, TenantRequest(r) \/ InvitationTimeout(r) \/ CatalogRequest(r)
      PROVE  MirrorInv'
    <2>1. PICK q : Begin(r, q) /\ Prepared(q)
        BY <1>1, TenantRequestBegins, CatalogRequestBegins DEF Begins
    <2> QED
        BY <2>1, BeginKeepsInv
<1>2. ASSUME NEW r \in Requests, Flush(r) \/ CallPolicy(r) PROVE MirrorInv'
    BY <1>2, FlushFacts, CallFacts, GivingUpKeepsInv, ProceedingKeepsInv
<1>3. ASSUME NEW r \in Requests, CallFails(r) \/ CommitFails(r) PROVE MirrorInv'
    BY <1>3, CutShort, GivingUpKeepsInv
<1>4. ASSUME NEW r \in Requests, Commit(r) PROVE MirrorInv'
    BY <1>4, CommitKeepsInv
<1>5. ASSUME (\E i \in Invitations : Lapse(i)) \/ Crash \/ UNCHANGED vars PROVE MirrorInv'
    BY <1>5, CutShort, GivingUpKeepsInv
<1>6. ASSUME NEW u \in Users, DeleteUser(u) PROVE MirrorInv'
    BY <1>6, DeletionKeepsInv
<1> QED
    BY <1>1, <1>2, <1>3, <1>4, <1>5, <1>6 DEF Next, Step

LEMMA MirrorAlways == Spec => []MirrorInv
BY MirrorInit, MirrorNext, PTL DEF Spec

\* Rows, invitations, tuples and requests keep their types: a request writes rows and
\* tuples only of subjects it is about.
THEOREM AccessTypesCorrect == Spec => []AccessTypeOK
<1>1. MirrorInv => AccessTypeOK
    BY DEF MirrorInv
<1> QED
    BY <1>1, MirrorAlways, PTL

\* The policy of Casbin and the rows of the database agree about every subject that is
\* at rest, unless two requests about it have overlapped, one was cut short or the user's
\* account was deleted, and unless another row may stand for the tuple: for any number of
\* requests, whatever the slug of the tenant, and for every order of the calls, commits,
\* failures and deletions.
THEOREM StoresMirrorEachOther == Spec => []PolicyMirrorsRows
<1>1. MirrorInv => PolicyMirrorsRows
    <2> SUFFICES ASSUME MirrorInv, NEW t \in Tuples,
                        Twins(t) = {t}, Subject(t) \notin uncertain, Resting(Subject(t))
                 PROVE  t \in policy <=> Stored(t)
        BY DEF PolicyMirrorsRows
    <2>1. \A r \in Requests : Subject(t) \notin HalfDone(request[r])
        BY HalfDoneIsKnown DEF Resting, MirrorInv, AccessTypeOK
    <2> QED
        BY <2>1 DEF MirrorInv, StoresAgree, Singles
<1> QED
    BY <1>1, MirrorAlways, PTL

\* No user is a member of the tenant twice, although no constraint of the table forbids
\* it, unless two requests about the user's role have overlapped.
THEOREM MembersAreOnce == Spec => []MemberOnce
<1>1. MirrorInv => MemberOnce
    <2> SUFFICES ASSUME MirrorInv, NEW u \in Users, RolesOf(u) \notin uncertain
                 PROVE  Cardinality(MembershipsOf(u)) <= 1
        BY DEF MemberOnce
    <2>1. \A i, j \in MembershipsOf(u) : i = j
        BY DEF MirrorInv, OnceNow
    <2>2. CASE MembershipsOf(u) = {}
        BY <2>2, FS_EmptySet
    <2>3. CASE MembershipsOf(u) # {}
        <3>1. PICK i : MembershipsOf(u) = {i}
            BY <2>1, <2>3
        <3> QED
            <4>1. Cardinality({i}) = 1
                BY FS_Singleton
            <4> QED
                BY <3>1, <4>1
    <2> QED
        BY <2>2, <2>3
<1> QED
    BY <1>1, MirrorAlways, PTL

-----------------------------------------------------------------------------
(* The owners.                                                             *)

LEMMA OwnersInit == Init => OwnersInv
<1> SUFFICES ASSUME Init PROVE OwnersInv
    OBVIOUS
<1>1. \A r \in Requests : /\ request[r] = Idle /\ request[r].about = {}
                          /\ DOMAIN request[r].writes = {} /\ ~Locks(r)
    BY IdleOK, NoWrites DEF Init, Locks, Idle
<1>2. JoinersAreNew /\ ChangesKnow /\ ChangedRowsExist /\ AnotherOwner
    BY <1>1 DEF JoinersAreNew, ChangesKnow, ChangedRowsExist, AnotherOwner
<1>3. RowsLockedOnce /\ DeletionTakesAll /\ ChangeShape
    BY <1>1 DEF RowsLockedOnce, DeletionTakesAll, ChangeShape
<1> QED
    BY <1>2, <1>3 DEF OwnersInv

\* The two invariants together.
AccessInv == MirrorInv /\ OwnersInv

\* A request that is given up or begins leaves the rows as they are.
LEMMA OwnersGivenUp ==
    ASSUME AccessInv, GivenUp
    PROVE  OwnersInv'
<1>1. \A s \in Requests : request'[s] = request[s] \/ request'[s] = Idle
    BY DEF GivenUp
<1>2. rows' = rows /\ uncertain \subseteq uncertain'
    BY DEF GivenUp
<1>3. DOMAIN Idle.writes = {} /\ Idle.about = {} /\ Idle.step = "idle"
    BY NoWrites DEF Idle
<1>4. JoinersAreNew'
    BY <1>1, <1>2, <1>3 DEF AccessInv, OwnersInv, JoinersAreNew, Ownership, IsMembership
<1>5. ChangesKnow'
    BY <1>1, <1>2, <1>3 DEF AccessInv, OwnersInv, ChangesKnow, Ownership, IsMembership
<1>6. RowsLockedOnce'
    BY <1>1, <1>3 DEF AccessInv, OwnersInv, RowsLockedOnce, Locks
<1>7. ChangedRowsExist'
    BY <1>1, <1>2, <1>3 DEF AccessInv, OwnersInv, ChangedRowsExist, Locks, Ownership, NoRow
<1>8. DeletionTakesAll'
    BY <1>1, <1>2, <1>3 DEF AccessInv, OwnersInv, DeletionTakesAll, Locks, Members
<1>9. AnotherOwner'
    <2>1. OwnerRows' = OwnerRows
        BY <1>2 DEF OwnerRows, Members
    <2> QED
        <3>1. AnotherOwner
            BY DEF AccessInv, OwnersInv
        <3> QED
            BY <1>1, <1>2, <1>3, <2>1, <3>1 DEF AnotherOwner, Ownership, NoRow
<1>10. ChangeShape'
    <2>1. ASSUME NEW s \in Requests, Ownership \in request'[s].about
          PROVE  request'[s] = request[s]
        BY <1>1, <1>3, <2>1
    <2> QED
        BY <2>1 DEF AccessInv, OwnersInv, ChangeShape, Ownership, NoRow
<1> QED
    BY <1>4, <1>5, <1>6, <1>7, <1>8, <1>9, <1>10 DEF OwnersInv

LEMMA OwnersBegin ==
    ASSUME AccessInv, NEW r \in Requests, NEW q, Begin(r, q), Prepared(q)
    PROVE  OwnersInv'
<1>1. /\ request[r] = Idle /\ request'[r] = q
      /\ \A s \in Requests : s # r => request'[s] = request[s]
      /\ rows' = rows /\ uncertain \subseteq uncertain'
    BY BeginFacts DEF AccessInv
<1>2. q.step = "flush" /\ OwnersSeen(q) /\ WritesFit(q)
    BY DEF Prepared
<1>3. OwnerRows' = OwnerRows
    BY <1>1 DEF OwnerRows, Members
<1>4. /\ JoinersAreNew /\ ChangesKnow /\ RowsLockedOnce /\ ChangedRowsExist
      /\ DeletionTakesAll /\ AnotherOwner /\ ChangeShape
    BY DEF AccessInv, OwnersInv
<1>5. \A i : Fresh(i) => rows[i] = NoRow /\ \A s \in Requests : i \notin DOMAIN request[s].writes
    BY DEF Fresh
<1>6. JoinersAreNew'
    <2> SUFFICES ASSUME NEW s \in Requests, NEW i \in DOMAIN request'[s].writes,
                        Ownership \notin request'[s].about, request'[s].tenancy # "gone",
                        IsMembership(request'[s].writes[i])
                 PROVE  /\ rows[i] = NoRow
                        /\ \A z \in Requests : i \in DOMAIN request'[z].writes => z = s
                        /\ request'[s].joins \/ request'[s].tenancy = "live"
        BY <1>1 DEF JoinersAreNew, Ownership, IsMembership, NoRow
    <2>1. CASE s = r
        <3>1. /\ i \in DOMAIN q.writes /\ Fresh(i)
              /\ q.joins \/ q.tenancy = "live"
            BY <1>1, <1>2, <2>1 DEF OwnersSeen
        <3> QED
            BY <1>1, <1>5, <2>1, <3>1
    <2>2. CASE s # r
        <3>1. /\ rows[i] = NoRow
              /\ \A z \in Requests : i \in DOMAIN request[z].writes => z = s
              /\ request[s].joins \/ request[s].tenancy = "live"
              /\ i \in DOMAIN request[s].writes
            BY <1>1, <1>4, <2>2 DEF JoinersAreNew
        <3>2. i \notin DOMAIN q.writes
            BY <1>2, <1>5, <3>1 DEF WritesFit
        <3> QED
            BY <1>1, <2>2, <3>1, <3>2
    <2> QED
        BY <2>1, <2>2
<1>7. ChangesKnow'
    <2>1. \A i \in DOMAIN q.writes : IsMembership(rows[i]) =>
              Ownership \in q.about \/ q.tenancy = "gone"
        BY <1>2, <1>5 DEF OwnersSeen, IsMembership
    <2>2. ASSUME NEW s \in Requests, NEW i \in DOMAIN request'[s].writes, IsMembership(rows[i])
          PROVE  Ownership \in request'[s].about \/ request'[s].tenancy = "gone"
        BY <1>1, <1>4, <2>1, <2>2 DEF ChangesKnow
    <2> QED
        BY <1>1, <2>2 DEF ChangesKnow, Ownership, IsMembership, NoRow
<1>8. \A s \in Requests : Locks(s)' => s # r /\ Locks(s) /\ request'[s] = request[s]
    BY <1>1, <1>2 DEF Locks
<1>9. RowsLockedOnce'
    BY <1>4, <1>8 DEF RowsLockedOnce
<1>10. ChangedRowsExist'
    BY <1>1, <1>4, <1>8 DEF ChangedRowsExist, Ownership, NoRow
<1>11. DeletionTakesAll'
    BY <1>1, <1>4, <1>8 DEF DeletionTakesAll, Members, NoRow
<1>12. AnotherOwner'
    <2> SUFFICES ASSUME Ownership \notin uncertain', NEW s \in Requests,
                        NEW i \in OwnerRows \cap DOMAIN request'[s].writes,
                        request'[s].tenancy = "as is", request'[s].writes[i] = NoRow
                 PROVE  \E j \in OwnerRows : j \notin DOMAIN request'[s].writes
        BY <1>3 DEF AnotherOwner, Ownership, NoRow
    <2>1. CASE s = r
        BY <1>1, <1>2, <2>1 DEF OwnersSeen
    <2>2. CASE s # r
        BY <1>1, <1>4, <2>2 DEF AnotherOwner
    <2> QED
        BY <2>1, <2>2
<1>13. ChangeShape'
    <2>1. ASSUME NEW s \in Requests, Ownership \in request'[s].about
          PROVE  /\ request'[s].tenancy = "as is"
                 /\ \A i, j \in DOMAIN request'[s].writes : i = j
                 /\ \A i \in DOMAIN request'[s].writes :
                       request'[s].writes[i] = NoRow \/ i \in request'[s].needs
        <3>1. CASE s = r
            BY <1>1, <1>2, <2>1, <3>1 DEF OwnersSeen
        <3>2. CASE s # r
            BY <1>1, <1>4, <2>1, <3>2 DEF ChangeShape
        <3> QED
            BY <3>1, <3>2
    <2> QED
        BY <2>1 DEF ChangeShape, Ownership, NoRow
<1> QED
    BY <1>6, <1>7, <1>9, <1>10, <1>11, <1>12, <1>13 DEF OwnersInv

LEMMA OwnersProceed ==
    ASSUME AccessInv, NEW r \in Requests, Proceeds(r)
    PROVE  OwnersInv'
<1> DEFINE w == request'[r].writes
<1>1. /\ \A s \in Requests : s # r => request'[s] = request[s]
      /\ rows' = rows /\ uncertain' = uncertain
      /\ request'[r].about = request[r].about /\ request'[r].tenancy = request[r].tenancy
      /\ request'[r].joins = request[r].joins /\ request'[r].needs = request[r].needs
      /\ request[r].step \in {"flush", "call"} /\ w = Plan(r)
    BY DEF Proceeds
<1>2. /\ JoinersAreNew /\ ChangesKnow /\ RowsLockedOnce /\ ChangedRowsExist
      /\ DeletionTakesAll /\ AnotherOwner /\ ChangeShape
    BY DEF AccessInv, OwnersInv
<1>3. request[r].tenancy # "gone" \/ request[r].step = "call" => w = request[r].writes
    BY <1>1 DEF Plan, Cascade
<1>4. \A i \in DOMAIN w : \/ w = request[r].writes
                          \/ /\ request[r].tenancy = "gone" /\ IsMembership(rows[i])
                             /\ w[i] = NoRow
    BY <1>1, CascadeFacts DEF AccessInv, IsMembership
<1>5. OwnerRows' = OwnerRows /\ Members' = Members
    BY <1>1 DEF OwnerRows, Members
<1>6. \A s \in Requests : s # r /\ Locks(s)' => Locks(s)
    BY <1>1 DEF Locks
<1> HIDE DEF w
<1>6a. request'[r].writes = w
    BY DEF w
<1>7. JoinersAreNew'
    <2> SUFFICES ASSUME NEW s \in Requests, NEW i \in DOMAIN request'[s].writes,
                        Ownership \notin request'[s].about, request'[s].tenancy # "gone",
                        IsMembership(request'[s].writes[i])
                 PROVE  /\ rows[i] = NoRow
                        /\ \A z \in Requests : i \in DOMAIN request'[z].writes => z = s
                        /\ request'[s].joins \/ request'[s].tenancy = "live"
        BY <1>1 DEF JoinersAreNew, Ownership, IsMembership, NoRow
    <2>1. /\ i \in DOMAIN request[s].writes /\ IsMembership(request[s].writes[i])
          /\ Ownership \notin request[s].about /\ request[s].tenancy # "gone"
        BY <1>1, <1>3, <1>6a
    <2>2. /\ rows[i] = NoRow
          /\ \A z \in Requests : i \in DOMAIN request[z].writes => z = s
          /\ request[s].joins \/ request[s].tenancy = "live"
        BY <1>2, <2>1 DEF JoinersAreNew
    <2>3. ASSUME NEW z \in Requests, i \in DOMAIN request'[z].writes PROVE z = s
        <3>1. CASE z # r
            BY <1>1, <2>2, <2>3, <3>1
        <3>2. CASE z = r
            BY <1>4, <1>6a, <2>2, <2>3, <3>2 DEF IsMembership
        <3> QED
            BY <3>1, <3>2
    <2> QED
        BY <1>1, <2>2, <2>3
<1>8. ChangesKnow'
    <2>1. ASSUME NEW s \in Requests, NEW i \in DOMAIN request'[s].writes, IsMembership(rows[i])
          PROVE  Ownership \in request'[s].about \/ request'[s].tenancy = "gone"
        <3>1. CASE s # r
            BY <1>1, <1>2, <2>1, <3>1 DEF ChangesKnow
        <3>2. CASE s = r
            BY <1>1, <1>2, <1>4, <1>6a, <2>1, <3>2 DEF ChangesKnow
        <3> QED
            BY <3>1, <3>2
    <2> QED
        BY <1>1, <2>1 DEF ChangesKnow, Ownership, IsMembership, NoRow
<1>9. RowsLockedOnce'
    <2>1. ASSUME NEW s \in Requests, s # r, Locks(s)
          PROVE  /\ w = Plan(r) /\ DOMAIN w \cap DOMAIN request[s].writes = {}
                 /\ request[r].tenancy = "gone" =>
                       ~request[s].joins /\ request[s].tenancy = "as is"
                 /\ request[s].tenancy = "gone" =>
                       ~request[r].joins /\ request[r].tenancy = "as is"
        <3>1. CASE request[r].step = "flush"
            <4>1. ~Blocked(r) /\ w = Cascade(r)
                BY <1>1, <3>1 DEF Proceeds, Plan
            <4> QED
                BY <1>1, <2>1, <4>1 DEF Blocked, Locks
        <3>2. CASE request[r].step = "call"
            <4>1. Locks(r) /\ w = request[r].writes
                BY <1>3, <3>2 DEF Locks
            <4> QED
                BY <1>1, <1>2, <2>1, <4>1 DEF RowsLockedOnce
        <3> QED
            BY <1>1, <3>1, <3>2
    <2>2. ASSUME NEW s \in Requests, NEW z \in Requests, s # z, Locks(s)', Locks(z)'
          PROVE  /\ DOMAIN request'[s].writes \cap DOMAIN request'[z].writes = {}
                 /\ request'[s].tenancy = "gone" =>
                       ~request'[z].joins /\ request'[z].tenancy = "as is"
        <3>1. CASE s = r
            <4>1. z # r /\ Locks(z) /\ request'[z] = request[z]
                BY <1>1, <1>6, <2>2, <3>1
            <4> QED
                BY <1>1, <1>6a, <2>1, <3>1, <4>1
        <3>2. CASE z = r
            <4>1. s # r /\ Locks(s) /\ request'[s] = request[s]
                BY <1>1, <1>6, <2>2, <3>2
            <4> QED
                BY <1>1, <1>6a, <2>1, <3>2, <4>1
        <3>3. CASE s # r /\ z # r
            <4>1. /\ Locks(s) /\ Locks(z)
                  /\ request'[s] = request[s] /\ request'[z] = request[z]
                BY <1>1, <1>6, <2>2, <3>3
            <4> QED
                BY <1>2, <2>2, <4>1 DEF RowsLockedOnce
        <3> QED
            BY <3>1, <3>2, <3>3
    <2> QED
        BY <2>2 DEF RowsLockedOnce
<1>10. ChangedRowsExist'
    <2>1. ASSUME NEW s \in Requests, NEW i \in DOMAIN request'[s].writes, Locks(s)',
                 Ownership \in request'[s].about, request'[s].writes[i] # NoRow
          PROVE  rows[i] # NoRow
        <3>1. CASE s # r
            BY <1>1, <1>2, <1>6, <2>1, <3>1 DEF ChangedRowsExist
        <3>2. CASE s = r
            <4>1. Ownership \in request[r].about /\ request[r].tenancy = "as is"
                BY <1>1, <1>2, <2>1, <3>2 DEF ChangeShape
            <4>2. w = request[r].writes
                BY <1>3, <4>1
            <4>3. CASE request[r].step = "flush"
                <5>1. ~Refused(r)
                    BY <4>3 DEF Proceeds
                <5>2. i \in request[r].needs
                    BY <1>2, <1>6a, <2>1, <3>2, <4>1, <4>2 DEF ChangeShape
                <5> QED
                    BY <5>1, <5>2 DEF Refused
            <4>4. CASE request[r].step = "call"
                BY <1>2, <1>6a, <2>1, <3>2, <4>1, <4>2, <4>4 DEF ChangedRowsExist, Locks
            <4> QED
                BY <1>1, <4>3, <4>4
        <3> QED
            BY <3>1, <3>2
    <2> QED
        BY <1>1, <2>1 DEF ChangedRowsExist, Ownership, NoRow
<1>11. DeletionTakesAll'
    <2>1. ASSUME NEW s \in Requests, Locks(s)', request'[s].tenancy = "gone"
          PROVE  Members \subseteq DOMAIN request'[s].writes
        <3>1. CASE s # r
            BY <1>1, <1>2, <1>6, <2>1, <3>1 DEF DeletionTakesAll
        <3>2. CASE s = r
            <4>1. CASE request[r].step = "flush"
                BY <1>1, <1>6a, <2>1, <3>2, <4>1 DEF Plan, Cascade, Members
            <4>2. CASE request[r].step = "call"
                BY <1>1, <1>2, <1>3, <1>6a, <2>1, <3>2, <4>2 DEF DeletionTakesAll, Locks
            <4> QED
                BY <1>1, <4>1, <4>2
        <3> QED
            BY <3>1, <3>2
    <2> QED
        BY <1>5, <2>1 DEF DeletionTakesAll
<1>12. AnotherOwner'
    <2>1. ASSUME NEW s \in Requests, request'[s].tenancy = "as is"
          PROVE  request'[s].writes = request[s].writes /\ request[s].tenancy = "as is"
        BY <1>1, <1>3, <1>6a, <2>1
    <2> QED
        BY <1>1, <1>2, <1>5, <2>1 DEF AnotherOwner, Ownership, NoRow
<1>13. ChangeShape'
    <2>1. ASSUME NEW s \in Requests, Ownership \in request'[s].about
          PROVE  /\ request'[s].tenancy = "as is"
                 /\ \A i, j \in DOMAIN request'[s].writes : i = j
                 /\ \A i \in DOMAIN request'[s].writes :
                       request'[s].writes[i] = NoRow \/ i \in request'[s].needs
        <3>1. request[s].tenancy = "as is" /\ Ownership \in request[s].about
            BY <1>1, <1>2, <2>1 DEF ChangeShape
        <3>2. /\ request'[s].writes = request[s].writes /\ request'[s].tenancy = "as is"
              /\ request'[s].needs = request[s].needs
            BY <1>1, <1>3, <1>6a, <3>1
        <3> QED
            BY <1>2, <3>1, <3>2 DEF ChangeShape
    <2> QED
        BY <2>1 DEF ChangeShape, Ownership, NoRow
<1> QED
    BY <1>7, <1>8, <1>9, <1>10, <1>11, <1>12, <1>13 DEF OwnersInv

\* A commit makes a row a membership only if it was one already, or if the request
\* joins: then nobody else writes it.
LEMMA CommitMembers ==
    ASSUME AccessInv, NEW r \in Requests, Commit(r),
           NEW i \in RowIds, IsMembership(rows'[i])
    PROVE  \/ IsMembership(rows[i])
           \/ /\ request[r].joins \/ request[r].tenancy = "live"
              /\ \A s \in Requests : i \in DOMAIN request[s].writes => s = r
<1>1. MirrorInv /\ JoinersAreNew /\ ChangedRowsExist
    BY DEF AccessInv, OwnersInv
<1>2. CASE i \notin DOMAIN request[r].writes
    BY <1>1, <1>2, CommitFacts DEF After
<1>3. CASE i \in DOMAIN request[r].writes
    <2> DEFINE t == request[r].writes[i]
    <2>1. IsMembership(t) /\ t \in RowType /\ RequestOK(request[r]) /\ Locks(r)
        BY <1>1, <1>3, CommitFacts DEF After, RequestOK, Commit, Locks
    <2>2. request[r].tenancy # "gone"
        BY <1>3, <2>1 DEF RequestOK, IsMembership
    <2>3. CASE Ownership \notin request[r].about
        BY <1>1, <1>3, <2>1, <2>2, <2>3 DEF JoinersAreNew
    <2>4. CASE Ownership \in request[r].about
        <3>1. rows[i] # NoRow /\ t # NoRow
            BY <1>1, <1>3, <2>1, <2>4 DEF ChangedRowsExist, IsMembership
        <3>2. rows[i] \in Tuples /\ t \in Tuples
            BY <1>1, <2>1, <3>1 DEF MirrorInv, AccessTypeOK, RowType
        <3>3. Has(i, Subject(t)) /\ Has(i, Subject(rows[i]))
            BY <1>3, <3>1 DEF Has
        <3>4. Subject(rows[i]) = Subject(t)
            BY <1>1, <3>2, <3>3, SubjectsAreSubjects DEF MirrorInv, OneSubject
        <3>5. Subject(t) = RolesOf(t[2])
            BY <2>1, <3>2, MembershipForm DEF IsMembership
        <3>6. rows[i][4] = "tenant"
            BY <3>2, <3>4, <3>5, SubjectsDiffer
        <3> QED
            BY <3>1, <3>6 DEF IsMembership
    <2> QED
        BY <2>3, <2>4
<1> QED
    BY <1>2, <1>3

LEMMA OwnersCommit ==
    ASSUME AccessInv, NEW r \in Requests, Commit(r)
    PROVE  OwnersInv'
<1>1. /\ RequestOK(request[r]) /\ request'[r] = Idle /\ Locks(r)
      /\ \A s \in Requests : s # r => request'[s] = request[s]
      /\ \A i \in RowIds : rows'[i] = IF i \in DOMAIN request[r].writes
                                      THEN request[r].writes[i] ELSE rows[i]
      /\ uncertain' = uncertain
    BY CommitFacts DEF AccessInv, After, Locks, Commit
<1>2. /\ JoinersAreNew /\ ChangesKnow /\ RowsLockedOnce /\ ChangedRowsExist
      /\ DeletionTakesAll /\ AnotherOwner /\ ChangeShape /\ MirrorInv
    BY DEF AccessInv, OwnersInv
<1>3. DOMAIN Idle.writes = {} /\ Idle.about = {} /\ Idle.step = "idle"
    BY NoWrites DEF Idle
<1>4. \A s \in Requests : DOMAIN request[s].writes \subseteq RowIds
    BY <1>2 DEF MirrorInv, AccessTypeOK, RequestOK
<1>5. \A s \in Requests : Locks(s)' => s # r /\ Locks(s) /\ request'[s] = request[s]
    BY <1>1, <1>3 DEF Locks
<1>6. \A s \in Requests : \A i \in DOMAIN request'[s].writes :
          s # r /\ i \in DOMAIN request[s].writes /\ i \in RowIds /\ request'[s] = request[s]
    BY <1>1, <1>3, <1>4
<1>7. JoinersAreNew'
    <2> SUFFICES ASSUME NEW s \in Requests, NEW i \in DOMAIN request'[s].writes,
                        Ownership \notin request'[s].about, request'[s].tenancy # "gone",
                        IsMembership(request'[s].writes[i])
                 PROVE  /\ rows'[i] = NoRow
                        /\ \A z \in Requests : i \in DOMAIN request'[z].writes => z = s
                        /\ request'[s].joins \/ request'[s].tenancy = "live"
        BY DEF JoinersAreNew, Ownership, IsMembership, NoRow
    <2>1. /\ s # r /\ i \in RowIds /\ request'[s] = request[s]
          /\ i \in DOMAIN request[s].writes
        BY <1>6
    <2>2. /\ rows[i] = NoRow
          /\ \A z \in Requests : i \in DOMAIN request[z].writes => z = s
          /\ request[s].joins \/ request[s].tenancy = "live"
        BY <1>2, <2>1 DEF JoinersAreNew
    <2>3. rows'[i] = NoRow
        BY <1>1, <2>1, <2>2
    <2> QED
        BY <1>6, <2>1, <2>2, <2>3
<1>8. ASSUME NEW s \in Requests, s # r, NEW i \in DOMAIN request[s].writes, IsMembership(rows'[i])
      PROVE  IsMembership(rows[i])
    BY <1>4, <1>8, CommitMembers
<1>9. ChangesKnow'
    <2>1. ASSUME NEW s \in Requests, NEW i \in DOMAIN request'[s].writes, IsMembership(rows'[i])
          PROVE  Ownership \in request'[s].about \/ request'[s].tenancy = "gone"
        <3>1. s # r /\ i \in DOMAIN request[s].writes /\ request'[s] = request[s]
            BY <1>6
        <3>2. IsMembership(rows[i])
            BY <1>8, <2>1, <3>1
        <3> QED
            BY <1>2, <3>1, <3>2 DEF ChangesKnow
    <2> QED
        BY <2>1 DEF ChangesKnow, Ownership, IsMembership, NoRow
<1>10. RowsLockedOnce'
    BY <1>2, <1>5 DEF RowsLockedOnce
<1>11. ChangedRowsExist'
    <2>1. ASSUME NEW s \in Requests, NEW i \in DOMAIN request'[s].writes, Locks(s)',
                 Ownership \in request'[s].about, request'[s].writes[i] # NoRow
          PROVE  rows'[i] # NoRow
        <3>1. s # r /\ Locks(s) /\ request'[s] = request[s] /\ i \in RowIds
            BY <1>5, <1>6, <2>1
        <3>2. rows[i] # NoRow
            BY <1>2, <2>1, <3>1 DEF ChangedRowsExist
        <3>3. i \notin DOMAIN request[r].writes
            BY <1>1, <1>2, <2>1, <3>1 DEF RowsLockedOnce
        <3> QED
            BY <1>1, <3>1, <3>2, <3>3
    <2> QED
        BY <2>1 DEF ChangedRowsExist, Ownership, NoRow
<1>12. DeletionTakesAll'
    <2>1. ASSUME NEW s \in Requests, Locks(s)', request'[s].tenancy = "gone",
                 NEW i \in RowIds, IsMembership(rows'[i])
          PROVE  i \in DOMAIN request'[s].writes
        <3>1. s # r /\ Locks(s) /\ request'[s] = request[s]
            BY <1>5, <2>1
        <3>2. ~request[r].joins /\ request[r].tenancy = "as is"
            BY <1>1, <1>2, <2>1, <3>1 DEF RowsLockedOnce
        <3>3. IsMembership(rows[i])
            BY <2>1, <3>2, CommitMembers
        <3> QED
            BY <1>2, <2>1, <3>1, <3>3 DEF DeletionTakesAll, Members, IsMembership
    <2> QED
        BY <2>1 DEF DeletionTakesAll, Members, IsMembership, NoRow
<1>13. AnotherOwner'
    <2> SUFFICES ASSUME Ownership \notin uncertain', NEW s \in Requests,
                        NEW i \in OwnerRows', i \in DOMAIN request'[s].writes,
                        request'[s].tenancy = "as is", request'[s].writes[i] = NoRow
                 PROVE  \E j \in OwnerRows' : j \notin DOMAIN request'[s].writes
        BY DEF AnotherOwner, Ownership, NoRow
    <2>1. /\ s # r /\ i \in RowIds /\ request'[s] = request[s]
          /\ i \in DOMAIN request[s].writes /\ uncertain' = uncertain
        BY <1>1, <1>6
    <2>2. IsMembership(rows'[i]) /\ rows'[i][3] = "owner"
        BY DEF OwnerRows, Members, IsMembership, NoRow
    <2>3. IsMembership(rows[i])
        BY <1>8, <2>1, <2>2
    <2>4. Ownership \in request[s].about
        BY <1>2, <2>1, <2>3 DEF ChangesKnow
    <2>5. Ownership \notin request[r].about
        BY <1>2, <2>1, <2>4 DEF MirrorInv, OneAtATime
    <2>6. request[r].tenancy # "gone"
        <3> SUFFICES ASSUME request[r].tenancy = "gone" PROVE FALSE
            OBVIOUS
        <3>1. i \in DOMAIN request[r].writes
            BY <1>1, <1>2, <2>1, <2>3 DEF DeletionTakesAll, Members, IsMembership
        <3>2. rows'[i] = NoRow
            BY <1>1, <2>1, <3>1 DEF RequestOK
        <3> QED
            BY <2>2, <3>2 DEF IsMembership
    <2>7. \A k \in RowIds : IsMembership(rows[k]) => rows'[k] = rows[k]
        BY <1>1, <1>2, <2>5, <2>6 DEF ChangesKnow
    <2>8. i \in OwnerRows
        BY <2>1, <2>2, <2>3, <2>7 DEF OwnerRows, Members, IsMembership
    <2>9. PICK j \in OwnerRows : j \notin DOMAIN request[s].writes
        BY <1>2, <2>1, <2>8 DEF AnotherOwner
    <2>10. j \in RowIds /\ IsMembership(rows[j]) /\ rows[j][3] = "owner"
        BY DEF OwnerRows, Members, IsMembership
    <2>11. j \in OwnerRows'
        BY <2>7, <2>10 DEF OwnerRows, Members, IsMembership, NoRow
    <2> QED
        BY <2>1, <2>9, <2>11
<1>14. ChangeShape'
    <2>1. ASSUME NEW s \in Requests, Ownership \in request'[s].about
          PROVE  request'[s] = request[s]
        BY <1>1, <1>3, <2>1
    <2> QED
        BY <1>2, <2>1 DEF ChangeShape, Ownership, NoRow
<1> QED
    BY <1>7, <1>9, <1>10, <1>11, <1>12, <1>13, <1>14 DEF OwnersInv

\* A deletion waits for the requests that have changed a membership of the user.
LEMMA OwnersDeletion ==
    ASSUME AccessInv, NEW u \in Users, DeleteUser(u)
    PROVE  OwnersInv'
<1>0. MirrorInv
    BY DEF AccessInv
<1>1. /\ request' = request /\ uncertain \subseteq uncertain'
      /\ \A i \in RowIds : rows'[i] = rows[i] \/ (i \in MembershipsOf(u) /\ rows'[i] = NoRow)
      /\ \A i \in MembershipsOf(u) \cap OwnerRows : Ownership \in uncertain'
    BY <1>0, DeletionFacts
<1>2. /\ JoinersAreNew /\ ChangesKnow /\ RowsLockedOnce /\ ChangedRowsExist
      /\ DeletionTakesAll /\ AnotherOwner /\ ChangeShape
    BY DEF AccessInv, OwnersInv
<1>3. \A s \in Requests : DOMAIN request[s].writes \subseteq RowIds
    BY DEF AccessInv, MirrorInv, AccessTypeOK, RequestOK
<1>4. \A i \in RowIds : /\ IsMembership(rows'[i]) => rows'[i] = rows[i]
                        /\ rows[i] = NoRow => rows'[i] = NoRow
    BY <1>1 DEF IsMembership
<1>5. JoinersAreNew'
    BY <1>1, <1>2, <1>3, <1>4 DEF JoinersAreNew, Ownership, IsMembership, NoRow
<1>6. ChangesKnow'
    BY <1>1, <1>2, <1>3, <1>4 DEF ChangesKnow, Ownership, IsMembership, NoRow
<1>7. RowsLockedOnce' /\ ChangeShape'
    BY <1>1, <1>2 DEF RowsLockedOnce, ChangeShape, Locks, Ownership, NoRow
<1>8. ChangedRowsExist'
    <2>1. ASSUME NEW s \in Requests, NEW i \in DOMAIN request[s].writes, Locks(s),
                 Ownership \in request[s].about, request[s].writes[i] # NoRow
          PROVE  rows'[i] # NoRow
        <3>1. rows[i] # NoRow /\ i \in RowIds
            BY <1>2, <1>3, <2>1 DEF ChangedRowsExist
        <3>2. i \notin MembershipsOf(u)
            BY <2>1 DEF DeleteUser, Holds, Locks
        <3> QED
            BY <1>1, <3>1, <3>2
    <2> QED
        BY <1>1, <2>1 DEF ChangedRowsExist, Locks, Ownership, NoRow
<1>9. DeletionTakesAll'
    <2>1. Members' \subseteq Members
        BY <1>4 DEF Members, IsMembership, NoRow
    <2> QED
        BY <1>1, <1>2, <2>1 DEF DeletionTakesAll, Locks
<1>10. AnotherOwner'
    <2> SUFFICES ASSUME Ownership \notin uncertain' PROVE AnotherOwner'
        BY DEF AnotherOwner, Ownership
    <2>1. OwnerRows' = OwnerRows
        BY <1>1 DEF OwnerRows, Members, NoRow
    <2> QED
        BY <1>1, <1>2, <2>1 DEF AnotherOwner, Ownership, NoRow
<1> QED
    BY <1>5, <1>6, <1>7, <1>8, <1>9, <1>10 DEF OwnersInv

LEMMA OwnersNext == AccessInv /\ [Next]_vars => OwnersInv'
<1> SUFFICES ASSUME AccessInv, [Next]_vars PROVE OwnersInv'
    OBVIOUS
<1>0. MirrorInv
    BY DEF AccessInv
<1>1. ASSUME NEW r \in Requests, TenantRequest(r) \/ InvitationTimeout(r) \/ CatalogRequest(r)
      PROVE  OwnersInv'
    <2>1. PICK q : Begin(r, q) /\ Prepared(q)
        BY <1>0, <1>1, TenantRequestBegins, CatalogRequestBegins DEF Begins
    <2> QED
        BY <2>1, OwnersBegin
<1>2. ASSUME NEW r \in Requests, Flush(r) \/ CallPolicy(r) PROVE OwnersInv'
    BY <1>0, <1>2, FlushFacts, CallFacts, OwnersGivenUp, OwnersProceed
<1>3. ASSUME NEW r \in Requests, CallFails(r) \/ CommitFails(r) PROVE OwnersInv'
    BY <1>0, <1>3, CutShort, OwnersGivenUp
<1>4. ASSUME NEW r \in Requests, Commit(r) PROVE OwnersInv'
    BY <1>4, OwnersCommit
<1>5. ASSUME (\E i \in Invitations : Lapse(i)) \/ Crash \/ UNCHANGED vars PROVE OwnersInv'
    BY <1>0, <1>5, CutShort, OwnersGivenUp
<1>6. ASSUME NEW u \in Users, DeleteUser(u) PROVE OwnersInv'
    BY <1>6, OwnersDeletion
<1> QED
    BY <1>1, <1>2, <1>3, <1>4, <1>5, <1>6 DEF Next, Step

\* Only a commit changes rows, but for the deletion of an account.
LEMMA RowsChangeAtCommit ==
    ASSUME MirrorInv, [Next]_vars, rows' # rows
    PROVE  (\E s \in Requests : Commit(s)) \/ \E u \in Users : DeleteUser(u)
<1>1. ASSUME NEW r \in Requests, TenantRequest(r) \/ InvitationTimeout(r) \/ CatalogRequest(r)
      PROVE  FALSE
    BY <1>1, TenantRequestBegins, CatalogRequestBegins DEF Begins, Begin
<1>2. ASSUME NEW r \in Requests, Step(r) PROVE Commit(r)
    BY <1>2 DEF Step, Flush, CallPolicy, CallFails, CommitFails
<1>3. ~((\E i \in Invitations : Lapse(i)) \/ Crash \/ UNCHANGED vars)
    BY DEF Lapse, Crash, vars
<1> QED
    BY <1>1, <1>2, <1>3 DEF Next

\* No removal of a member takes the last owner of the tenant, whatever is committed
\* between the count of the owners and the removal: a deletion of the tenant has locked
\* the row, and any other request about the owners would have been seen to overlap.  After
\* the account of an owner was deleted nothing is promised.
THEOREM LastOwnerIsKept == Spec => LastOwnerStays
<1> DEFINE A == \A r \in Requests :
              RemovesAnOwner(r) /\ rows' # rows /\ Ownership \notin uncertain' => OwnerRows' # {}
<1>1. AccessInv /\ [Next]_vars => A
    <2> SUFFICES ASSUME AccessInv, [Next]_vars, NEW r \in Requests,
                        RemovesAnOwner(r), rows' # rows, Ownership \notin uncertain'
                 PROVE  OwnerRows' # {}
        OBVIOUS
    <2>1. MirrorInv /\ RowsLockedOnce /\ AnotherOwner
        BY DEF AccessInv, OwnersInv
    <2>1a. ASSUME NEW u \in Users, DeleteUser(u) PROVE OwnerRows' # {}
        <3>1. \A i \in RowIds : rows'[i] = rows[i] \/ i \in MembershipsOf(u)
            BY <2>1, <2>1a, DeletionFacts
        <3>2. MembershipsOf(u) \cap OwnerRows = {}
            BY <2>1, <2>1a, DeletionFacts
        <3>3. PICK i \in OwnerRows : TRUE
            BY DEF RemovesAnOwner
        <3>4. i \in RowIds /\ rows'[i] = rows[i]
            BY <3>1, <3>2, <3>3 DEF OwnerRows, Members
        <3> QED
            BY <3>3, <3>4 DEF OwnerRows, Members, NoRow
    <2> SUFFICES ASSUME \E s \in Requests : Commit(s) PROVE OwnerRows' # {}
        BY <2>1, <2>1a, RowsChangeAtCommit
    <2>2. PICK s \in Requests : Commit(s)
        OBVIOUS
    <2>2a. Ownership \notin uncertain
        BY <2>2 DEF Commit
    <2>3. \A k \in RowIds : k \notin DOMAIN request[s].writes => rows'[k] = rows[k]
        BY <2>1, <2>2, CommitFacts DEF After
    <2>4. PICK i \in OwnerRows \cap DOMAIN request[r].writes : request[r].writes[i] = NoRow
        BY DEF RemovesAnOwner
    <2>5. \E k \in OwnerRows : k \notin DOMAIN request[s].writes
        <3>1. CASE s = r
            BY <2>1, <2>2a, <2>4, <3>1 DEF AnotherOwner, RemovesAnOwner
        <3>2. CASE s # r
            BY <2>1, <2>2, <2>4, <3>2 DEF RowsLockedOnce, RemovesAnOwner, Locks, Commit
        <3> QED
            BY <3>1, <3>2
    <2>6. PICK k \in OwnerRows : k \notin DOMAIN request[s].writes
        BY <2>5
    <2>7. k \in RowIds /\ rows'[k] = rows[k]
        BY <2>3, <2>6 DEF OwnerRows, Members
    <2>8. k \in OwnerRows'
        BY <2>6, <2>7 DEF OwnerRows, Members, NoRow
    <2> QED
        BY <2>8
<1>2. AccessInv /\ [Next]_vars => AccessInv'
    BY MirrorNext, OwnersNext DEF AccessInv
<1>3. Init => AccessInv
    BY MirrorInit, OwnersInit DEF AccessInv
<1> QED
    BY <1>1, <1>2, <1>3, PTL DEF Spec, LastOwnerStays

=============================================================================
