--------------------------- MODULE AccessControl ---------------------------
(***************************************************************************)
(* The handlers that change roles: tenants with their members and          *)
(* invitations, and the global catalog of roles and permissions.  Each     *)
(* reads what it decides upon and prepares a request; the steps of the     *)
(* request are those of PolicyMirror.                                      *)
(*                                                                         *)
(* One tenant.  is_active of a membership is never changed by any handler  *)
(* and is left out, as are name, description and is_active of the tenant.  *)
(***************************************************************************)
EXTENDS PolicyMirror, FiniteSets

Rank == [member |-> 0, admin |-> 1, owner |-> 2]

Members == {i \in RowIds : rows[i] # NoRow /\ rows[i][4] = "tenant"}

MembershipsOf(u) == {i \in Members : rows[i][2] = u}

OwnerRows == {i \in Members : rows[i][3] = "owner"}

\* _require_tenant_role, which takes the first of the caller's memberships.
HasRole(u, role) == \E i \in MembershipsOf(u) : Rank[rows[i][3]] >= Rank[role]

RolesOf(u) == Subject(Membership(u, "owner"))

Writes(i, x) == [j \in {i} |-> x]

Change == [Idle EXCEPT !.step = "flush"]

NoInvitation == [status |-> "none"]

-----------------------------------------------------------------------------
(* Tenants.                                                                *)

\* POST /tenants/: the slug is not taken; the caller becomes the owner.
CreateTenant(r, u) ==
    \E i \in RowIds :
        /\ tenant = "new"
        /\ u \notin deleted
        /\ Fresh(i)
        /\ Begin(r, [Change EXCEPT !.about = {RolesOf(u)},
                                   !.writes = Writes(i, Membership(u, "owner")),
                                   !.adds = {Membership(u, "owner")},
                                   !.tenancy = "live"])

\* DELETE /tenants/{id}: the memberships are read before the tenant is deleted.
DeleteTenant(r, u) ==
    /\ HasRole(u, "owner")
    /\ Begin(r, [Change EXCEPT !.about = {RolesOf(v) : v \in Users},
                               !.writes = [i \in Members |-> NoRow],
                               !.needs = Members,
                               !.removes = {rows[i] : i \in Members},
                               !.tenancy = "gone"])

\* Mutant: the new role is added to the policy, the previous one stays.
AddMemberRole(r, u, v, role) ==
    /\ HasRole(u, IF role = "owner" THEN "owner" ELSE "admin")
    /\ \E i \in MembershipsOf(v) :
        /\ rows[i][3] # role
        /\ Begin(r, [Change EXCEPT !.about = {RolesOf(v), Ownership},
                                   !.writes = Writes(i, Membership(v, role)),
                                   !.needs = {i},
                                   !.adds = {Membership(v, role)}])

\* PATCH /tenants/{id}/members/{user}: only an owner makes an owner; a request for
\* the role the member has is answered at once.
UpdateMemberRole(r, u, v, role) ==
    /\ HasRole(u, IF role = "owner" THEN "owner" ELSE "admin")
    /\ \E i \in MembershipsOf(v) :
        /\ rows[i][3] # role
        /\ Begin(r, [Change EXCEPT
               !.about = {RolesOf(v), Ownership},
               !.writes = Writes(i, Membership(v, role)),
               !.needs = {i},
               !.removes = {rows[i]},
               !.adds = {Membership(v, role)}])

\* Mutant: whoever leaves of their own accord is not asked whether others are left.
RemoveAnyMember(r, u, v) ==
    /\ u # v => HasRole(u, "admin")
    /\ \E i \in MembershipsOf(v) :
        Begin(r, [Change EXCEPT !.about = {RolesOf(v), Ownership},
                                !.writes = Writes(i, NoRow),
                                !.removes = {rows[i]}])

\* DELETE /tenants/{id}/members/{user}, by an admin or the member: an owner is
\* removed if the count says that there is another, of a user or of nobody.
RemoveMember(r, u, v) ==
    /\ u # v => HasRole(u, "admin")
    /\ \E i \in MembershipsOf(v) :
        /\ i \in OwnerRows => Cardinality(OwnerRows) > 1 \/ stray
        /\ Begin(r, [Change EXCEPT
               !.about = {RolesOf(v), Ownership},
               !.writes = Writes(i, NoRow),
               !.removes = {rows[i]}])

-----------------------------------------------------------------------------
(* Invitations.                                                            *)

\* POST /tenants/{id}/invitations: not while one for the address is PENDING, its
\* time being over or not.  An invitation that is closed may make room for a new one.
InviteMember(r, u, v, role) ==
    \E i \in Invitations :
        /\ HasRole(u, "admin")
        /\ \A j \in Invitations : invitation[j] \in Open => invitation[j].to # v
        /\ invitation[i] \in Closed /\ \A s \in Requests : i \notin DOMAIN request[s].invites
        /\ Begin(r, [Change EXCEPT
               !.invites = Writes(i, [status |-> "pending", to |-> v, role |-> role]),
               !.joins = TRUE])

Closes(i, status) == Writes(i, [status |-> status])

\* Mutant: whoever holds an invitation joins, a member or not.
JoinAgain(r, u, i) ==
    \E j \in RowIds :
        /\ invitation[i].status = "pending"
        /\ invitation[i].to = u /\ u \notin deleted
        /\ tenant = "live"
        /\ Fresh(j)
        /\ LET t == Membership(u, invitation[i].role) IN
           Begin(r, [Change EXCEPT !.about = {RolesOf(u)},
                                   !.writes = Writes(j, t),
                                   !.invites = Closes(i, "accepted"),
                                   !.adds = {t},
                                   !.joins = TRUE])

\* POST /tenants/invitations/accept, of an invitation to the caller's address.
AcceptInvitation(r, u, i) ==
    \E j \in RowIds :
        /\ invitation[i].status = "pending"
        /\ invitation[i].to = u /\ u \notin deleted
        /\ MembershipsOf(u) = {}
        /\ tenant = "live"
        /\ Fresh(j)
        /\ LET t == Membership(u, invitation[i].role) IN
           Begin(r, [Change EXCEPT !.about = {RolesOf(u)},
                                   !.writes = Writes(j, t),
                                   !.invites = Closes(i, "accepted"),
                                   !.adds = {t},
                                   !.joins = TRUE])

\* The same, too late: the row is set EXPIRED before the caller is looked at.
AcceptTooLate(r, i) ==
    /\ invitation[i].status = "overdue"
    /\ Begin(r, [Change EXCEPT !.invites = Closes(i, "expired")])

\* DELETE /tenants/{id}/invitations/{invitation}
RevokeInvitation(r, u, i) ==
    /\ HasRole(u, "admin")
    /\ invitation[i] \in Open
    /\ Begin(r, [Change EXCEPT !.invites = Closes(i, "revoked")])

\* The 48 hours of an invitation end.
Lapse(i) ==
    /\ invitation[i].status = "pending"
    /\ invitation' = [invitation EXCEPT ![i].status = "overdue"]
    /\ UNCHANGED <<rows, tenant, policy, request, deleted, stray, uncertain>>

-----------------------------------------------------------------------------
(* The global catalog: superusers give roles to users and permissions to   *)
(* roles.                                                                  *)

\* assign_role_to_user, assign_permission_to_role: the row is not there yet.
Record(r, t) ==
    \E i \in RowIds :
        /\ ~Stored(t)
        /\ Fresh(i)
        /\ Begin(r, [Change EXCEPT !.about = {Subject(t)}, !.writes = Writes(i, t), !.adds = {t}])

\* remove_role_from_user, remove_permission_from_role: scalar_one_or_none raises
\* when there are two such rows.
Erase(r, t) ==
    \E i \in RowIds :
        /\ rows[i] = t
        /\ \A j \in RowIds : rows[j] = t => j = i
        /\ Begin(r, [Change EXCEPT !.about = {Subject(t)}, !.writes = Writes(i, NoRow),
                                   !.removes = {t}])

AssignRole(r, u, role) == u \notin deleted /\ Record(r, Assignment(u, role))
RemoveRole(r, u, role) == Erase(r, Assignment(u, role))
AssignPermission(r, role, p) == Record(r, Grant(role, p))
RemovePermission(r, role, p) == Erase(r, Grant(role, p))

-----------------------------------------------------------------------------
(* Accounts.                                                               *)

\* A request has changed a row that goes with the user, or adds one.
Holds(r, u) ==
    /\ request[r].step \in {"call", "commit"}
    /\ \E i \in DOMAIN request[r].writes :
          \/ i \in MembershipsOf(u)
          \/ rows[i] = NoRow /\ request[r].writes[i] # NoRow /\ request[r].writes[i][2] = u

\* DELETE /users/{id}, which waits for those requests: the memberships lose their user
\* and are nobody's, the tuples stay.  A user with roles of the catalog is not deleted,
\* for their rows cannot lose the user.
DeleteUser(u) ==
    /\ u \notin deleted
    /\ \A role \in Catalog : ~Stored(Assignment(u, role))
    /\ \A r \in Requests : ~Holds(r, u)
    /\ deleted' = deleted \cup {u}
    /\ rows' = [i \in RowIds |-> IF i \in MembershipsOf(u) THEN NoRow ELSE rows[i]]
    /\ stray' = (stray \/ MembershipsOf(u) \cap OwnerRows # {})
    /\ uncertain' = uncertain \cup {RolesOf(u)}
           \cup {Ownership : i \in MembershipsOf(u) \cap OwnerRows}
    /\ UNCHANGED <<invitation, tenant, policy, request>>

-----------------------------------------------------------------------------
Init ==
    /\ rows = [i \in RowIds |-> NoRow]
    /\ invitation = [i \in Invitations |-> NoInvitation]
    /\ tenant = "new"
    /\ policy = {}
    /\ request = [r \in Requests |-> Idle]
    /\ deleted = {}
    /\ stray = FALSE
    /\ uncertain = {}

TenantRequest(r) ==
    \E u \in Users :
        \/ CreateTenant(r, u)
        \/ DeleteTenant(r, u)
        \/ \E v \in Users, role \in Roles :
              UpdateMemberRole(r, u, v, role) \/ InviteMember(r, u, v, role)
        \/ \E v \in Users : RemoveMember(r, u, v)
        \/ \E i \in Invitations : AcceptInvitation(r, u, i) \/ RevokeInvitation(r, u, i)

CatalogRequest(r) ==
    \E role \in Catalog :
        \/ \E u \in Users : AssignRole(r, u, role) \/ RemoveRole(r, u, role)
        \/ \E p \in Permissions : AssignPermission(r, role, p) \/ RemovePermission(r, role, p)

InvitationTimeout(r) == \E i \in Invitations : AcceptTooLate(r, i)

Next ==
    \/ \E r \in Requests :
          TenantRequest(r) \/ InvitationTimeout(r) \/ CatalogRequest(r) \/ Step(r)
    \/ \E i \in Invitations : Lapse(i)
    \/ \E u \in Users : DeleteUser(u)
    \/ Crash

Spec == Init /\ [][Next]_vars

-----------------------------------------------------------------------------
(* Properties.                                                             *)

\* The removal of an owner that r is about to commit.
RemovesAnOwner(r) ==
    /\ request[r].step = "commit"
    /\ request[r].tenancy = "as is"
    /\ \E i \in OwnerRows \cap DOMAIN request[r].writes : request[r].writes[i] = NoRow

\* A user is a member once, unless two requests about the user's role have overlapped:
\* no constraint of the table says so.
MemberOnce == \A u \in Users : RolesOf(u) \notin uncertain => Cardinality(MembershipsOf(u)) <= 1

\* No removal takes the last owner, unless requests about the members' roles have
\* overlapped or an owner's account was deleted, whose row counts as before.
LastOwnerStays ==
    [][\A r \in Requests :
          RemovesAnOwner(r) /\ rows' # rows /\ Ownership \notin uncertain' => OwnerRows' # {}]_vars
=============================================================================
