---------------------------- MODULE CachedReads ----------------------------
(***************************************************************************)
(* The read endpoints keep their answers in Redis: a miss reads the        *)
(* database and stores the answer with a time to live; a handler that      *)
(* changes something commits and then clears the keys it thinks of.        *)
(*                                                                         *)
(* Keys do not touch each other, so that a behaviour watches one of them,  *)
(* any of them.  Of the database only what the watched answer shows is     *)
(* kept.                                                                   *)
(***************************************************************************)
EXTENDS Naturals

CONSTANTS Readers, Writers

-----------------------------------------------------------------------------
(* What each cached answer shows.  The profile and the user by id are one  *)
(* key.  A role by its id is never stored, and the direct permissions of a *)
(* user in Casbin are always empty: neither can be out of date.            *)

ListUsers == {"user", "users", "assignments"}
GetUser == {"user", "assignments"}
ListRoles == {"roles"}
ListPermissions == {"permissions"}
UserRoles == {"assignments"}
RolePermissions == {"grants"}
CasbinRoles(domain) == IF domain = "global" THEN {"assignments"} ELSE {"memberships"}
CheckPermission == {"assignments", "grants"}
ListMyTenants == {"memberships"}
ListActiveTokens == {"tokens"}

Shows ==
    [users               |-> ListUsers,
     profile             |-> GetUser,
     roles               |-> ListRoles,
     permissions         |-> ListPermissions,
     user_roles          |-> UserRoles,
     role_permissions    |-> RolePermissions,
     global_casbin_roles |-> CasbinRoles("global"),
     tenant_casbin_roles |-> CasbinRoles("a tenant"),
     permission_check    |-> CheckPermission,
     tenants             |-> ListMyTenants,
     tokens              |-> ListActiveTokens]

Keys == DOMAIN Shows

\* Answers whose rows carry a datetime: json.dumps refuses them, so that set returns
\* False and nothing is stored.  A page without rows is stored.
Dated == {"roles", "permissions", "user_roles", "role_permissions", "tenants", "tokens"}

-----------------------------------------------------------------------------
(* What the handlers change, and the keys they clear after the commit.     *)

Does(changes, clears) == [changes |-> changes, clears |-> clears]

\* _invalidate_user_cache, and _invalidate_user_authorization_cache
OfUser == {"profile", "user_roles", "global_casbin_roles", "tenant_casbin_roles",
           "permission_check"}

\* _invalidate_role_authorization_cache
OfRole == {"role_permissions", "permission_check"}

CreateRole == Does({"roles"}, {"roles"})
CreatePermission == Does({"permissions"}, {"permissions"})
AssignRole == Does({"assignments"}, OfUser)
RemoveRole == Does({"assignments"}, OfUser)
AssignPermission == Does({"grants"}, OfRole)
RemovePermission == Does({"grants"}, OfRole)
ChangeMember == Does({"memberships"}, {"tenants"})
UpdateCurrentUser == Does({"user"}, OfUser \cup {"users"})
UpdateUser == Does({"user"}, OfUser \cup {"users"})
DeleteUser == Does({"user", "users"}, OfUser \cup {"users"})
UploadAvatar == Does({"user"}, OfUser)
NewUser == Does({"users"}, {"users"})
SocialSignIn == Does({"users", "user", "tokens"}, {})
VerifyEmail == Does({"user"}, {"profile"})
SwitchOtp == Does({"user"}, {"profile"})
NewPassword == Does({"tokens"}, {"profile", "tokens"})
RevokeTokens == Does({"tokens"}, {"tokens"})
NewTokens == Does({"tokens"}, {})

Operations ==
    {CreateRole, CreatePermission, AssignRole, RemoveRole, AssignPermission,
     RemovePermission, ChangeMember, UpdateCurrentUser, UpdateUser, DeleteUser,
     UploadAvatar, NewUser, SocialSignIn, VerifyEmail, SwitchOtp, NewPassword,
     RevokeTokens, NewTokens}

-----------------------------------------------------------------------------
VARIABLES
    key,            \* the key that is watched
    stored,         \* what its answer shows, as committed
    kept,           \* the answer in Redis, or Nothing
    reader,         \* reader[p]: the answer p has read and not yet stored
    writer,         \* writer[w]: TRUE while w has committed and not yet cleared the key
    overtaken,      \* readers whose answer has changed since they read it
    excuse,         \* why the kept answer need not be up to date
    quiet           \* nobody changes anything any more

readVars == <<key, stored, kept, reader, writer, overtaken, excuse, quiet>>

Nothing == [none |-> 0]

\* Contents 0 and 1 have no row with a date, 2 has.
Contents == IF key \in Dated THEN 0..2 ELSE 0..1

Storable(answer) == key \in Dated => \A f \in DOMAIN answer : answer[f] # 2

ReadInit ==
    /\ key \in Keys
    /\ stored = [f \in Shows[key] |-> 0]
    /\ kept = Nothing
    /\ reader = [p \in Readers |-> Nothing]
    /\ writer = [w \in Writers |-> FALSE]
    /\ overtaken = {}
    /\ excuse = {}
    /\ quiet = FALSE

\* A miss: the answer is made from the database.  A hit changes nothing.
Miss(p) ==
    /\ kept = Nothing
    /\ reader[p] = Nothing
    /\ reader' = [reader EXCEPT ![p] = stored]
    /\ overtaken' = overtaken \ {p}
    /\ UNCHANGED <<key, stored, kept, writer, excuse, quiet>>

\* RedisCache.set; a failure is swallowed.
Keep(p) ==
    /\ reader[p] # Nothing
    /\ reader' = [reader EXCEPT ![p] = Nothing]
    /\ \/ /\ Storable(reader[p])
          /\ kept' = reader[p]
          /\ excuse' = IF p \in overtaken THEN {"overtaken"} ELSE {}
       \/ UNCHANGED <<kept, excuse>>
    /\ UNCHANGED <<key, stored, writer, overtaken, quiet>>

\* Mutant: the keys are cleared before the change is committed.
ClearThenChange(w, op) ==
    /\ ~quiet
    /\ ~writer[w]
    /\ op.changes \cap Shows[key] # {}
    /\ \E new \in [Shows[key] -> Contents] :
        /\ \A f \in Shows[key] \ op.changes : new[f] = stored[f]
        /\ stored' = new
    /\ overtaken' = {p \in Readers : reader[p] # Nothing}
    /\ excuse' = IF key \in op.clears THEN excuse ELSE excuse \cup {"forgotten"}
    /\ UNCHANGED <<key, kept, reader, writer, quiet>>

\* The commit of an operation that changes the watched answer.  The key may be one
\* it does not clear.
Change(w, op) ==
    /\ ~quiet
    /\ ~writer[w]
    /\ op.changes \cap Shows[key] # {}
    /\ \E new \in [Shows[key] -> Contents] :
        /\ \A f \in Shows[key] \ op.changes : new[f] = stored[f]
        /\ stored' = new
    /\ writer' = [writer EXCEPT ![w] = key \in op.clears]
    /\ overtaken' = {p \in Readers : reader[p] # Nothing}
    /\ excuse' = IF key \in op.clears THEN excuse ELSE excuse \cup {"forgotten"}
    /\ UNCHANGED <<key, kept, reader, quiet>>

\* delete and clear_pattern; a failure is swallowed, and so is the death of the
\* process between the commit and the call.
Clear(w) ==
    /\ writer[w]
    /\ writer' = [writer EXCEPT ![w] = FALSE]
    /\ \/ kept' = Nothing /\ excuse' = {}
       \/ UNCHANGED kept /\ excuse' = excuse \cup {"failed"}
    /\ UNCHANGED <<key, stored, reader, overtaken, quiet>>

\* Mutant: set in place of setex.
KeptForever == FALSE /\ UNCHANGED readVars

\* The time to live of the entry ends.
Expire ==
    /\ kept # Nothing
    /\ kept' = Nothing
    /\ excuse' = {}
    /\ UNCHANGED <<key, stored, reader, writer, overtaken, quiet>>

\* The last change has been made.
Settle ==
    /\ ~quiet
    /\ quiet' = TRUE
    /\ UNCHANGED <<key, stored, kept, reader, writer, overtaken, excuse>>

ReadNext ==
    \/ \E p \in Readers : Miss(p) \/ Keep(p)
    \/ \E w \in Writers : Clear(w) \/ \E op \in Operations : Change(w, op)
    \/ Expire
    \/ Settle

\* A request that has begun goes on, and every entry has a time to live.
ReadFairness ==
    /\ \A p \in Readers : WF_readVars(Keep(p))
    /\ \A w \in Writers : WF_readVars(Clear(w))
    /\ WF_readVars(Expire)

ReadSpec == ReadInit /\ [][ReadNext]_readVars /\ ReadFairness

-----------------------------------------------------------------------------
(* Properties.                                                             *)

UpToDate == kept \in {Nothing, stored}

\* A kept answer is what the database says, or the handler that changed it is about
\* to clear it, or it was stored by a reader the change has overtaken, or the clear
\* has failed, or the handler does not clear this key: commit first, clear next.
KeptAnswersAreRight == UpToDate \/ excuse # {} \/ \E w \in Writers : writer[w]

\* Whatever went wrong, after the last change the answers get right and stay so.
AnswersCatchUp == quiet ~> []UpToDate
=============================================================================
