--------------------------- MODULE TokenSessions ---------------------------
(***************************************************************************)
(* The tracked tokens of one user: sign-in, rotation of refresh tokens,    *)
(* logout and revocation, as requests that interleave in the database.     *)
(*                                                                         *)
(* No handler locks what it reads.  A request reads committed rows, an     *)
(* UPDATE locks the rows it changes until the commit, and an UPDATE that   *)
(* meets a locked row waits and looks at the row again.  A request is      *)
(* therefore split at its reads, its UPDATE statements and its commit.     *)
(* Access and refresh token of one sign-in or refresh are a pair.          *)
(*                                                                         *)
(* Not in the model: the expiry of a token, which changes no row, and the  *)
(* second commit of each handler, which only writes log events.            *)
(***************************************************************************)
EXTENDS Naturals

CONSTANTS
    Requests,       \* requests that may be in progress together
    Pairs,          \* token pairs, each issued at most once
    NoPair,
    Addresses,      \* client addresses, as get_client_ip returns them
    NoAddress

ASSUME PairAssumption == NoPair \notin Pairs
ASSUME AddressAssumption == NoAddress \notin Addresses

VARIABLES
    token,          \* token[x]: the committed is_active of x's tracking row
    issued,         \* issued[p]: address of pair p, and the pair it was refreshed from
    request         \* request[r]: how far r has got

vars == <<token, issued, request>>

Tokens == {"access", "refresh"} \X Pairs

Access(p) == <<"access", p>>
Refresh(p) == <<"refresh", p>>

Idle == [step |-> "idle", at |-> NoAddress, old |-> NoPair, new |-> NoPair,
         rows |-> {}, locks |-> {}]

\* Mutant: a jti may be one that has been issued before.
NotInProgress(p) == \A r \in Requests : request[r].new # p

\* create_access_token and create_refresh_token take a fresh jti.
Unused(p) ==
    /\ token[Access(p)] = "unissued" /\ token[Refresh(p)] = "unissued"
    /\ \A r \in Requests : request[r].new # p

\* The active tokens, of one address or of all.
ActiveAt(a) == {x \in Tokens : token[x] = "active" /\ issued[x[2]].at = a}
Active == {x \in Tokens : token[x] = "active"}

\* Mutant: the bulk UPDATE runs on a connection of its own, for which the rows
\* this request has already changed are locked like any others.
LockedForEverybody(r) == UNION {request[q].locks : q \in Requests}

\* The rows that r's next UPDATE would have to wait for.
LockedByOthers(r) == UNION {request[q].locks : q \in Requests \ {r}}

-----------------------------------------------------------------------------
(* Issuing a pair.                                                         *)

\* Login, the OTP step of a login, signup or a social callback: the password
\* or code has been accepted, and the tokens are signed but not yet tracked.
SignIn(r, a, p) ==
    /\ request[r].step = "idle"
    /\ Unused(p)
    /\ request' = [request EXCEPT ![r] = [Idle EXCEPT !.step = "scan", !.at = a, !.new = p]]
    /\ UNCHANGED <<token, issued>>

\* POST /auth/refresh up to the point where the old token has been found active.
RefreshRead(r, a, q, p) ==
    /\ request[r].step = "idle"
    /\ token[Refresh(q)] = "active"
    /\ Unused(p)
    /\ request' = [request EXCEPT
                      ![r] = [Idle EXCEPT !.step = "flush", !.at = a, !.old = q, !.new = p]]
    /\ UNCHANGED <<token, issued>>

\* Mutant: the old token is revoked only together with the insert of the new ones.
FlushNothing(r) ==
    /\ request[r].step = "flush"
    /\ request' = [request EXCEPT ![r].step = "scan"]
    /\ UNCHANGED <<token, issued>>

\* The old refresh token is set inactive: the session flushes that before the
\* next statement.  The UPDATE is by primary key and looks at nothing else.
RefreshFlush(r) ==
    /\ request[r].step = "flush"
    /\ Refresh(request[r].old) \notin LockedByOthers(r)
    /\ request' = [request EXCEPT ![r].step = "scan",
                                  ![r].locks = {Refresh(request[r].old)}]
    /\ UNCHANGED <<token, issued>>

\* revoke_tokens_for_ip: the rows its UPDATE sees when the statement starts.
Scan(r) ==
    /\ request[r].step = "scan"
    /\ request' = [request EXCEPT ![r].step = "update", ![r].rows = ActiveAt(request[r].at)]
    /\ UNCHANGED <<token, issued>>

-----------------------------------------------------------------------------
(* Revoking.  These handlers read the rows, change the objects, and write  *)
(* the changes by primary key when they commit.                            *)

\* get_current_user: the caller presents an access token that is active.  By the
\* time the handler reads the rows it may have been revoked.
Authenticate(r) ==
    /\ request[r].step = "idle"
    /\ \E p \in Pairs : token[Access(p)] = "active"
    /\ request' = [request EXCEPT ![r].step = "handler"]
    /\ UNCHANGED <<token, issued>>

Revoking(r, from, rows) ==
    /\ request[r].step = from
    /\ request' = [request EXCEPT ![r].step = "write", ![r].rows = rows]
    /\ UNCHANGED <<token, issued>>

\* POST /auth/logout: all tokens of the address the request comes from.
Logout(r, a) == Revoking(r, "handler", ActiveAt(a))

\* POST /tokens/revoke/{id}, of a token that is not revoked yet.
RevokeToken(r, x) == token[x] = "active" /\ Revoking(r, "handler", {x})

\* POST /tokens/revoke-all and /auth/change-password.
RevokeAll(r) == Revoking(r, "handler", Active)

\* POST /auth/password-reset-confirm, with a link from a mail instead of a token.
ResetPassword(r) == Revoking(r, "idle", Active)

-----------------------------------------------------------------------------
(* Writing, for requests of both kinds.                                    *)

\* The UPDATE takes the rows one by one.  By primary key it changes whatever it
\* finds; the bulk UPDATE looks again whether the row is still active ...
LockRow(r, x) ==
    /\ x \in request[r].rows \ LockedByOthers(r)
    /\ request[r].step = "update" => x \in Active
    /\ request' = [request EXCEPT ![r].rows = @ \ {x}, ![r].locks = @ \cup {x}]
    /\ UNCHANGED <<token, issued>>

\* ... and leaves it alone if it is not.
SkipRow(r, x) ==
    /\ request[r].step = "update"
    /\ x \in request[r].rows \ (LockedByOthers(r) \cup Active)
    /\ request' = [request EXCEPT ![r].rows = @ \ {x}]
    /\ UNCHANGED <<token, issued>>

\* Mutant: the tokens revoked are objects of another session, which nobody commits.
CommitNewPairOnly(r) ==
    LET p == request[r].new
    IN  /\ request[r].step \in {"update", "write"}
        /\ request[r].rows = {}
        /\ token' = [x \in Tokens |-> IF x[2] = p THEN "active" ELSE token[x]]
        /\ issued' = [q \in Pairs |-> IF q = p
                                      THEN [at |-> request[r].at, from |-> request[r].old]
                                      ELSE issued[q]]
        /\ request' = [request EXCEPT ![r] = Idle]

\* Both tokens of the pair, if there is one, are inserted, and the transaction
\* is committed.
Commit(r) ==
    LET p == request[r].new
    IN  /\ request[r].step \in {"update", "write"}
        /\ request[r].rows = {}
        /\ token' = [x \in Tokens |-> IF x[2] = p THEN "active"
                                      ELSE IF x \in request[r].locks THEN "revoked"
                                      ELSE token[x]]
        /\ issued' = [q \in Pairs |-> IF q = p
                                      THEN [at |-> request[r].at, from |-> request[r].old]
                                      ELSE issued[q]]
        /\ request' = [request EXCEPT ![r] = Idle]

-----------------------------------------------------------------------------
(* Failures.                                                               *)

\* What r's next statement must lock.
Wanted(r) ==
    CASE request[r].step = "flush" -> {Refresh(request[r].old)}
      [] request[r].step \in {"update", "write"} -> request[r].rows
      [] OTHER -> {}

WaitsFor(r, q) == q # r /\ Wanted(r) \cap request[q].locks # {}

\* r is one of a set of requests each of which waits for another of them and is
\* waited for.
Deadlocked(r) ==
    \E D \in SUBSET Requests :
        /\ r \in D
        /\ \A q \in D : \E s, t \in D : WaitsFor(q, s) /\ WaitsFor(t, q)

RollBack(r) ==
    /\ request' = [request EXCEPT ![r] = Idle]
    /\ UNCHANGED <<token, issued>>

\* The database resolves a deadlock by failing one of its transactions.
DeadlockVictim(r) == Deadlocked(r) /\ RollBack(r)

\* Anything else that raises, a refused request, a lost connection or a crash.
Abort(r) == request[r].step # "idle" /\ RollBack(r)

-----------------------------------------------------------------------------
Init ==
    /\ token = [x \in Tokens |-> "unissued"]
    /\ issued = [p \in Pairs |-> [at |-> NoAddress, from |-> NoPair]]
    /\ request = [r \in Requests |-> Idle]

Start(r) ==
    \/ \E a \in Addresses, p \in Pairs : SignIn(r, a, p)
    \/ \E a \in Addresses, q, p \in Pairs : RefreshRead(r, a, q, p)
    \/ Authenticate(r)
    \/ ResetPassword(r)

Proceed(r) ==
    \/ RefreshFlush(r)
    \/ Scan(r)
    \/ \E a \in Addresses : Logout(r, a)
    \/ \E x \in Tokens : RevokeToken(r, x)
    \/ RevokeAll(r)
    \/ \E x \in Tokens : LockRow(r, x)
    \/ \E x \in Tokens : SkipRow(r, x)
    \/ Commit(r)

Next == \E r \in Requests : Start(r) \/ Proceed(r) \/ DeadlockVictim(r) \/ Abort(r)

Spec == Init /\ [][Next]_vars

\* The event loop resumes a handler whose statement has returned, the database
\* serves the waiters of a row in turn, and it looks for deadlocks.
Fairness ==
    /\ \A r \in Requests : SF_vars(Proceed(r))
    /\ WF_vars(\E r \in Requests : DeadlockVictim(r))

-----------------------------------------------------------------------------
Steps == {"idle", "flush", "scan", "update", "handler", "write"}

\* The rows have the types of the table, and a request on its way to a commit
\* has an address and a pair of its own that nobody has seen.
TypeOK ==
    /\ token \in [Tokens -> {"unissued", "active", "revoked"}]
    /\ issued \in [Pairs -> [at : Addresses \cup {NoAddress}, from : Pairs \cup {NoPair}]]
    /\ request \in [Requests -> [step : Steps,
                                 at : Addresses \cup {NoAddress},
                                 old : Pairs \cup {NoPair},
                                 new : Pairs \cup {NoPair},
                                 rows : SUBSET Tokens,
                                 locks : SUBSET Tokens]]
    /\ \A r \in Requests :
          request[r].step \in {"flush", "scan", "update"} =>
              /\ request[r].at \in Addresses
              /\ request[r].new \in Pairs
              /\ \A k \in {"access", "refresh"} : token[<<k, request[r].new>>] = "unissued"
              /\ \A q \in Requests \ {r} : request[q].new # request[r].new

\* Once a pair has been issued for a refresh token, that refresh token is
\* revoked for good, however many other requests were changing the same rows.
ExchangedTokenIsRevoked ==
    \A p \in Pairs :
        issued[p].from # NoPair => token[Refresh(issued[p].from)] = "revoked"

\* Two clients that exchange the same refresh token at the same time both get a
\* pair (nothing stops the second); but if they share an address only one of the
\* pairs survives.  The second waits for the row of the old token before it
\* looks for the tokens of the address, and so finds those of the first.
OneHeirPerAddress ==
    \A p, q \in Pairs :
        /\ p # q
        /\ issued[p].from # NoPair /\ issued[p].from = issued[q].from
        /\ \E x, y \in Active : x[2] = p /\ y[2] = q
        => issued[p].at # issued[q].at

\* No request waits for ever: of those that block each other one is failed and
\* the others proceed.
EveryRequestEnds ==
    \A r \in Requests : request[r].step # "idle" ~> request[r].step = "idle"
=============================================================================
