------------------------ MODULE TokenSessionsProofs ------------------------
(***************************************************************************)
(* Proofs about TokenSessions, for any number of requests, pairs and       *)
(* addresses: the tracking rows keep their types, an exchanged refresh     *)
(* token stays revoked, and of the pairs exchanged for one refresh token   *)
(* from one address at most one is alive.                                  *)
(*                                                                         *)
(* The argument is about row locks.  A request that has flushed its old    *)
(* refresh token holds that row until it commits, so two exchanges of the  *)
(* same token are ordered from the flush on, and the second one scans the  *)
(* rows of the address after the first one has committed.                  *)
(***************************************************************************)
EXTENDS TokenSessions, TLAPS

IsRequest(n) ==
    n \in [step : Steps, at : Addresses \cup {NoAddress}, old : Pairs \cup {NoPair},
           new : Pairs \cup {NoPair}, rows : SUBSET Tokens, locks : SUBSET Tokens]

Issuing(n) == n.step \in {"flush", "scan", "update"}

\* A request that issues a pair has one, which nobody has seen; the others have none.
NewUnseen(n) ==
    IF Issuing(n)
    THEN /\ n.at \in Addresses
         /\ n.new \in Pairs
         /\ n.step = "flush" => n.old \in Pairs
         /\ \A k \in {"access", "refresh"} : token[<<k, n.new>>] = "unissued"
    ELSE n.new = NoPair /\ n.old = NoPair

\* A request that exchanges a refresh token holds its row from the flush on.
OldLocked(n) ==
    n.old # NoPair =>
        /\ token[Refresh(n.old)] # "unissued"
        /\ n.step # "flush" => Refresh(n.old) \in n.locks

RowsIssued(n) == \A x \in n.rows \cup n.locks : token[x] # "unissued"

\* Whatever is alive at the address and came from the same refresh token is
\* among the rows the request is going to revoke.
HeirsFound(n) ==
    n.step = "update" /\ n.old # NoPair =>
        \A x \in Active :
            issued[x[2]].from = n.old /\ issued[x[2]].at = n.at => x \in n.rows \cup n.locks

Fits(n) == IsRequest(n) /\ NewUnseen(n) /\ OldLocked(n) /\ RowsIssued(n) /\ HeirsFound(n)

\* Two requests have neither a new pair nor a locked row in common.
Apart(m, n) ==
    /\ Issuing(m) /\ Issuing(n) => m.new # n.new
    /\ m.locks \cap n.locks = {}

RowsTyped ==
    /\ token \in [Tokens -> {"unissued", "active", "revoked"}]
    /\ issued \in [Pairs -> [at : Addresses \cup {NoAddress}, from : Pairs \cup {NoPair}]]

RequestsFit ==
    /\ request \in [Requests -> [step : Steps, at : Addresses \cup {NoAddress},
                                 old : Pairs \cup {NoPair}, new : Pairs \cup {NoPair},
                                 rows : SUBSET Tokens, locks : SUBSET Tokens]]
    /\ \A r \in Requests : Fits(request[r])
    /\ \A r, q \in Requests : r # q => Apart(request[r], request[q])

\* The inductive invariant.
Inv == RowsTyped /\ RequestsFit /\ ExchangedTokenIsRevoked /\ OneHeirPerAddress

-----------------------------------------------------------------------------
\* A request in its initial state has nothing and is in nobody's way.
LEMMA IdleFits == Fits(Idle) /\ \A n : IsRequest(n) => Apart(Idle, n) /\ Apart(n, Idle)
BY PairAssumption
   DEF Fits, Idle, IsRequest, Steps, NewUnseen, OldLocked, RowsIssued, HeirsFound, Issuing, Apart

LEMMA InvInit == Init => Inv
<1> SUFFICES ASSUME Init PROVE Inv
    OBVIOUS
<1>1. RowsTyped
    BY DEF Init, RowsTyped
<1>2. RequestsFit
    BY IdleFits DEF Init, RequestsFit, Fits, IsRequest
<1>3. ExchangedTokenIsRevoked /\ OneHeirPerAddress
    BY DEF Init, ExchangedTokenIsRevoked, OneHeirPerAddress
<1> QED
    BY <1>1, <1>2, <1>3 DEF Inv

\* The uniqueness part of TypeOK follows from NewUnseen and Apart.
LEMMA InvTyped == Inv => TypeOK
<1> SUFFICES ASSUME Inv PROVE TypeOK
    OBVIOUS
<1>1. ASSUME NEW r \in Requests, request[r].step \in {"flush", "scan", "update"}
      PROVE  /\ request[r].at \in Addresses
             /\ request[r].new \in Pairs
             /\ \A k \in {"access", "refresh"} : token[<<k, request[r].new>>] = "unissued"
    BY <1>1 DEF Inv, RequestsFit, Fits, NewUnseen, Issuing
<1>2. ASSUME NEW r \in Requests, request[r].step \in {"flush", "scan", "update"},
             NEW q \in Requests \ {r}
      PROVE  request[q].new # request[r].new
    <2>1. request[r].new \in Pairs
        BY <1>1, <1>2
    <2>2. Apart(request[r], request[q]) /\ NewUnseen(request[q])
        BY <1>2 DEF Inv, RequestsFit, Fits
    <2> QED
        BY <1>2, <2>1, <2>2, PairAssumption DEF Apart, NewUnseen, Issuing
<1> QED
    BY <1>1, <1>2 DEF Inv, RowsTyped, RequestsFit, TypeOK

\* A step that changes one request, and no row, keeps the invariant if the
\* request fits afterwards.
LEMMA RequestStep ==
    ASSUME Inv, NEW r \in Requests, NEW n, Fits(n),
           \A q \in Requests \ {r} : Apart(n, request[q]),
           request' = [request EXCEPT ![r] = n],
           UNCHANGED <<token, issued>>
    PROVE  Inv'
<1>1. IsRequest(n)
    BY DEF Fits
<1>2. request' \in [Requests -> [step : Steps, at : Addresses \cup {NoAddress},
                                 old : Pairs \cup {NoPair}, new : Pairs \cup {NoPair},
                                 rows : SUBSET Tokens, locks : SUBSET Tokens]]
    BY <1>1 DEF Inv, RequestsFit, IsRequest
<1>3. request'[r] = n /\ \A q \in Requests \ {r} : request'[q] = request[q]
    BY DEF Inv, RequestsFit
<1>4. \A q \in Requests : Fits(request'[q])
    BY <1>3 DEF Inv, RequestsFit
<1>5. ASSUME NEW q \in Requests PROVE Fits(request[q]')
    BY <1>4 DEF Fits, IsRequest, NewUnseen, OldLocked, RowsIssued, HeirsFound, Issuing, Active
<1>6. ASSUME NEW q \in Requests, NEW s \in Requests, q # s
      PROVE  Apart(request[q], request[s])'
    BY <1>3, <1>6 DEF Inv, RequestsFit, Apart, Issuing
<1>7. RequestsFit'
    <2>1. (\A q \in Requests : Fits(request[q]))'
        BY <1>5 DEF Fits, IsRequest, NewUnseen, OldLocked, RowsIssued, HeirsFound, Issuing, Active
    <2>2. (\A q, s \in Requests : q # s => Apart(request[q], request[s]))'
        BY <1>6 DEF Apart, Issuing
    <2> QED
        BY <1>2, <2>1, <2>2 DEF RequestsFit
<1>8. RowsTyped' /\ ExchangedTokenIsRevoked' /\ OneHeirPerAddress'
    BY DEF Inv, RowsTyped, ExchangedTokenIsRevoked, OneHeirPerAddress, Active
<1> QED
    BY <1>7, <1>8 DEF Inv

-----------------------------------------------------------------------------
(* The steps that only move a request on.                                  *)

\* What is known of a request before its step.
LEMMA Before ==
    ASSUME Inv, NEW r \in Requests
    PROVE  /\ IsRequest(request[r]) /\ NewUnseen(request[r]) /\ OldLocked(request[r])
           /\ RowsIssued(request[r]) /\ HeirsFound(request[r])
           /\ \A q \in Requests \ {r} : IsRequest(request[q]) /\ Apart(request[r], request[q])
BY DEF Inv, RequestsFit, Fits

LEMMA SignInStep ==
    ASSUME Inv, NEW r \in Requests, NEW a \in Addresses, NEW p \in Pairs, SignIn(r, a, p)
    PROVE  Inv'
<1> DEFINE n == [Idle EXCEPT !.step = "scan", !.at = a, !.new = p]
<1>1. request' = [request EXCEPT ![r] = n] /\ UNCHANGED <<token, issued>>
    BY DEF SignIn
<1>2. token[<<"refresh", p>>] = "unissued" /\ token[<<"access", p>>] = "unissued"
    BY DEF SignIn, Unused, Access, Refresh
<1>3. Fits(n)
    BY <1>2 DEF Fits, IsRequest, Idle, Steps, NewUnseen, OldLocked, RowsIssued, HeirsFound, Issuing
<1>4. \A q \in Requests \ {r} : Apart(n, request[q])
    BY DEF SignIn, Unused, Apart, Idle
<1> QED
    BY <1>1, <1>3, <1>4, RequestStep

LEMMA RefreshReadStep ==
    ASSUME Inv, NEW r \in Requests, NEW a \in Addresses, NEW q \in Pairs, NEW p \in Pairs,
           RefreshRead(r, a, q, p)
    PROVE  Inv'
<1> DEFINE n == [Idle EXCEPT !.step = "flush", !.at = a, !.old = q, !.new = p]
<1>1. request' = [request EXCEPT ![r] = n] /\ UNCHANGED <<token, issued>>
    BY DEF RefreshRead
<1>2. token[<<"refresh", p>>] = "unissued" /\ token[<<"access", p>>] = "unissued"
    BY DEF RefreshRead, Unused, Access, Refresh
<1>3. token[Refresh(q)] = "active"
    BY DEF RefreshRead
<1>4. Fits(n)
    BY <1>2, <1>3
    DEF Fits, IsRequest, Idle, Steps, NewUnseen, OldLocked, RowsIssued, HeirsFound, Issuing
<1>5. \A s \in Requests \ {r} : Apart(n, request[s])
    BY DEF RefreshRead, Unused, Apart, Idle
<1> QED
    BY <1>1, <1>4, <1>5, RequestStep

\* The flush takes the lock that orders exchanges of the same token.
LEMMA RefreshFlushStep ==
    ASSUME Inv, NEW r \in Requests, RefreshFlush(r)
    PROVE  Inv'
<1> DEFINE x == Refresh(request[r].old)
           n == [request[r] EXCEPT !.step = "scan", !.locks = {x}]
<1>1. request' = [request EXCEPT ![r] = n] /\ UNCHANGED <<token, issued>>
    BY DEF RefreshFlush
<1>2. /\ IsRequest(request[r]) /\ NewUnseen(request[r]) /\ OldLocked(request[r])
      /\ RowsIssued(request[r])
    BY Before
<1>3. request[r].step = "flush" /\ x \notin LockedByOthers(r)
    BY DEF RefreshFlush
<1>4. request[r].old \in Pairs /\ x \in Tokens
    BY <1>2, <1>3 DEF NewUnseen, Issuing, Refresh, Tokens
<1>5. Fits(n)
    <2>1. IsRequest(n)
        BY <1>2, <1>4 DEF IsRequest, Steps
    <2>2. NewUnseen(n)
        BY <1>2, <1>3 DEF NewUnseen, Issuing, IsRequest
    <2>3. OldLocked(n) /\ RowsIssued(n) /\ HeirsFound(n)
        BY <1>2, <1>4, PairAssumption DEF OldLocked, RowsIssued, HeirsFound, IsRequest
    <2> QED
        BY <2>1, <2>2, <2>3 DEF Fits
<1>6. ASSUME NEW q \in Requests \ {r} PROVE Apart(n, request[q])
    BY <1>2, <1>3, Before DEF Apart, Issuing, IsRequest, LockedByOthers
<1> QED
    BY <1>1, <1>5, <1>6, RequestStep

\* The scan comes after the flush: it sees every pair that was exchanged for
\* the same token before.
LEMMA ScanStep ==
    ASSUME Inv, NEW r \in Requests, Scan(r)
    PROVE  Inv'
<1> DEFINE n == [request[r] EXCEPT !.step = "update", !.rows = ActiveAt(request[r].at)]
<1>1. request' = [request EXCEPT ![r] = n] /\ UNCHANGED <<token, issued>>
    BY DEF Scan
<1>2. /\ IsRequest(request[r]) /\ NewUnseen(request[r]) /\ OldLocked(request[r])
      /\ RowsIssued(request[r])
    BY Before
<1>3. request[r].step = "scan"
    BY DEF Scan
<1>4. Fits(n)
    <2>1. IsRequest(n)
        BY <1>2 DEF IsRequest, Steps, ActiveAt
    <2>2. NewUnseen(n)
        BY <1>2, <1>3 DEF NewUnseen, Issuing, IsRequest
    <2>3. OldLocked(n) /\ RowsIssued(n) /\ HeirsFound(n)
        BY <1>2, <1>3 DEF OldLocked, RowsIssued, HeirsFound, IsRequest, ActiveAt, Active
    <2> QED
        BY <2>1, <2>2, <2>3 DEF Fits
<1>5. ASSUME NEW q \in Requests \ {r} PROVE Apart(n, request[q])
    BY <1>2, <1>3, Before DEF Apart, Issuing, IsRequest
<1> QED
    BY <1>1, <1>4, <1>5, RequestStep

LEMMA AuthenticateStep ==
    ASSUME Inv, NEW r \in Requests, Authenticate(r)
    PROVE  Inv'
<1> DEFINE n == [request[r] EXCEPT !.step = "handler"]
<1>1. request' = [request EXCEPT ![r] = n] /\ UNCHANGED <<token, issued>>
    BY DEF Authenticate
<1>2. Fits(n)
    BY Before
    DEF Authenticate, Fits, IsRequest, Steps, NewUnseen, OldLocked, RowsIssued, HeirsFound, Issuing
<1>3. ASSUME NEW q \in Requests \ {r} PROVE Apart(n, request[q])
    BY Before DEF Apart, Issuing, IsRequest
<1> QED
    BY <1>1, <1>2, <1>3, RequestStep

LEMMA RevokingStep ==
    ASSUME Inv, NEW r \in Requests, NEW from \in {"idle", "handler"}, NEW rows,
           rows \subseteq Active, Revoking(r, from, rows)
    PROVE  Inv'
<1> DEFINE n == [request[r] EXCEPT !.step = "write", !.rows = rows]
<1>1. request' = [request EXCEPT ![r] = n] /\ UNCHANGED <<token, issued>>
    BY DEF Revoking
<1>2. Fits(n)
    <2>1. IsRequest(n)
        BY Before DEF IsRequest, Steps, Active
    <2>2. NewUnseen(n)
        BY Before DEF Revoking, NewUnseen, Issuing, IsRequest
    <2>3. OldLocked(n) /\ RowsIssued(n) /\ HeirsFound(n)
        BY Before DEF Revoking, NewUnseen, Issuing, OldLocked, RowsIssued, HeirsFound, IsRequest, Active
    <2> QED
        BY <2>1, <2>2, <2>3 DEF Fits
<1>3. ASSUME NEW q \in Requests \ {r} PROVE Apart(n, request[q])
    BY Before DEF Apart, Issuing, IsRequest
<1> QED
    BY <1>1, <1>2, <1>3, RequestStep

LEMMA LockRowStep ==
    ASSUME Inv, NEW r \in Requests, NEW x \in Tokens, LockRow(r, x)
    PROVE  Inv'
<1> DEFINE n == [request[r] EXCEPT !.rows = request[r].rows \ {x},
                                   !.locks = request[r].locks \cup {x}]
<1>1. request' = [request EXCEPT ![r] = n] /\ UNCHANGED <<token, issued>>
    BY DEF LockRow
<1>2. /\ IsRequest(request[r]) /\ NewUnseen(request[r]) /\ OldLocked(request[r])
      /\ RowsIssued(request[r]) /\ HeirsFound(request[r])
    BY Before
<1>3. x \in request[r].rows /\ x \notin LockedByOthers(r)
    BY DEF LockRow
<1>4. Fits(n)
    <2>1. IsRequest(n)
        BY <1>2 DEF IsRequest
    <2>2. NewUnseen(n)
        BY <1>2 DEF NewUnseen, Issuing, IsRequest
    <2>3. OldLocked(n) /\ RowsIssued(n)
        BY <1>2, <1>3 DEF OldLocked, RowsIssued, IsRequest
    <2>4. HeirsFound(n)
        BY <1>2, <1>3 DEF HeirsFound, IsRequest
    <2> QED
        BY <2>1, <2>2, <2>3, <2>4 DEF Fits
<1>5. ASSUME NEW q \in Requests \ {r} PROVE Apart(n, request[q])
    BY <1>2, <1>3, Before DEF Apart, Issuing, IsRequest, LockedByOthers
<1> QED
    BY <1>1, <1>4, <1>5, RequestStep

\* A skipped row is not active, so HeirsFound does not miss it.
LEMMA SkipRowStep ==
    ASSUME Inv, NEW r \in Requests, NEW x \in Tokens, SkipRow(r, x)
    PROVE  Inv'
<1> DEFINE n == [request[r] EXCEPT !.rows = request[r].rows \ {x}]
<1>1. request' = [request EXCEPT ![r] = n] /\ UNCHANGED <<token, issued>>
    BY DEF SkipRow
<1>2. /\ IsRequest(request[r]) /\ NewUnseen(request[r]) /\ OldLocked(request[r])
      /\ RowsIssued(request[r]) /\ HeirsFound(request[r])
    BY Before
<1>3. x \notin Active
    BY DEF SkipRow
<1>4. Fits(n)
    <2>1. IsRequest(n)
        BY <1>2 DEF IsRequest
    <2>2. NewUnseen(n)
        BY <1>2 DEF NewUnseen, Issuing, IsRequest
    <2>3. OldLocked(n) /\ RowsIssued(n)
        BY <1>2 DEF OldLocked, RowsIssued, IsRequest
    <2>4. HeirsFound(n)
        BY <1>2, <1>3 DEF HeirsFound, IsRequest
    <2> QED
        BY <2>1, <2>2, <2>3, <2>4 DEF Fits
<1>5. ASSUME NEW q \in Requests \ {r} PROVE Apart(n, request[q])
    BY <1>2, Before DEF Apart, Issuing, IsRequest
<1> QED
    BY <1>1, <1>4, <1>5, RequestStep

LEMMA RollBackStep ==
    ASSUME Inv, NEW r \in Requests, RollBack(r)
    PROVE  Inv'
<1>1. \A q \in Requests \ {r} : Apart(Idle, request[q])
    BY Before, IdleFits
<1> QED
    BY <1>1, IdleFits, RequestStep DEF RollBack

-----------------------------------------------------------------------------
(* The commit.                                                             *)

\* What a commit does to the rows: it revokes the locked ones and activates
\* those of the new pair, none of which has been issued before.
LEMMA CommitRows ==
    ASSUME Inv, NEW r \in Requests, Commit(r)
    PROVE  /\ RowsTyped'
           /\ \A x \in Tokens : token[x] # "unissued" =>
                 /\ x[2] # request[r].new
                 /\ token'[x] = IF x \in request[r].locks THEN "revoked" ELSE token[x]
           /\ \A x \in Tokens : token[x] = "unissued" /\ x[2] # request[r].new =>
                 token'[x] = "unissued"
           /\ \A q \in Pairs \ {request[r].new} : issued'[q] = issued[q]
<1> DEFINE p == request[r].new
<1>1. IsRequest(request[r]) /\ NewUnseen(request[r]) /\ RowsIssued(request[r])
    BY Before
<1>2. /\ token' = [x \in Tokens |-> IF x[2] = p THEN "active"
                                    ELSE IF x \in request[r].locks THEN "revoked"
                                    ELSE token[x]]
      /\ issued' = [q \in Pairs |-> IF q = p
                                    THEN [at |-> request[r].at, from |-> request[r].old]
                                    ELSE issued[q]]
    BY DEF Commit
<1>3. RowsTyped
    BY DEF Inv
<1>4. RowsTyped'
    BY <1>1, <1>2, <1>3 DEF RowsTyped, IsRequest
<1>5. ASSUME NEW x \in Tokens, token[x] # "unissued" PROVE x[2] # p
    <2>1. /\ x[1] \in {"access", "refresh"} /\ x[2] \in Pairs
          /\ x = <<x[1], x[2]>>
        BY DEF Tokens
    <2>2. p \in Pairs => token[<<x[1], p>>] = "unissued"
        BY <1>1, <2>1, PairAssumption DEF NewUnseen
    <2> QED
        BY <1>5, <2>1, <2>2
<1>6. ASSUME NEW x \in Tokens, token[x] = "unissued" PROVE x \notin request[r].locks
    BY <1>1, <1>6 DEF RowsIssued
<1> QED
    BY <1>2, <1>4, <1>5, <1>6

\* Of the others' requests none exchanges the same token: its row is locked.
LEMMA CommitRequests ==
    ASSUME Inv, NEW r \in Requests, Commit(r)
    PROVE  RequestsFit'
<1> DEFINE p == request[r].new
<1>1. /\ request' = [request EXCEPT ![r] = Idle]
      /\ request[r].step \in {"update", "write"}
      /\ p \in Pairs => issued'[p] = [at |-> request[r].at, from |-> request[r].old]
    BY DEF Commit
<1>2. IsRequest(request[r]) /\ NewUnseen(request[r]) /\ OldLocked(request[r])
    BY Before
<1>3. /\ request'[r] = Idle
      /\ \A q \in Requests \ {r} : request'[q] = request[q]
      /\ request' \in [Requests -> [step : Steps, at : Addresses \cup {NoAddress},
                                    old : Pairs \cup {NoPair}, new : Pairs \cup {NoPair},
                                    rows : SUBSET Tokens, locks : SUBSET Tokens]]
    BY <1>1, IdleFits DEF Inv, RequestsFit, Fits, IsRequest
<1>4. Fits(request[r])'
    BY <1>3, PairAssumption
    DEF Fits, Idle, IsRequest, Steps, NewUnseen, OldLocked, RowsIssued, HeirsFound, Issuing
<1>5. ASSUME NEW q \in Requests \ {r} PROVE Fits(request[q])'
    <2> DEFINE n == request[q]
    <2>1. n' = n
        BY <1>3
    <2>2. /\ IsRequest(n) /\ NewUnseen(n) /\ OldLocked(n) /\ RowsIssued(n) /\ HeirsFound(n)
          /\ Apart(request[r], n)
        BY Before
    <2>3. IsRequest(n)'
        BY <2>1, <2>2 DEF IsRequest
    <2>4. NewUnseen(n)'
        <3>1. CASE Issuing(n)
            <4>1. n.new \in Pairs /\ n.new # p
                BY <1>1, <1>2, <2>2, <3>1, PairAssumption DEF NewUnseen, Apart, Issuing
            <4>2. \A k \in {"access", "refresh"} : <<k, n.new>> \in Tokens /\ token'[<<k, n.new>>] = "unissued"
                BY <2>2, <3>1, <4>1, CommitRows DEF NewUnseen, Tokens
            <4> QED
                BY <2>1, <2>2, <3>1, <4>2 DEF NewUnseen, Issuing
        <3>2. CASE ~Issuing(n)
            BY <2>1, <2>2, <3>2 DEF NewUnseen, Issuing
        <3> QED
            BY <3>1, <3>2
    <2>5. OldLocked(n)'
        <3>1. n.old # NoPair => Refresh(n.old) \in Tokens
            BY <2>2 DEF IsRequest, Refresh, Tokens
        <3> QED
            BY <2>1, <2>2, <3>1, CommitRows DEF OldLocked, Refresh
    <2>6. RowsIssued(n)'
        BY <2>1, <2>2, CommitRows DEF RowsIssued, IsRequest
    <2>7. HeirsFound(n)'
        <3> SUFFICES ASSUME n.step = "update", n.old # NoPair, NEW x \in Tokens,
                            token'[x] = "active",
                            issued'[x[2]].from = n.old, issued'[x[2]].at = n.at
                     PROVE  x \in n.rows \cup n.locks
            BY <2>1 DEF HeirsFound, Active
        <3>1. x[2] \in Pairs
            BY DEF Tokens
        <3>2. x[2] # p
            <4> SUFFICES ASSUME x[2] = p PROVE FALSE
                OBVIOUS
            <4>1. request[r].old = n.old /\ request[r].step = "update"
                BY <1>1, <1>2, <3>1, PairAssumption DEF NewUnseen, Issuing
            <4>2. Refresh(n.old) \in request[r].locks /\ Refresh(n.old) \in n.locks
                BY <1>2, <2>2, <4>1 DEF OldLocked
            <4> QED
                BY <2>2, <4>2 DEF Apart
        <3>3. token[x] = "active" /\ issued'[x[2]] = issued[x[2]]
            BY <3>1, <3>2, CommitRows DEF Inv, RowsTyped
        <3> QED
            BY <2>2, <3>3 DEF HeirsFound, Active
    <2> QED
        BY <2>3, <2>4, <2>5, <2>6, <2>7 DEF Fits
<1>6. ASSUME NEW q \in Requests, NEW s \in Requests, q # s
      PROVE  Apart(request[q], request[s])'
    <2>1. Apart(request'[q], request'[s])
        BY <1>3, <1>6, Before, IdleFits
    <2> QED
        BY <2>1 DEF Apart, Issuing
<1>7. (\A q \in Requests : Fits(request[q]))'
    <2>1. ASSUME NEW q \in Requests PROVE Fits(request[q])'
        BY <1>4, <1>5
    <2> QED
        BY <2>1 DEF Fits, IsRequest, NewUnseen, OldLocked, RowsIssued, HeirsFound, Issuing, Active
<1>8. (\A q, s \in Requests : q # s => Apart(request[q], request[s]))'
    BY <1>6 DEF Apart, Issuing
<1> QED
    BY <1>3, <1>7, <1>8 DEF RequestsFit

LEMMA CommitStep ==
    ASSUME Inv, NEW r \in Requests, Commit(r)
    PROVE  Inv'
<1> DEFINE p == request[r].new
<1>1. /\ request[r].rows = {}
      /\ request[r].step \in {"update", "write"}
      /\ p \in Pairs => issued'[p] = [at |-> request[r].at, from |-> request[r].old]
    BY DEF Commit
<1>2. /\ IsRequest(request[r]) /\ NewUnseen(request[r]) /\ OldLocked(request[r])
      /\ HeirsFound(request[r])
    BY Before
<1>3. RowsTyped /\ ExchangedTokenIsRevoked /\ OneHeirPerAddress
    BY DEF Inv
<1>4. ExchangedTokenIsRevoked'
    <2> SUFFICES ASSUME NEW s \in Pairs, issued'[s].from # NoPair
                 PROVE  token'[Refresh(issued'[s].from)] = "revoked"
        BY DEF ExchangedTokenIsRevoked, Refresh
    <2>1. RowsTyped'
        BY CommitRows
    <2>2. Refresh(issued'[s].from) \in Tokens
        BY <2>1 DEF RowsTyped, Refresh, Tokens
    <2>3. CASE s = p
        <3>1. issued'[s].from = request[r].old /\ request[r].step = "update"
            BY <1>1, <1>2, <2>3, PairAssumption DEF NewUnseen, Issuing
        <3>2. /\ token[Refresh(request[r].old)] # "unissued"
              /\ Refresh(request[r].old) \in request[r].locks
            BY <1>2, <3>1 DEF OldLocked
        <3> QED
            BY <2>2, <3>1, <3>2, CommitRows
    <2>4. CASE s # p
        <3>1. issued'[s] = issued[s]
            BY <2>4, CommitRows
        <3>2. token[Refresh(issued[s].from)] = "revoked"
            BY <1>3, <3>1 DEF ExchangedTokenIsRevoked
        <3> QED
            BY <2>2, <3>1, <3>2, CommitRows
    <2> QED
        BY <2>3, <2>4
<1>5. OneHeirPerAddress'
    <2>1. ASSUME NEW s \in Pairs, NEW t \in Pairs, s # t,
                 issued'[s].from # NoPair, issued'[s].from = issued'[t].from,
                 issued'[s].at = issued'[t].at,
                 NEW x \in Tokens, token'[x] = "active", x[2] = s,
                 NEW y \in Tokens, token'[y] = "active", y[2] = t, t # p
          PROVE  FALSE
        <3>1. token[y] = "active" /\ y \notin request[r].locks /\ issued'[t] = issued[t]
            BY <2>1, CommitRows, <1>3 DEF RowsTyped
        <3>2. CASE s = p
            <4>1. /\ request[r].step = "update" /\ request[r].old # NoPair
                  /\ issued[t].from = request[r].old /\ issued[t].at = request[r].at
                BY <1>1, <1>2, <2>1, <3>1, <3>2, PairAssumption DEF NewUnseen, Issuing
            <4>2. y \in request[r].locks
                BY <1>1, <1>2, <2>1, <3>1, <4>1 DEF HeirsFound, Active
            <4> QED
                BY <3>1, <4>2
        <3>3. CASE s # p
            <4>1. token[x] = "active" /\ issued'[s] = issued[s]
                BY <2>1, <3>3, CommitRows, <1>3 DEF RowsTyped
            <4> QED
                BY <1>3, <2>1, <3>1, <4>1 DEF OneHeirPerAddress, Active
        <3> QED
            BY <3>2, <3>3
    <2>2. ASSUME NEW s \in Pairs, NEW t \in Pairs, s # t,
                 issued'[s].from # NoPair, issued'[s].from = issued'[t].from,
                 NEW x \in Tokens, token'[x] = "active", x[2] = s,
                 NEW y \in Tokens, token'[y] = "active", y[2] = t
          PROVE  issued'[s].at # issued'[t].at
        <3>1. CASE t # p
            BY <2>1, <2>2, <3>1
        <3>2. CASE s # p
            BY <2>1, <2>2, <3>2
        <3> QED
            BY <2>2, <3>1, <3>2
    <2> QED
        BY <2>2 DEF OneHeirPerAddress, Active
<1>6. RowsTyped' /\ RequestsFit'
    BY CommitRows, CommitRequests
<1> QED
    BY <1>4, <1>5, <1>6 DEF Inv

-----------------------------------------------------------------------------
LEMMA InvNext == Inv /\ [Next]_vars => Inv'
<1> SUFFICES ASSUME Inv, [Next]_vars PROVE Inv'
    OBVIOUS
<1>1. ASSUME NEW r \in Requests, Start(r) PROVE Inv'
    <2>1. ASSUME NEW a \in Addresses, NEW p \in Pairs, SignIn(r, a, p) PROVE Inv'
        BY <2>1, SignInStep
    <2>2. ASSUME NEW a \in Addresses, NEW q \in Pairs, NEW p \in Pairs, RefreshRead(r, a, q, p)
          PROVE  Inv'
        BY <2>2, RefreshReadStep
    <2>3. CASE Authenticate(r)
        BY <2>3, AuthenticateStep
    <2>4. CASE ResetPassword(r)
        BY <2>4, RevokingStep DEF ResetPassword
    <2> QED
        BY <1>1, <2>1, <2>2, <2>3, <2>4 DEF Start
<1>2. ASSUME NEW r \in Requests, Proceed(r) PROVE Inv'
    <2>1. CASE RefreshFlush(r)
        BY <2>1, RefreshFlushStep
    <2>2. CASE Scan(r)
        BY <2>2, ScanStep
    <2>3. ASSUME NEW a \in Addresses, Logout(r, a) PROVE Inv'
        <3>1. ActiveAt(a) \subseteq Active
            BY DEF ActiveAt, Active
        <3> QED
            BY <2>3, <3>1, RevokingStep DEF Logout
    <2>4. ASSUME NEW x \in Tokens, RevokeToken(r, x) PROVE Inv'
        <3>1. {x} \subseteq Active
            BY <2>4 DEF RevokeToken, Active
        <3> QED
            BY <2>4, <3>1, RevokingStep DEF RevokeToken
    <2>5. CASE RevokeAll(r)
        BY <2>5, RevokingStep DEF RevokeAll
    <2>6. ASSUME NEW x \in Tokens, LockRow(r, x) PROVE Inv'
        BY <2>6, LockRowStep
    <2>7. ASSUME NEW x \in Tokens, SkipRow(r, x) PROVE Inv'
        BY <2>7, SkipRowStep
    <2>8. CASE Commit(r)
        BY <2>8, CommitStep
    <2> QED
        BY <1>2, <2>1, <2>2, <2>3, <2>4, <2>5, <2>6, <2>7, <2>8 DEF Proceed
<1>3. ASSUME NEW r \in Requests, DeadlockVictim(r) \/ Abort(r) PROVE Inv'
    BY <1>3, RollBackStep DEF DeadlockVictim, Abort
<1>4. CASE UNCHANGED vars
    <2>1. RowsTyped' /\ ExchangedTokenIsRevoked' /\ OneHeirPerAddress'
        BY <1>4 DEF vars, Inv, RowsTyped, ExchangedTokenIsRevoked, OneHeirPerAddress, Active
    <2>2. RequestsFit'
        BY <1>4 DEF vars, Inv, RequestsFit, Fits, IsRequest, NewUnseen, OldLocked, RowsIssued,
                    HeirsFound, Active, Issuing, Apart
    <2> QED
        BY <2>1, <2>2 DEF Inv
<1> QED
    BY <1>1, <1>2, <1>3, <1>4 DEF Next

LEMMA InvAlways == Spec => []Inv
<1>1. Init => Inv
    BY InvInit
<1>2. Inv /\ [Next]_vars => Inv'
    BY InvNext
<1> QED
    BY <1>1, <1>2, PTL DEF Spec

\* Every tracking row and every request keeps its type, and no two requests
\* issue the same pair.
THEOREM TypeCorrect == Spec => []TypeOK
<1>1. Inv => TypeOK
    BY InvTyped
<1> QED
    BY <1>1, InvAlways, PTL

\* A refresh token that has been exchanged is revoked and stays revoked, whatever
\* other requests do to the same rows meanwhile.
THEOREM ExchangedTokensStayRevoked == Spec => []ExchangedTokenIsRevoked
<1>1. Inv => ExchangedTokenIsRevoked
    BY DEF Inv
<1> QED
    BY <1>1, InvAlways, PTL

\* Of the pairs that one refresh token was exchanged for at one address only one
\* is alive, although the read of that token is not locked.
THEOREM OneHeirSurvives == Spec => []OneHeirPerAddress
<1>1. Inv => OneHeirPerAddress
    BY DEF Inv
<1> QED
    BY <1>1, InvAlways, PTL
=============================================================================
