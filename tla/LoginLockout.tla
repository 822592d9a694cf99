---------------------------- MODULE LoginLockout ----------------------------
(***************************************************************************)
(* Failed sign-ins of one account and the lockout they lead to: a request  *)
(* counts the failures in the window that ends now, looks at the password  *)
(* or the one-time code, and records its own failure in a later commit.  A *)
(* statement that raises after that commit ends in the handler of errors,  *)
(* which records one more failure for the same request.                    *)
(*                                                                         *)
(* Time is kept as the age of each failure, in units of which a lockout    *)
(* lasts Duration; what is older than that is never looked at again.       *)
(***************************************************************************)
EXTENDS Integers, FiniteSets, FiniteSetsExt

CONSTANTS
    Attempts,       \* sign-in requests that may be in progress together
    MaxAttempts,    \* MAX_LOGIN_ATTEMPTS
    Duration        \* ACCOUNT_LOCKOUT_DURATION_MINUTES

ASSUME LockoutAssumption == MaxAttempts \in Nat \ {0} /\ Duration \in Nat \ {0}
ASSUME AttemptsAssumption == IsFiniteSet(Attempts)

VARIABLES
    failures,       \* failures[a]: the recorded failures of age a
    attempt,        \* attempt[r]: what r found out and has not recorded yet
    ticket,         \* somebody holds a temporary token: the password was right
    promise         \* for how long the last refusal said to wait, -1 if it is void

lockoutVars == <<failures, attempt, ticket, promise>>

Ages == 0..Duration

\* The failures of ages A, those of one age numbered.
FailuresOf(A) == UNION {{a} \X (1..failures[a]) : a \in A}

\* The failures with timestamp >= window_start.
Counted == Cardinality(FailuresOf(Ages))

Newest == Min({a \in Ages : failures[a] > 0})

\* Mutant: the account is locked for as long as there are enough failures.
Enough == Counted >= MaxAttempts

\* Enough failures, the last of which is less than the duration ago: int() of the
\* remaining seconds is above zero.
LockedOut ==
    /\ Counted >= MaxAttempts
    /\ Duration - Newest > 0

LockoutInit ==
    /\ failures = [a \in Ages |-> 0]
    /\ attempt = [r \in Attempts |-> "idle"]
    /\ ticket = FALSE
    /\ promise = -1

\* Mutant: what is refused is recorded as a failure, too.
RefuseAndRecord ==
    /\ LockedOut
    /\ failures' = [failures EXCEPT ![0] = IF @ < MaxAttempts THEN @ + 1 ELSE @]
    /\ promise' = Duration
    /\ UNCHANGED <<attempt, ticket>>

\* 429, before the password is looked at: nothing is recorded.
Refuse ==
    /\ LockedOut
    /\ promise' = Duration - Newest
    /\ UNCHANGED <<failures, attempt, ticket>>

\* Mutant: the failures are not counted.
TryAnyPassword(r) ==
    /\ attempt[r] = "idle"
    /\ \E found \in {"wrong", "right", "code", "error"} :
          attempt' = [attempt EXCEPT ![r] = found]
    /\ UNCHANGED <<failures, ticket, promise>>

\* POST /login/: the password is wrong, or the user is inactive; or it is right; or it
\* is right and a one-time code is wanted; or a statement raises.
TryPassword(r) ==
    /\ attempt[r] = "idle"
    /\ ~LockedOut
    /\ \E found \in {"wrong", "right", "code", "error"} :
          attempt' = [attempt EXCEPT ![r] = found]
    /\ UNCHANGED <<failures, ticket, promise>>

\* The answer with a temporary token, which nothing records.
AskForCode(r) ==
    /\ attempt[r] = "code"
    /\ attempt' = [attempt EXCEPT ![r] = "idle"]
    /\ ticket' = TRUE
    /\ UNCHANGED <<failures, promise>>

\* POST /otp/validate/, with the same count.
TryCode(r) ==
    /\ ticket
    /\ attempt[r] = "idle"
    /\ ~LockedOut
    /\ \E found \in {"wrong", "proved", "error"} : attempt' = [attempt EXCEPT ![r] = found]
    /\ UNCHANGED <<failures, ticket, promise>>

\* The commit of a failed attempt.  What follows it, the log of the event and its
\* commit, may raise; what raises in the handler of errors is not handled again.
RecordFailure(r) ==
    /\ attempt[r] \in {"wrong", "error"}
    /\ \/ attempt' = [attempt EXCEPT ![r] = "idle"]
       \/ attempt[r] = "wrong" /\ attempt' = [attempt EXCEPT ![r] = "error"]
    /\ failures' = [failures EXCEPT ![0] = @ + 1]
    /\ promise' = -1
    /\ UNCHANGED ticket

\* The commit of a successful one leaves the failures alone.  The second commit, of
\* the log, may raise: then the request that succeeded records a failure, too.
RecordSuccess(r) ==
    /\ attempt[r] = "right"
    /\ \E next \in {"idle", "error"} : attempt' = [attempt EXCEPT ![r] = next]
    /\ UNCHANGED <<failures, ticket, promise>>

\* The same after a code: the temporary token is not used up.
RecordCode(r) ==
    /\ attempt[r] = "proved"
    /\ \E next \in {"idle", "error"} : attempt' = [attempt EXCEPT ![r] = next]
    /\ UNCHANGED <<failures, ticket, promise>>

\* The process dies, or the commit fails.
GiveUp(r) ==
    /\ attempt[r] # "idle"
    /\ attempt' = [attempt EXCEPT ![r] = "idle"]
    /\ UNCHANGED <<failures, ticket, promise>>

TicketExpires ==
    /\ ticket
    /\ ticket' = FALSE
    /\ UNCHANGED <<failures, attempt, promise>>

\* Time passes.
GrowOlder ==
    /\ failures' = [a \in Ages |-> IF a = 0 THEN 0 ELSE failures[a - 1]]
    /\ promise' = IF promise > 0 THEN promise - 1 ELSE promise
    /\ UNCHANGED <<attempt, ticket>>

LockoutNext ==
    \/ \E r \in Attempts :
          \/ TryPassword(r) \/ AskForCode(r) \/ TryCode(r)
          \/ RecordFailure(r) \/ RecordSuccess(r) \/ RecordCode(r) \/ GiveUp(r)
    \/ Refuse
    \/ TicketExpires
    \/ GrowOlder

LockoutSpec == LockoutInit /\ [][LockoutNext]_lockoutVars /\ WF_lockoutVars(GrowOlder)

-----------------------------------------------------------------------------
(* Properties.                                                             *)

Recent == Cardinality(FailuresOf(0..(Duration - 1)))

\* Requests that counted before the others recorded get through, but never more
\* than there are requests in progress, and each records two failures at most, its
\* own and that of an error after it: within a lockout's duration an account fails at
\* most that many times beyond the limit.
FewFailuresPerWindow == Recent <= MaxAttempts - 1 + 2 * Cardinality(Attempts)

\* Who waits for as long as the refusal says finds the account open, unless another
\* request has failed meanwhile.
PromiseKept == promise = 0 => ~LockedOut

\* Every lockout ends: while it lasts nothing is recorded that would prolong it.
LockoutEnds == LockedOut ~> ~LockedOut
=============================================================================
