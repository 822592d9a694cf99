------------------------------ MODULE Incidents ------------------------------
(***************************************************************************)
(* Security incidents: a request that fails to sign in, signs in, hits the *)
(* rate limit, fails with a 5xx, exchanges tokens or changes a role writes *)
(* a log entry, looks at how often that has happened, and adds to the      *)
(* active incident of that kind or opens one, all in one transaction.      *)
(* Superusers review incidents.  Old log entries are deleted when the      *)
(* application starts.                                                     *)
(*                                                                         *)
(* One fingerprint, of one kind: incidents with different ones never meet. *)
(* For sign-ins the rows that are counted are LoginAttempts, which the     *)
(* handler has committed before; for the others they are the log entries   *)
(* themselves, so that a request does not see those of requests in         *)
(* progress.                                                               *)
(***************************************************************************)
EXTENDS Naturals, FiniteSets

CONSTANTS
    Signals,        \* requests that may be in progress together
    Entries,        \* primary keys of log entries
    Cases,          \* primary keys of incidents
    Threshold       \* of the signal, e.g. FAILED_LOGIN_BURST_THRESHOLD

ASSUME ThresholdAssumption == Threshold \in Nat \ {0}
ASSUME CaseAssumption == "none" \notin Cases

Kinds == {"failed_login", "new_ip_login", "token_churn", "rate_limit_spike", "error_spike",
          "admin_change"}

VARIABLES
    kind,           \* what the incidents are about
    log,            \* log[e]: "absent", "recent" (in the window), "past", "stale"
                    \* (older than LOG_RETENTION_DAYS) or "deleted"
    incident,       \* incident[i]: its row
    signal,         \* signal[s]: what s has written and not yet committed
    noticed,        \* entries whose signal has been added to an incident
    crossed,        \* two signals have been in progress together
    cut,            \* a signal has been cut short after its attempt was committed
    reopened        \* an incident has been acknowledged after it was resolved

incidentVars == <<kind, log, incident, signal, noticed, crossed, cut, reopened>>

NoCase == [status |-> "absent", count |-> 0, about |-> {}]

NoSignal == [step |-> "idle"]

Reviewed == {"acknowledged", "resolved"}
ActiveStatuses == {"open", "acknowledged"}

\* The active incidents as committed; of several the query returns any.
ActiveCases == {i \in Cases : incident[i].status \in ActiveStatuses}

\* Of the failed sign-ins, and of all sign-ins from the address.
AttemptKinds == {"failed_login", "new_ip_login"}

Taken == {signal[s].entry : s \in {x \in Signals : signal[x].step # "idle"}}

Recent == {e \in Entries : log[e] = "recent"}
Logged == {e \in Entries : log[e] # "absent"}

CountInWindow == Cardinality(Recent)
CountEver == Cardinality(Logged)

-----------------------------------------------------------------------------
(* When an incident is due, in view of the rows there are.                 *)

\* Mutant: from one above the threshold on.
AboveThreshold == CountInWindow > Threshold

FailedLoginBurst == CountInWindow >= Threshold

\* The user has signed in from elsewhere before, and now for the first time from here.
NewIpLogin == CountEver = 1

\* The three that count log entries see their own, which is flushed.
TokenChurn == CountInWindow + 1 >= Threshold
RateLimitSpike == CountInWindow + 1 >= Threshold
ErrorSpike == CountInWindow + 1 >= Threshold

Due ==
    CASE kind = "failed_login"     -> FailedLoginBurst
      [] kind = "new_ip_login"     -> NewIpLogin
      [] kind = "token_churn"      -> TokenChurn
      [] kind = "rate_limit_spike" -> RateLimitSpike
      [] kind = "error_spike"      -> ErrorSpike
      [] kind = "admin_change"     -> TRUE

-----------------------------------------------------------------------------
\* create_log_entry, with the flush that gives it its id; the commit of the attempt
\* comes before it.
WriteEntry(s) ==
    /\ signal[s] = NoSignal
    /\ \E e \in Entries :
        /\ log[e] = "absent" /\ e \notin Taken
        /\ signal' = [signal EXCEPT ![s] = [step |-> "count", entry |-> e]]
        /\ log' = IF kind \in AttemptKinds THEN [log EXCEPT ![e] = "recent"] ELSE log
    /\ crossed' = (crossed \/ \E x \in Signals : signal[x] # NoSignal)
    /\ UNCHANGED <<kind, incident, noticed, cut, reopened>>

\* evaluate_failed_login_burst and the others.
Count(s) ==
    /\ signal[s].step = "count"
    /\ signal' = [signal EXCEPT ![s] = [step |-> IF Due THEN "match" ELSE "commit",
                                        entry |-> @.entry, case |-> "none", count |-> 0]]
    /\ UNCHANGED <<kind, log, incident, noticed, crossed, cut, reopened>>

Matches(s, i, count) ==
    signal' = [signal EXCEPT ![s] = [step |-> "commit", entry |-> @.entry,
                                     case |-> i, count |-> count + 1]]

\* Mutant: only what is open is added to, what is acknowledged is not.
MatchOpenIncident(s) ==
    /\ signal[s].step = "match"
    /\ \/ \E i \in ActiveCases : incident[i].status = "open" /\ Matches(s, i, incident[i].count)
       \/ /\ \A i \in ActiveCases : incident[i].status # "open"
          /\ \E i \in Cases : /\ incident[i] = NoCase
                              /\ \A x \in Signals : signal[x].step = "commit" => signal[x].case # i
                              /\ Matches(s, i, 0)
    /\ UNCHANGED <<kind, log, incident, noticed, crossed, cut, reopened>>

\* create_or_update_incident: += on the row as it was read.
MatchIncident(s) ==
    /\ signal[s].step = "match"
    /\ \/ \E i \in ActiveCases : Matches(s, i, incident[i].count)
       \/ /\ ActiveCases = {}
          /\ \E i \in Cases : /\ incident[i] = NoCase
                              /\ \A x \in Signals : signal[x].step = "commit" => signal[x].case # i
                              /\ Matches(s, i, 0)
    /\ UNCHANGED <<kind, log, incident, noticed, crossed, cut, reopened>>

\* Mutant: an incident that is found is counted from one again.
CommitFirst(s) ==
    /\ signal[s].step = "commit"
    /\ log' = IF kind \in AttemptKinds THEN log ELSE [log EXCEPT ![signal[s].entry] = "recent"]
    /\ LET i == signal[s].case IN
       IF i = "none" THEN UNCHANGED <<incident, noticed>>
       ELSE /\ incident' = [incident EXCEPT ![i] =
                   [status |-> IF @.status = "absent" THEN "open" ELSE @.status,
                    count |-> 1, about |-> {signal[s].entry}]]
            /\ noticed' = noticed \cup {signal[s].entry}
    /\ signal' = [signal EXCEPT ![s] = NoSignal]
    /\ UNCHANGED <<kind, crossed, cut, reopened>>

\* The status is a column of its own, which only a review writes: what is added to an
\* incident that has been resolved meanwhile stays resolved with it.
CommitSignal(s) ==
    /\ signal[s].step = "commit"
    /\ log' = IF kind \in AttemptKinds THEN log ELSE [log EXCEPT ![signal[s].entry] = "recent"]
    /\ LET i == signal[s].case IN
       IF i = "none" THEN UNCHANGED <<incident, noticed>>
       ELSE /\ incident' = [incident EXCEPT ![i] =
                   [status |-> IF @.status = "absent" THEN "open" ELSE @.status,
                    count |-> signal[s].count, about |-> {signal[s].entry}]]
            /\ noticed' = noticed \cup {signal[s].entry}
    /\ signal' = [signal EXCEPT ![s] = NoSignal]
    /\ UNCHANGED <<kind, crossed, cut, reopened>>

\* An exception, or the end of the process: the transaction is rolled back.
DropSignal(s) ==
    /\ signal[s] # NoSignal
    /\ signal' = [signal EXCEPT ![s] = NoSignal]
    /\ cut' = (cut \/ kind \in AttemptKinds)
    /\ UNCHANGED <<kind, log, incident, noticed, crossed, reopened>>

\* PATCH /incidents/{id}, which accepts either status whatever the present one is.
Review(i, status) ==
    /\ incident[i].status # "absent"
    /\ incident' = [incident EXCEPT ![i].status = status]
    /\ reopened' = (reopened \/ (incident[i].status = "resolved" /\ status # "resolved"))
    /\ UNCHANGED <<kind, log, signal, noticed, crossed, cut>>

\* The window moves on; LOG_RETENTION_DAYS later the entry is stale.
Recede(e) ==
    /\ log[e] \in {"recent", "past"}
    /\ log' = [log EXCEPT ![e] = IF @ = "recent" THEN "past" ELSE "stale"]
    /\ UNCHANGED <<kind, incident, signal, noticed, crossed, cut, reopened>>

Stale == {e \in Entries : log[e] = "stale"}

\* prune_old_log_entries in a start of the application: an entry that an incident
\* refers to cannot be deleted, and the start fails.
Prune ==
    /\ Stale # {}
    /\ \A i \in Cases : incident[i].about \cap Stale = {}
    /\ log' = [e \in Entries |-> IF e \in Stale THEN "deleted" ELSE log[e]]
    /\ UNCHANGED <<kind, incident, signal, noticed, crossed, cut, reopened>>

IncidentInit ==
    /\ kind \in Kinds
    /\ log = [e \in Entries |-> "absent"]
    /\ incident = [i \in Cases |-> NoCase]
    /\ signal = [s \in Signals |-> NoSignal]
    /\ noticed = {}
    /\ crossed = FALSE
    /\ cut = FALSE
    /\ reopened = FALSE

IncidentNext ==
    \/ \E s \in Signals :
          WriteEntry(s) \/ Count(s) \/ MatchIncident(s) \/ CommitSignal(s) \/ DropSignal(s)
    \/ \E i \in Cases, status \in Reviewed : Review(i, status)
    \/ \E e \in Entries : Recede(e)
    \/ Prune

IncidentSpec == IncidentInit /\ [][IncidentNext]_incidentVars

-----------------------------------------------------------------------------
(* Properties.                                                             *)

\* Signals of one kind are gathered in one active incident, opened, acknowledged and
\* resolved as it may be, unless two of them have crossed (no constraint forbids a
\* second one) or a resolved one has been acknowledged again.
OneActiveIncident == ~crossed /\ ~reopened => Cardinality(ActiveCases) <= 1

\* The sum of the counts.
Total == Cardinality(UNION {{i} \X (1..incident[i].count) : i \in Cases})

\* occurrence_count says how many signals there were, none forgotten in a handover from
\* a resolved incident to a new one, unless two have crossed (the later one overwrites
\* the count).
OccurrencesAddUp == ~crossed => Total = Cardinality(noticed)

\* When a window has come to hold as many rows as the threshold says, one of them has
\* been noticed: for failed sign-ins even if requests have crossed, for their attempts
\* are committed before they count; for what counts log entries unless two have
\* crossed, each counting what the other has committed only.  So has a sign-in from an
\* address the user has not been seen at, unless it crosses another one.
BurstsAreNoticed ==
    /\ ~cut
    /\ crossed => kind = "failed_login"
    /\ \A s \in Signals : signal[s] = NoSignal
    /\ IF kind = "new_ip_login" THEN CountEver > 0 ELSE CountInWindow >= Threshold
    => \E e \in noticed : kind = "new_ip_login" \/ log[e] = "recent"
=============================================================================
