--------------------------- MODULE NoticesProofs ----------------------------
(**************************************************************************)
(* Proofs about what is sent and what is logged: the deliveries of the    *)
(* communications providers, the incidents of the security log and the    *)
(* notification devices. Each part is about one module, and uses nothing  *)
(* of the others.                                                         *)
(**************************************************************************)
EXTENDS Deliveries, Incidents, Notifications, FiniteSetTheorems, TLAPS

(**************************************************************************)
(* Proofs about Deliveries, for any channels, providers and faults.       *)
(*                                                                        *)
(* A task that has run through its chain has called every configured      *)
(* provider of the channel: whom it has called and who is left in the     *)
(* chain are together all of them. A copy has been sent for every answer  *)
(* that was lost, and one more when the task has succeeded. A mail that   *)
(* is printed or cannot be rendered has called and reached nobody.        *)
(**************************************************************************)

TaskStates == {"none", "queued", "running", "lost", "success", "failure", "printed",
               "unrendered"}

\* Every variable has its type.
DeliveryTypeOK ==
    /\ task \in [Channels -> TaskStates]
    /\ chain \in [Channels -> Seq(STRING)]
    /\ copies \in [Channels -> Nat]
    /\ unheard \in [Channels -> Nat]
    /\ called = [c \in Channels |-> called[c]]

\* Only the copy that ends the task has been confirmed.
ConfirmedOnce ==
    \A c \in Channels :
        copies[c] = IF task[c] = "success" THEN unheard[c] + 1 ELSE unheard[c]

Wanted(c) == ToSet(Chain[c]) \cap configured

\* Who has not been called is still in the chain.
NobodyLeftOut ==
    \A c \in Channels :
        /\ task[c] \in {"none", "queued"} => called[c] = {}
        /\ task[c] = "running" =>
              called[c] \cup (ToSet(chain[c]) \cap configured) = Wanted(c)
        /\ task[c] = "failure" => called[c] = Wanted(c)

\* Before a provider is called, and when none will be, nobody has got anything.
NobodyReached ==
    \A c \in Channels :
        /\ task[c] \in {"none", "queued", "printed", "unrendered"} =>
              copies[c] = 0 /\ called[c] = {}
        /\ task[c] \in {"printed", "unrendered"} => c \in Mails
        /\ task[c] = "printed" => printing

DeliveryInv ==
    /\ DeliveryTypeOK
    /\ NobodyReached
    /\ ConfirmedOnce
    /\ NobodyLeftOut

-----------------------------------------------------------------------------

LEMMA ChainFacts ==
    ASSUME NEW s \in Seq(STRING), s # <<>>
    PROVE  /\ Tail(s) \in Seq(STRING)
           /\ ToSet(s) = {Head(s)} \cup ToSet(Tail(s))
<1>1. /\ Len(s) \in Nat /\ Len(s) # 0 /\ DOMAIN s = 1..Len(s)
      /\ Head(s) = s[1]
      /\ Tail(s) \in Seq(STRING) /\ Len(Tail(s)) = Len(s) - 1
      /\ \A i \in 1..Len(Tail(s)) : Tail(s)[i] = s[i + 1]
      OBVIOUS
<1>2. DOMAIN Tail(s) = 1..Len(Tail(s))
      BY <1>1
<1>3. ASSUME NEW i \in 1..Len(s)
      PROVE  s[i] = Head(s) \/ \E j \in 1..Len(Tail(s)) : s[i] = Tail(s)[j]
  <2>1. CASE i = 1
        BY <1>1, <2>1
  <2>2. CASE i # 1
    <3>1. i - 1 \in 1..Len(Tail(s)) /\ Tail(s)[i - 1] = s[i]
          BY <1>1, <2>2
    <3>2. QED BY <3>1
  <2>3. QED BY <2>1, <2>2
<1>4. ASSUME NEW j \in 1..Len(Tail(s))
      PROVE  \E i \in 1..Len(s) : Tail(s)[j] = s[i]
  <2>1. j + 1 \in 1..Len(s) /\ Tail(s)[j] = s[j + 1]
        BY <1>1
  <2>2. QED BY <2>1
<1>5. 1 \in 1..Len(s)
      BY <1>1
<1>6. ToSet(s) = {s[i] : i \in 1..Len(s)} /\ ToSet(Tail(s)) = {Tail(s)[j] : j \in 1..Len(Tail(s))}
      BY <1>1, <1>2 DEF ToSet
<1>7. QED BY <1>1, <1>3, <1>4, <1>5, <1>6

LEMMA DeliveryInitInv == DeliveryInit => DeliveryInv
<1> SUFFICES ASSUME DeliveryInit PROVE DeliveryInv
    OBVIOUS
<1>1. chain \in [Channels -> Seq(STRING)]
  <2>1. <<>> \in Seq(STRING)
        OBVIOUS
  <2>2. QED BY <2>1 DEF DeliveryInit
<1>2. DeliveryTypeOK
      BY <1>1 DEF DeliveryInit, DeliveryTypeOK, TaskStates
<1>3. ConfirmedOnce /\ NobodyLeftOut /\ NobodyReached
      BY DEF DeliveryInit, ConfirmedOnce, NobodyLeftOut, NobodyReached
<1>4. QED BY <1>2, <1>3 DEF DeliveryInv

\* What a step does to one channel, and what it has to keep there.
ChannelInv(c, t, s, n, u, k) ==
    /\ t \in TaskStates
    /\ s \in Seq(STRING) /\ n \in Nat /\ u \in Nat
    /\ n = IF t = "success" THEN u + 1 ELSE u
    /\ t \in {"none", "queued", "printed", "unrendered"} => n = 0 /\ k = {}
    /\ t \in {"printed", "unrendered"} => c \in Mails
    /\ t = "printed" => printing
    /\ t = "running" => k \cup (ToSet(s) \cap configured) = Wanted(c)
    /\ t = "failure" => k = Wanted(c)

ChannelHolds(c) == ChannelInv(c, task[c], chain[c], copies[c], unheard[c], called[c])

\* A step of channel c.
OnlyChannel(c) ==
    /\ configured' = configured /\ printing' = printing
    /\ task' = [task EXCEPT ![c] = task'[c]]
    /\ chain' = [chain EXCEPT ![c] = chain'[c]]
    /\ copies' = [copies EXCEPT ![c] = copies'[c]]
    /\ unheard' = [unheard EXCEPT ![c] = unheard'[c]]
    /\ called' = [called EXCEPT ![c] = called'[c]]

LEMMA HoldsOfChannel ==
    ASSUME DeliveryInv, NEW c \in Channels
    PROVE  ChannelHolds(c)
BY DEF DeliveryInv, DeliveryTypeOK, ConfirmedOnce, NobodyLeftOut, NobodyReached,
       ChannelHolds, ChannelInv

LEMMA ChannelStepKeepsInv ==
    ASSUME DeliveryInv, NEW c \in Channels, OnlyChannel(c), ChannelHolds(c)'
    PROVE  DeliveryInv'
<1> USE DEF OnlyChannel, ChannelHolds
<1>1. DeliveryTypeOK'
      BY DEF DeliveryInv, DeliveryTypeOK, ChannelInv
<1>2. \A x \in Channels \ {c} : /\ task'[x] = task[x] /\ chain'[x] = chain[x]
                                /\ copies'[x] = copies[x] /\ unheard'[x] = unheard[x]
                                /\ called'[x] = called[x]
      BY DEF DeliveryInv, DeliveryTypeOK
<1>3. ConfirmedOnce'
      BY <1>2 DEF DeliveryInv, ConfirmedOnce, ChannelInv
<1>4. NobodyLeftOut'
      BY <1>2 DEF DeliveryInv, NobodyLeftOut, ChannelInv, Wanted
<1>5. NobodyReached'
      BY <1>2 DEF DeliveryInv, NobodyReached, ChannelInv
<1>6. QED BY <1>1, <1>3, <1>4, <1>5 DEF DeliveryInv

\* The request, and the begin and the end of a task that call nobody.
LEMMA QuietStepKeepsDelivery ==
    ASSUME DeliveryInv, NEW c \in Channels,
           \/ Enqueue(c) \/ PrintOnly(c) \/ CannotRender(c)
           \/ Start(c) \/ WorkerDies(c)
    PROVE  DeliveryInv'
<1>1. DeliveryTypeOK /\ ChannelHolds(c)
      BY HoldsOfChannel DEF DeliveryInv
<1>2. OnlyChannel(c)
      BY <1>1 DEF OnlyChannel, DeliveryTypeOK, Enqueue, PrintOnly, CannotRender, Start,
                  WorkerDies, Returns
<1>3. Chain[c] \in Seq(STRING) /\ <<>> \in Seq(STRING)
      BY ChainAssumption
<1>4. ChannelHolds(c)'
  <2>1. CASE Enqueue(c)
        BY <1>1, <1>3, <2>1 DEF ChannelHolds, ChannelInv, DeliveryTypeOK, TaskStates, Enqueue,
                                Wanted
  <2>2. CASE PrintOnly(c) \/ CannotRender(c) \/ WorkerDies(c)
        BY <1>1, <1>3, <2>2 DEF ChannelHolds, ChannelInv, DeliveryTypeOK, TaskStates, PrintOnly,
                                CannotRender, WorkerDies, Returns, Wanted
  <2>3. CASE Start(c)
        BY <1>1, <1>3, <2>3 DEF ChannelHolds, ChannelInv, DeliveryTypeOK, TaskStates, Start,
                                Wanted
  <2>4. QED BY <2>1, <2>2, <2>3
<1>5. QED BY <1>2, <1>4, ChannelStepKeepsInv

\* A provider that is not configured is not wanted.
LEMMA PassesOverKeepsDelivery ==
    ASSUME DeliveryInv, NEW c \in Channels, PassesOver(c)
    PROVE  DeliveryInv'
<1>1. DeliveryTypeOK /\ ChannelHolds(c)
      BY HoldsOfChannel DEF DeliveryInv
<1>2. OnlyChannel(c)
      BY <1>1 DEF OnlyChannel, DeliveryTypeOK, PassesOver
<1>3. /\ Tail(chain[c]) \in Seq(STRING)
      /\ ToSet(chain[c]) = {Head(chain[c])} \cup ToSet(Tail(chain[c]))
      BY <1>1, ChainFacts DEF DeliveryTypeOK, PassesOver
<1>4. ToSet(chain[c]) \cap configured = ToSet(Tail(chain[c])) \cap configured
      BY <1>3 DEF PassesOver
<1>5. /\ task'[c] = task[c] /\ chain'[c] = Tail(chain[c]) /\ copies'[c] = copies[c]
      /\ unheard'[c] = unheard[c] /\ called'[c] = called[c] /\ configured' = configured
      /\ printing' = printing
      /\ task[c] = "running"
      BY <1>1 DEF DeliveryTypeOK, PassesOver
<1>6. ChannelHolds(c)'
      BY <1>1, <1>3, <1>4, <1>5 DEF ChannelHolds, ChannelInv, Wanted
<1>7. QED BY <1>2, <1>6, ChannelStepKeepsInv

\* A provider is called: it has been tried when it is left behind.
LEMMA CallKeepsDelivery ==
    ASSUME DeliveryInv, NEW c \in Channels, Delivers(c) \/ Refuses(c) \/ NoAnswer(c)
    PROVE  DeliveryInv'
<1> DEFINE first == Head(chain[c])
           rest == Tail(chain[c])
<1>1. /\ DeliveryTypeOK /\ ChannelHolds(c) /\ configured' = configured
      /\ printing' = printing
      /\ task[c] = "running" /\ chain[c] # <<>> /\ first \in configured
      /\ called' = [called EXCEPT ![c] = @ \cup {first}]
      BY HoldsOfChannel DEF DeliveryInv, Delivers, Refuses, NoAnswer, CallsFirst
<1>2. rest \in Seq(STRING) /\ ToSet(chain[c]) = {first} \cup ToSet(rest)
      BY <1>1, ChainFacts DEF DeliveryTypeOK
<1>3. /\ copies[c] \in Nat /\ unheard[c] \in Nat /\ copies[c] = unheard[c]
      /\ chain[c] \in Seq(STRING) /\ <<>> \in Seq(STRING)
      /\ called[c] \cup (ToSet(chain[c]) \cap configured) = Wanted(c)
      BY <1>1 DEF ChannelHolds, ChannelInv
<1> HIDE DEF first, rest
<1>4. called'[c] = called[c] \cup {first}
      BY <1>1 DEF DeliveryTypeOK
<1>5. called'[c] \cup (ToSet(chain[c]) \cap configured) = Wanted(c)
      BY <1>1, <1>2, <1>3, <1>4
<1>6. called'[c] \cup (ToSet(rest) \cap configured) = Wanted(c)
      BY <1>1, <1>2, <1>3, <1>4
<1>7. Wanted(c)' = Wanted(c)
      BY <1>1 DEF Wanted
<1>8. CASE Delivers(c)
  <2>1. /\ task' = [task EXCEPT ![c] = "success"] /\ chain' = [chain EXCEPT ![c] = <<>>]
        /\ copies' = [copies EXCEPT ![c] = @ + 1] /\ unheard' = unheard
        BY <1>8 DEF Delivers, Returns
  <2>2. OnlyChannel(c)
        BY <1>1, <2>1 DEF OnlyChannel, DeliveryTypeOK
  <2>3. ChannelHolds(c)'
        BY <1>1, <1>3, <2>1 DEF ChannelHolds, ChannelInv, DeliveryTypeOK, TaskStates
  <2>4. QED BY <2>2, <2>3, ChannelStepKeepsInv
<1>9. CASE Refuses(c)
  <2>1. /\ chain' = [chain EXCEPT ![c] = rest]
        /\ UNCHANGED <<task, copies, unheard>>
        BY <1>9 DEF Refuses, TriesNext, rest
  <2>2. OnlyChannel(c)
        BY <1>1, <2>1 DEF OnlyChannel, DeliveryTypeOK
  <2>3. ChannelHolds(c)'
        BY <1>1, <1>2, <1>3, <1>6, <1>7, <2>1 DEF ChannelHolds, ChannelInv, DeliveryTypeOK, TaskStates
  <2>4. QED BY <2>2, <2>3, ChannelStepKeepsInv
<1>10. CASE NoAnswer(c)
  <2>1. PICK sent \in 0..1 : /\ copies' = [copies EXCEPT ![c] = @ + sent]
                             /\ unheard' = [unheard EXCEPT ![c] = @ + sent]
        BY <1>10 DEF NoAnswer
  <2>2. task' = task /\ (chain' = chain \/ chain' = [chain EXCEPT ![c] = rest])
        BY <1>10 DEF NoAnswer, TriesNext, rest
  <2>3. OnlyChannel(c)
        BY <1>1, <2>1, <2>2 DEF OnlyChannel, DeliveryTypeOK
  <2>4. copies'[c] = unheard'[c] /\ copies'[c] \in Nat /\ unheard'[c] \in Nat
        BY <1>1, <1>3, <2>1 DEF DeliveryTypeOK
  <2>5. chain'[c] \in {chain[c], rest}
        BY <1>1, <2>2 DEF DeliveryTypeOK
  <2>6. ChannelHolds(c)'
        BY <1>1, <1>2, <1>3, <1>5, <1>6, <1>7, <2>2, <2>4, <2>5 DEF ChannelHolds, ChannelInv
  <2>7. QED BY <2>3, <2>6, ChannelStepKeepsInv
<1>11. QED BY <1>8, <1>9, <1>10

LEMMA ExhaustedKeepsDelivery ==
    ASSUME DeliveryInv, NEW c \in Channels, Exhausted(c)
    PROVE  DeliveryInv'
<1>1. /\ DeliveryTypeOK /\ ChannelHolds(c)
      /\ task[c] = "running" /\ chain[c] = <<>>
      /\ task' = [task EXCEPT ![c] = "failure"] /\ chain' = [chain EXCEPT ![c] = <<>>]
      /\ UNCHANGED <<configured, printing, copies, unheard, called>>
      BY HoldsOfChannel DEF DeliveryInv, Exhausted, Returns
<1>2. ToSet(chain[c]) = {} /\ <<>> \in Seq(STRING)
      BY <1>1 DEF ToSet
<1>3. OnlyChannel(c)
      BY <1>1 DEF OnlyChannel, DeliveryTypeOK
<1>4. ChannelHolds(c)'
      BY <1>1, <1>2 DEF ChannelHolds, ChannelInv, DeliveryTypeOK, TaskStates, Wanted
<1>5. QED BY <1>3, <1>4, ChannelStepKeepsInv

LEMMA DeliveryNextInv == DeliveryInv /\ [DeliveryNext]_deliveryVars => DeliveryInv'
<1> SUFFICES ASSUME DeliveryInv, [DeliveryNext]_deliveryVars
             PROVE  DeliveryInv'
    OBVIOUS
<1>1. CASE CreateNotification \/ HandedOver \/ UNCHANGED deliveryVars
      BY <1>1
      DEF CreateNotification, HandedOver, deliveryVars, DeliveryInv, DeliveryTypeOK,
          ConfirmedOnce, NobodyLeftOut, NobodyReached, Wanted
<1>2. QED BY <1>1, QuietStepKeepsDelivery, PassesOverKeepsDelivery, CallKeepsDelivery,
             ExhaustedKeepsDelivery DEF DeliveryNext

\* The copies a recipient gets are accounted for, however long the chains are and
\* however often their providers retry; only a mail that was printed is a success
\* without a copy.
THEOREM CopiesAreAccounted == DeliverySpec => []CopiesAccounted
<1>1. DeliveryInv => CopiesAccounted
      BY DEF DeliveryInv, DeliveryTypeOK, ConfirmedOnce, NobodyReached, CopiesAccounted,
             Succeeded, Failed
<1>2. QED BY <1>1, DeliveryInitInv, DeliveryNextInv, PTL DEF DeliverySpec

\* A task gives up only after every configured provider has been called, or before
\* any of them is when its mail cannot be rendered.
THEOREM TasksFailAfterAll == DeliverySpec => []FailsAfterAll
<1>1. DeliveryInv => FailsAfterAll
      BY DEF DeliveryInv, NobodyLeftOut, NobodyReached, Wanted, FailsAfterAll, Failed
<1>2. QED BY <1>1, DeliveryInitInv, DeliveryNextInv, PTL DEF DeliverySpec

(**************************************************************************)
(* Proofs about Incidents, for any number of requests, entries and        *)
(* incidents and any threshold.                                           *)
(*                                                                        *)
(* Of the entries in the window fewer than the threshold are left         *)
(* unnoticed, since each request looks at the window when its entry is in *)
(* it. A request that has matched an incident, and met no other request,  *)
(* holds the count of that incident plus one, and no other incident is    *)
(* active.                                                                *)
(**************************************************************************)

CaseRow == [status : {"absent", "open", "acknowledged", "resolved"}, count : Nat, about : SUBSET Entries]

Counting == [step : {"count"}, entry : Entries]
Matching == [step : {"match", "commit"}, entry : Entries, case : Cases \cup {"none"}, count : Nat]

Begun(s) == signal[s] # NoSignal

\* What s adds to, when it has matched.
Adds(s) == signal[s].step = "commit" /\ signal[s].case # "none"

\* Every variable has its type.  What has been committed to an absent incident is
\* nothing.
IncidentTypeOK ==
    /\ kind \in Kinds
    /\ log \in [Entries -> {"absent", "recent", "past", "stale", "deleted"}]
    /\ incident \in [Cases -> CaseRow]
    /\ \A i \in Cases : incident[i].status = "absent" => incident[i].count = 0
    /\ signal \in [Signals -> {NoSignal} \cup Counting \cup Matching]
    /\ noticed \subseteq Entries
    /\ crossed \in BOOLEAN /\ cut \in BOOLEAN /\ reopened \in BOOLEAN
    /\ IsFiniteSet(Logged) /\ IsFiniteSet(noticed)

\* Each signal has an entry of its own, which is nobody's yet.
EntriesAreOwn ==
    /\ \A s, x \in Signals : Begun(s) /\ Begun(x) /\ signal[s].entry = signal[x].entry => s = x
    /\ \A s \in Signals : Begun(s) => /\ signal[s].entry \notin noticed
                                     /\ kind \in AttemptKinds <=> signal[s].entry \in Logged
    /\ noticed \subseteq Logged
    /\ ~crossed => \A s, x \in Signals : Begun(s) /\ Begun(x) => s = x

\* Which incidents are active, with what is about to be added.
ActiveIsOne ==
    ~crossed /\ ~reopened =>
        /\ \A i, j \in ActiveCases : i = j
        /\ \A s \in Signals : Adds(s) => ActiveCases \subseteq {signal[s].case}

Units == UNION {{i} \X (1..incident[i].count) : i \in Cases}

CountsAddUp ==
    ~crossed =>
        /\ IsFiniteSet(Units)
        /\ Cardinality(Units) = Cardinality(noticed)
        /\ \A s \in Signals : Adds(s) => signal[s].count = incident[signal[s].case].count + 1

\* The entry of s may still be noticed.
Pending(s) == signal[s].step \in {"count", "match"} \/ Adds(s)

\* What counts and will not be noticed.
Unnoticed ==
    {e \in Recent \ noticed : \A s \in Signals : Pending(s) => signal[s].entry # e}

\* As many as the threshold says are not left unnoticed: every entry but the first few
\* finds enough of them in the window.
FewUnnoticed ==
    ~cut /\ kind # "new_ip_login" /\ (crossed => kind = "failed_login") =>
        Cardinality(Unnoticed) < Threshold

\* What s is about to commit unnoticed does not fill the window.
NotDue ==
    ~crossed /\ kind \notin AttemptKinds =>
        \A s \in Signals : signal[s].step = "commit" /\ signal[s].case = "none" =>
            CountInWindow + 1 < Threshold

FirstIsNoticed ==
    ~cut /\ ~crossed /\ kind = "new_ip_login" =>
        \/ Logged = {}
        \/ noticed # {}
        \/ \E s \in Signals : Pending(s) /\ (signal[s].step = "count" => Logged = {signal[s].entry})

IncidentInv ==
    /\ IncidentTypeOK
    /\ EntriesAreOwn
    /\ ActiveIsOne
    /\ CountsAddUp
    /\ FewUnnoticed
    /\ NotDue
    /\ FirstIsNoticed


-----------------------------------------------------------------------------
(* Signals, and sets of entries.                                           *)

SignalType == {NoSignal} \cup Counting \cup Matching

LEMMA SignalForms ==
    ASSUME NEW q \in SignalType
    PROVE  /\ q.step \in {"idle", "count", "match", "commit"}
           /\ q.step = "idle" <=> q = NoSignal
           /\ q.step # "idle" => q.entry \in Entries
           /\ q.step \in {"match", "commit"} => q.case \in Cases \cup {"none"} /\ q.count \in Nat
<1>1. CASE q = NoSignal
      BY <1>1 DEF NoSignal
<1>2. CASE q \in Counting
      BY <1>2 DEF Counting, NoSignal
<1>3. CASE q \in Matching
      BY <1>3 DEF Matching, NoSignal
<1> QED BY <1>1, <1>2, <1>3 DEF SignalType

LEMMA SignalIs ==
    ASSUME IncidentTypeOK, NEW s \in Signals
    PROVE  /\ signal[s].step \in {"idle", "count", "match", "commit"}
           /\ signal[s].step = "idle" <=> ~Begun(s)
           /\ Begun(s) => signal[s].entry \in Entries
           /\ signal[s].step \in {"match", "commit"} =>
                 signal[s].case \in Cases \cup {"none"} /\ signal[s].count \in Nat
<1>1. signal[s] \in SignalType
      BY DEF IncidentTypeOK, SignalType
<1> QED BY <1>1, SignalForms DEF Begun

\* A signal that moves on is what it was but for its step.
LEMMA SignalMoves ==
    ASSUME NEW q \in SignalType, NEW step \in {"match", "commit"},
           NEW i \in Cases \cup {"none"}, NEW n \in Nat, q # NoSignal
    PROVE  LET p == [step |-> step, entry |-> q.entry, case |-> i, count |-> n] IN
           p \in SignalType /\ p # NoSignal /\ p.entry = q.entry
<1>1. q.entry \in Entries
      BY SignalForms
<1> DEFINE p == [step |-> step, entry |-> q.entry, case |-> i, count |-> n]
<1>2. p \in Matching
      BY <1>1 DEF Matching
<1>3. p.step # "idle"
      OBVIOUS
<1> QED BY <1>2, <1>3 DEF SignalType, NoSignal

LEMMA SetsAreFinite ==
    ASSUME IncidentTypeOK
    PROVE  /\ IsFiniteSet(Recent) /\ IsFiniteSet(Unnoticed)
           /\ CountInWindow \in Nat /\ Cardinality(Unnoticed) \in Nat
           /\ Cardinality(Unnoticed) <= CountInWindow
<1>1. Recent \subseteq Logged /\ IsFiniteSet(Logged)
      BY DEF Recent, Logged, IncidentTypeOK
<1>2. IsFiniteSet(Recent)
      BY <1>1, FS_Subset
<1>3. Unnoticed \subseteq Recent
      BY DEF Unnoticed
<1>4. IsFiniteSet(Unnoticed) /\ Cardinality(Unnoticed) <= Cardinality(Recent)
      BY <1>2, <1>3, FS_Subset
<1> QED BY <1>2, <1>4, FS_CardinalityType DEF CountInWindow

LEMMA FewerUnnoticed ==
    ASSUME IncidentTypeOK, NEW S \in SUBSET Unnoticed
    PROVE  Cardinality(S) \in Nat /\ Cardinality(S) <= Cardinality(Unnoticed)
BY SetsAreFinite, FS_Subset, FS_CardinalityType

-----------------------------------------------------------------------------
(* The initial states.                                                     *)

LEMMA IncidentInitInv == IncidentInit => IncidentInv
<1> SUFFICES ASSUME IncidentInit PROVE IncidentInv
    OBVIOUS
<1>1. /\ \A s \in Signals : signal[s] = NoSignal /\ ~Begun(s) /\ ~Adds(s) /\ ~Pending(s)
      /\ \A s \in Signals : signal[s].step = "idle"
      BY DEF IncidentInit, Begun, Adds, Pending, NoSignal
<1>2. Logged = {} /\ Recent = {} /\ Unnoticed = {} /\ noticed = {}
      BY DEF IncidentInit, Logged, Recent, Unnoticed
<1>3. ActiveCases = {}
      BY DEF IncidentInit, ActiveCases, NoCase, ActiveStatuses
<1>4. Units = {}
  <2>1. \A i \in Cases : 1..incident[i].count = {}
    <3>1. \A i \in Cases : incident[i].count = 0
          BY DEF IncidentInit, NoCase
    <3>2. 1..0 = {}
          OBVIOUS
    <3> QED BY <3>1, <3>2
  <2> QED BY <2>1 DEF Units
<1>5. IsFiniteSet({}) /\ Cardinality({}) = 0
      BY FS_EmptySet
<1>6. IncidentTypeOK
  <2>1. NoCase \in CaseRow
        BY DEF NoCase, CaseRow
  <2>2. incident \in [Cases -> CaseRow] /\ \A i \in Cases : incident[i].count = 0
        BY <2>1 DEF IncidentInit, NoCase
  <2>3. log \in [Entries -> {"absent", "recent", "past", "stale", "deleted"}]
        BY DEF IncidentInit
  <2>4. signal \in [Signals -> {NoSignal} \cup Counting \cup Matching]
        BY DEF IncidentInit
  <2>5. /\ kind \in Kinds /\ noticed \subseteq Entries
        /\ crossed \in BOOLEAN /\ cut \in BOOLEAN /\ reopened \in BOOLEAN
        BY DEF IncidentInit
  <2> QED BY <1>2, <1>5, <2>2, <2>3, <2>4, <2>5 DEF IncidentTypeOK
<1>7. EntriesAreOwn
      BY <1>1, <1>2 DEF EntriesAreOwn
<1>8. ActiveIsOne
      BY <1>1, <1>3 DEF ActiveIsOne
<1>9. CountsAddUp
      BY <1>1, <1>2, <1>4, <1>5 DEF CountsAddUp
<1>10. FewUnnoticed
      BY <1>2, <1>5, ThresholdAssumption DEF FewUnnoticed
<1>11. NotDue /\ FirstIsNoticed
      BY <1>1, <1>2 DEF NotDue, FirstIsNoticed
<1> QED BY <1>6, <1>7, <1>8, <1>9, <1>10, <1>11 DEF IncidentInv


-----------------------------------------------------------------------------
(* A signal begins, and looks at what there is.                            *)

LEMMA WriteEntryKeepsInv ==
    ASSUME IncidentInv, NEW s \in Signals, WriteEntry(s)
    PROVE  IncidentInv'
<1> USE DEF IncidentInv
<1>1. PICK e \in Entries :
          /\ log[e] = "absent" /\ e \notin Taken
          /\ signal' = [signal EXCEPT ![s] = [step |-> "count", entry |-> e]]
          /\ log' = IF kind \in AttemptKinds THEN [log EXCEPT ![e] = "recent"] ELSE log
      BY DEF WriteEntry
<1>2. /\ signal[s] = NoSignal
      /\ crossed' = (crossed \/ \E x \in Signals : signal[x] # NoSignal)
      /\ UNCHANGED <<kind, incident, noticed, cut, reopened>>
      BY DEF WriteEntry
<1> DEFINE q == [step |-> "count", entry |-> e]
<1>3. q \in SignalType /\ q # NoSignal /\ q.step = "count" /\ q.entry = e
      BY DEF SignalType, Counting, NoSignal
<1>4. signal \in [Signals -> SignalType] /\ log \in [Entries -> {"absent", "recent", "past", "stale", "deleted"}]
      BY DEF IncidentTypeOK, SignalType
<1>5. signal'[s] = q /\ \A x \in Signals : x # s => signal'[x] = signal[x]
      BY <1>1, <1>4
<1> HIDE DEF q
<1>6. signal' \in [Signals -> SignalType]
      BY <1>1, <1>3, <1>4 DEF q
<1>7. /\ ~Begun(s) /\ Begun(s)'
      /\ \A x \in Signals : x # s => /\ Begun(x)' = Begun(x)
                                     /\ Pending(x)' = Pending(x)
                                     /\ Adds(x)' = Adds(x)
      /\ Pending(s)' /\ ~Adds(s)'
      BY <1>2, <1>3, <1>5 DEF Begun, Pending, Adds
<1>8. e \notin Logged /\ e \notin Recent /\ e \notin noticed
      BY <1>1 DEF Logged, Recent, EntriesAreOwn
<1>9. \A x \in Signals : Begun(x) => signal[x].entry # e
  <2> SUFFICES ASSUME NEW x \in Signals, Begun(x)
               PROVE  signal[x].entry # e
      OBVIOUS
  <2>1. signal[x].step # "idle"
        BY SignalIs
  <2> QED BY <1>1, <2>1 DEF Taken
<1>10. /\ log' \in [Entries -> {"absent", "recent", "past", "stale", "deleted"}]
       /\ \/ kind \in AttemptKinds /\ Logged' = Logged \cup {e} /\ Recent' = Recent \cup {e}
          \/ kind \notin AttemptKinds /\ Logged' = Logged /\ Recent' = Recent
  <2>1. CASE kind \in AttemptKinds
    <3>1. log' = [log EXCEPT ![e] = "recent"]
          BY <1>1, <2>1
    <3>2. Logged' = Logged \cup {e} /\ Recent' = Recent \cup {e}
          BY <3>1, <1>4 DEF Logged, Recent
    <3>3. log' \in [Entries -> {"absent", "recent", "past", "stale", "deleted"}]
          BY <3>1, <1>4
    <3> QED BY <3>2, <3>3, <2>1
  <2>2. CASE kind \notin AttemptKinds
    <3>1. log' = log /\ Logged' = Logged /\ Recent' = Recent
          BY <1>1, <2>2 DEF Logged, Recent
    <3> QED BY <3>1, <2>2, <1>4
  <2> QED BY <2>1, <2>2
<1>11. ~crossed' => ~crossed /\ \A x \in Signals : ~Begun(x)
       BY <1>2 DEF Begun
<1>12. IncidentTypeOK'
  <2>1. IsFiniteSet(Logged')
        BY <1>10, FS_AddElement DEF IncidentTypeOK
  <2>2. crossed' \in BOOLEAN
        BY <1>2 DEF IncidentTypeOK
  <2> QED BY <1>2, <1>6, <1>10, <2>1, <2>2 DEF IncidentTypeOK, SignalType
<1>13. EntriesAreOwn'
  <2>1. \A x \in Signals : x # s => signal'[x].entry = signal[x].entry
        BY <1>5
  <2>2. signal'[s].entry = e
        BY <1>3, <1>5
  <2>3. ASSUME NEW x \in Signals, NEW y \in Signals, Begun(x)', Begun(y)',
               signal'[x].entry = signal'[y].entry
        PROVE  x = y
        BY <1>7, <1>9, <2>1, <2>2, <2>3 DEF EntriesAreOwn
  <2>4. ASSUME NEW x \in Signals, Begun(x)'
        PROVE  /\ signal'[x].entry \notin noticed
               /\ kind \in AttemptKinds <=> signal'[x].entry \in Logged'
    <3>1. CASE x = s
          BY <3>1, <2>2, <1>8, <1>10
    <3>2. CASE x # s
      <4>1. Begun(x) /\ signal'[x].entry = signal[x].entry /\ signal[x].entry # e
            BY <3>2, <2>1, <2>4, <1>7, <1>9
      <4> QED BY <4>1, <1>10 DEF EntriesAreOwn
    <3> QED BY <3>1, <3>2
  <2>5. noticed \subseteq Logged'
        BY <1>10 DEF EntriesAreOwn
  <2>6. ~crossed' => \A x, y \in Signals : Begun(x)' /\ Begun(y)' => x = y
        BY <1>7, <1>11
  <2> QED BY <1>2, <2>3, <2>4, <2>5, <2>6 DEF EntriesAreOwn
<1>14. ActiveIsOne'
  <2>1. ActiveCases' = ActiveCases
        BY <1>2 DEF ActiveCases
  <2> QED BY <1>2, <1>5, <1>7, <1>11, <2>1 DEF ActiveIsOne
<1>15. CountsAddUp'
  <2>1. Units' = Units
        BY <1>2 DEF Units
  <2> QED BY <1>2, <1>5, <1>7, <1>11, <2>1 DEF CountsAddUp
<1>16. FewUnnoticed'
  <2>1. Unnoticed' \subseteq Unnoticed
    <3> SUFFICES ASSUME NEW f \in Unnoticed'
                 PROVE  f \in Unnoticed
        OBVIOUS
    <3>1. f \in Recent' /\ f \notin noticed /\ \A x \in Signals : Pending(x)' => signal'[x].entry # f
          BY <1>2 DEF Unnoticed
    <3>2. f # e
          BY <3>1, <1>3, <1>5, <1>7
    <3>3. f \in Recent
          BY <3>1, <3>2, <1>10
    <3>4. ASSUME NEW x \in Signals, Pending(x)
          PROVE  signal[x].entry # f
      <4>1. x # s
            BY <3>4, <1>2 DEF Pending, Adds, NoSignal
      <4> QED BY <4>1, <3>1, <3>4, <1>5, <1>7
    <3> QED BY <3>1, <3>3, <3>4 DEF Unnoticed
  <2>2. Cardinality(Unnoticed') \in Nat /\ Cardinality(Unnoticed') <= Cardinality(Unnoticed)
        BY <2>1, FewerUnnoticed
  <2>3. Cardinality(Unnoticed) \in Nat
        BY SetsAreFinite
  <2> QED BY <1>2, <1>11, <2>2, <2>3, ThresholdAssumption DEF FewUnnoticed
<1>17. NotDue'
  <2>1. ~crossed' /\ kind \notin AttemptKinds => \A x \in Signals : signal'[x].step # "commit"
    <3> SUFFICES ASSUME ~crossed', NEW x \in Signals
                 PROVE  signal'[x].step # "commit"
        OBVIOUS
    <3>1. CASE x = s
          BY <3>1, <1>3, <1>5
    <3>2. CASE x # s
          BY <3>2, <1>5, <1>11 DEF Begun, NoSignal
    <3> QED BY <3>1, <3>2
  <2> QED BY <1>2, <2>1 DEF NotDue
<1>18. FirstIsNoticed'
  <2> SUFFICES ASSUME ~cut, ~crossed', kind = "new_ip_login", noticed = {}
               PROVE  \E x \in Signals : Pending(x)' /\ (signal'[x].step = "count" => Logged' = {signal'[x].entry})
      BY <1>2 DEF FirstIsNoticed
  <2>1. \A x \in Signals : ~Begun(x) /\ ~Pending(x)
        BY <1>11 DEF Begun, Pending, Adds, NoSignal
  <2>2. Logged = {}
        BY <1>11, <2>1 DEF FirstIsNoticed
  <2>3. Logged' = {e}
        BY <1>10, <2>2 DEF AttemptKinds
  <2> QED BY <2>3, <1>3, <1>5, <1>7
<1> QED BY <1>12, <1>13, <1>14, <1>15, <1>16, <1>17, <1>18

\* As long as no more are left unnoticed they stay few.
LEMMA StillFew ==
    ASSUME IncidentInv, kind' = kind, Unnoticed' \subseteq Unnoticed,
           ~cut' => ~cut, ~crossed' => ~crossed
    PROVE  FewUnnoticed'
<1>1. Cardinality(Unnoticed') \in Nat /\ Cardinality(Unnoticed') <= Cardinality(Unnoticed)
      BY FewerUnnoticed DEF IncidentInv
<1>2. Cardinality(Unnoticed) \in Nat
      BY SetsAreFinite DEF IncidentInv
<1> QED BY <1>1, <1>2, ThresholdAssumption DEF IncidentInv, FewUnnoticed

\* A step of s within its transaction.
WorksOn(s) ==
    /\ Begun(s)
    /\ signal' = [signal EXCEPT ![s] = signal'[s]]
    /\ signal'[s] \in SignalType
    /\ signal'[s] # NoSignal
    /\ signal'[s].entry = signal[s].entry
    /\ UNCHANGED <<kind, log, incident, noticed, crossed, cut, reopened>>

LEMMA WorkKeeps ==
    ASSUME IncidentInv, NEW s \in Signals, WorksOn(s)
    PROVE  /\ IncidentTypeOK' /\ EntriesAreOwn'
           /\ \A x \in Signals : x # s => signal'[x] = signal[x]
           /\ \A x \in Signals : Begun(x)' = Begun(x) /\ signal'[x].entry = signal[x].entry
           /\ ~crossed => \A x \in Signals : x # s => ~Begun(x) /\ ~Pending(x)' /\ ~Adds(x)'
           /\ Logged' = Logged /\ Recent' = Recent /\ ActiveCases' = ActiveCases /\ Units' = Units
<1> USE DEF IncidentInv
<1>1. /\ Logged' = Logged /\ Recent' = Recent /\ ActiveCases' = ActiveCases /\ Units' = Units
      /\ UNCHANGED <<kind, log, incident, noticed, crossed, cut, reopened>>
      BY DEF WorksOn, Logged, Recent, ActiveCases, Units
<1>2. signal \in [Signals -> SignalType]
      BY DEF IncidentTypeOK, SignalType
<1>3. signal' \in [Signals -> SignalType] /\ \A x \in Signals : x # s => signal'[x] = signal[x]
      BY <1>2 DEF WorksOn
<1>4. \A x \in Signals : Begun(x)' = Begun(x) /\ signal'[x].entry = signal[x].entry
      BY <1>3 DEF WorksOn, Begun
<1>5. IncidentTypeOK'
      BY <1>1, <1>3 DEF IncidentTypeOK, SignalType
<1>6. EntriesAreOwn'
      BY <1>1, <1>4 DEF EntriesAreOwn
<1>7. ~crossed => \A x \in Signals : x # s => ~Begun(x)
      BY DEF EntriesAreOwn, WorksOn
<1>8. \A x \in Signals : ~Begun(x) => ~Pending(x) /\ ~Adds(x)
      BY DEF Begun, Pending, Adds, NoSignal
<1>9. \A x \in Signals : x # s => Pending(x)' = Pending(x) /\ Adds(x)' = Adds(x)
      BY <1>3 DEF Pending, Adds
<1> QED BY <1>1, <1>3, <1>4, <1>5, <1>6, <1>7, <1>8, <1>9

\* What a count says: when nothing is due the window has room for the entry.
LEMMA NothingDue ==
    ASSUME IncidentInv, ~Due
    PROVE  /\ kind # "admin_change"
           /\ kind = "failed_login" => CountInWindow < Threshold
           /\ kind = "new_ip_login" => CountEver # 1
           /\ kind \notin AttemptKinds => CountInWindow + 1 < Threshold
<1>1. /\ kind \in {"failed_login", "new_ip_login", "token_churn", "rate_limit_spike",
                   "error_spike", "admin_change"}
      /\ CountInWindow \in Nat
      BY SetsAreFinite DEF IncidentInv, IncidentTypeOK, Kinds
<1>2. kind = "failed_login" => ~FailedLoginBurst
      BY DEF Due
<1>3. kind = "new_ip_login" => ~NewIpLogin
      BY DEF Due
<1>4. kind \in {"token_churn", "rate_limit_spike", "error_spike"} => ~(CountInWindow + 1 >= Threshold)
      BY DEF Due, TokenChurn, RateLimitSpike, ErrorSpike
<1>5. kind # "admin_change"
      BY DEF Due
<1> QED BY <1>1, <1>2, <1>3, <1>4, <1>5, ThresholdAssumption
        DEF FailedLoginBurst, NewIpLogin, AttemptKinds

LEMMA CountKeepsInv ==
    ASSUME IncidentInv, NEW s \in Signals, Count(s)
    PROVE  IncidentInv'
<1> DEFINE step == IF Due THEN "match" ELSE "commit"
           q == [step |-> step, entry |-> signal[s].entry, case |-> "none", count |-> 0]
<1>1. /\ signal[s].step = "count" /\ signal' = [signal EXCEPT ![s] = q]
      /\ UNCHANGED <<kind, log, incident, noticed, crossed, cut, reopened>>
      BY DEF Count
<1>2. /\ signal \in [Signals -> SignalType] /\ signal[s] \in SignalType
      /\ Begun(s) /\ signal[s] # NoSignal /\ Pending(s)
      BY <1>1 DEF IncidentInv, IncidentTypeOK, SignalType, Begun, NoSignal, Pending
<1>3. step \in {"match", "commit"} /\ "none" \in Cases \cup {"none"} /\ 0 \in Nat
      OBVIOUS
<1>4. q.step = step /\ q.case = "none" /\ (step = "match" <=> Due)
      OBVIOUS
<1> HIDE DEF step
<1>5. q \in SignalType /\ q # NoSignal /\ q.entry = signal[s].entry
      BY <1>2, <1>3, SignalMoves
<1> HIDE DEF q
<1>6. signal'[s] = q
      BY <1>1, <1>2
<1>7. WorksOn(s)
      BY <1>1, <1>2, <1>5, <1>6 DEF WorksOn
<1>8. /\ IncidentTypeOK' /\ EntriesAreOwn'
      /\ \A x \in Signals : x # s => signal'[x] = signal[x]
      /\ \A x \in Signals : Begun(x)' = Begun(x) /\ signal'[x].entry = signal[x].entry
      /\ ~crossed => \A x \in Signals : x # s => ~Begun(x) /\ ~Pending(x)' /\ ~Adds(x)'
      /\ Logged' = Logged /\ Recent' = Recent /\ ActiveCases' = ActiveCases /\ Units' = Units
      BY <1>7, WorkKeeps
<1>9. ~Adds(s)' /\ (Pending(s)' <=> Due)
      BY <1>3, <1>4, <1>6 DEF Adds, Pending
<1>10. \A x \in Signals : x # s => (Adds(x)' <=> Adds(x)) /\ (Pending(x)' <=> Pending(x))
      BY <1>8 DEF Adds, Pending
<1>11. ActiveIsOne' /\ CountsAddUp'
      BY <1>1, <1>8, <1>9, <1>10 DEF IncidentInv, ActiveIsOne, CountsAddUp
<1>12. FewUnnoticed'
  <2>1. CASE Due
    <3>1. \A x \in Signals : Pending(x)' <=> Pending(x)
          BY <2>1, <1>2, <1>9, <1>10
    <3>2. Unnoticed' = Unnoticed
          BY <3>1, <1>1, <1>8 DEF Unnoticed
    <3> QED BY <3>2, <1>1, StillFew
  <2>2. CASE ~Due
    <3>1. Unnoticed' \subseteq Recent
          BY <1>8 DEF Unnoticed
    <3>2. /\ CountInWindow \in Nat
          /\ Cardinality(Unnoticed') \in Nat /\ Cardinality(Unnoticed') <= CountInWindow
          BY <3>1, SetsAreFinite, FS_Subset, FS_CardinalityType DEF IncidentInv, CountInWindow
    <3>3. kind # "new_ip_login" => CountInWindow < Threshold
          BY <2>2, <3>2, NothingDue, ThresholdAssumption DEF AttemptKinds
    <3> QED BY <1>1, <3>2, <3>3, ThresholdAssumption DEF FewUnnoticed
  <2> QED BY <2>1, <2>2
<1>13. NotDue'
  <2>1. CountInWindow' = CountInWindow
        BY <1>8 DEF CountInWindow
  <2> SUFFICES ASSUME ~crossed, kind \notin AttemptKinds, NEW x \in Signals,
                      signal'[x].step = "commit"
               PROVE  CountInWindow + 1 < Threshold
      BY <1>1, <2>1 DEF NotDue
  <2>2. x = s
        BY <1>8 DEF Begun, NoSignal
  <2>3. ~Due
        BY <2>2, <1>4, <1>6
  <2> QED BY <2>3, NothingDue
<1>14. FirstIsNoticed'
  <2> SUFFICES ASSUME ~cut, ~crossed, kind = "new_ip_login", noticed = {}, Logged # {}
               PROVE  \E x \in Signals : Pending(x)' /\ (signal'[x].step = "count" => Logged' = {signal'[x].entry})
      BY <1>1, <1>8 DEF FirstIsNoticed
  <2>1. PICK x \in Signals : Pending(x) /\ (signal[x].step = "count" => Logged = {signal[x].entry})
        BY DEF IncidentInv, FirstIsNoticed
  <2>2. x = s
        BY <1>8, <2>1 DEF Begun, NoSignal, Pending, Adds
  <2>3. CountEver = 1
        BY <1>1, <2>1, <2>2, FS_Singleton DEF CountEver
  <2>4. Due
        BY <2>3, NothingDue
  <2> QED BY <2>4, <1>4, <1>6, <1>9
<1> QED BY <1>8, <1>11, <1>12, <1>13, <1>14 DEF IncidentInv

LEMMA MatchKeepsInv ==
    ASSUME IncidentInv, NEW s \in Signals, MatchIncident(s)
    PROVE  IncidentInv'
<1>1. PICK i \in Cases :
          /\ \/ i \in ActiveCases
             \/ ActiveCases = {} /\ incident[i] = NoCase
          /\ Matches(s, i, incident[i].count)
      BY DEF MatchIncident, ActiveCases, NoCase
<1> DEFINE q == [step |-> "commit", entry |-> signal[s].entry,
                 case |-> i, count |-> incident[i].count + 1]
<1>2. /\ signal[s].step = "match" /\ signal' = [signal EXCEPT ![s] = q]
      /\ UNCHANGED <<kind, log, incident, noticed, crossed, cut, reopened>>
      BY <1>1 DEF MatchIncident, Matches
<1>3. /\ signal \in [Signals -> SignalType] /\ signal[s] \in SignalType
      /\ Begun(s) /\ signal[s] # NoSignal /\ Pending(s)
      BY <1>2 DEF IncidentInv, IncidentTypeOK, SignalType, Begun, NoSignal, Pending
<1>4. incident[i].count + 1 \in Nat /\ i \in Cases \cup {"none"} /\ i # "none"
      BY CaseAssumption DEF IncidentInv, IncidentTypeOK, CaseRow
<1>5. q.step = "commit" /\ q.case = i /\ q.count = incident[i].count + 1
      OBVIOUS
<1>6. q \in SignalType /\ q # NoSignal /\ q.entry = signal[s].entry
      BY <1>3, <1>4, SignalMoves
<1> HIDE DEF q
<1>7. signal'[s] = q
      BY <1>2, <1>3
<1>8. WorksOn(s)
      BY <1>2, <1>3, <1>6, <1>7 DEF WorksOn
<1>9. /\ IncidentTypeOK' /\ EntriesAreOwn'
      /\ \A x \in Signals : x # s => signal'[x] = signal[x]
      /\ \A x \in Signals : Begun(x)' = Begun(x) /\ signal'[x].entry = signal[x].entry
      /\ ~crossed => \A x \in Signals : x # s => ~Begun(x) /\ ~Pending(x)' /\ ~Adds(x)'
      /\ Logged' = Logged /\ Recent' = Recent /\ ActiveCases' = ActiveCases /\ Units' = Units
      BY <1>8, WorkKeeps
<1>10. Adds(s)' /\ Pending(s)'
      BY <1>4, <1>5, <1>7 DEF Adds, Pending
<1>11. \A x \in Signals : Pending(x)' = Pending(x)
      BY <1>3, <1>9, <1>10 DEF Pending, Adds
<1>12. ActiveIsOne'
  <2> SUFFICES ASSUME ~crossed, ~reopened
               PROVE  ActiveCases \subseteq {i} /\ \A j, k \in ActiveCases : j = k
      BY <1>2, <1>5, <1>7, <1>9 DEF ActiveIsOne
  <2> QED BY <1>1 DEF IncidentInv, ActiveIsOne
<1>13. CountsAddUp'
  <2> SUFFICES ASSUME ~crossed
               PROVE  /\ IsFiniteSet(Units)
                      /\ Cardinality(Units) = Cardinality(noticed)
      BY <1>2, <1>5, <1>7, <1>9 DEF CountsAddUp
  <2> QED BY DEF IncidentInv, CountsAddUp
<1>14. FewUnnoticed'
  <2>1. Unnoticed' = Unnoticed
        BY <1>2, <1>9, <1>11 DEF Unnoticed
  <2> QED BY <2>1, <1>2, StillFew
<1>15. NotDue'
  <2>1. ~crossed => \A x \in Signals : signal'[x].step = "commit" => x = s
        BY <1>9 DEF Begun, NoSignal
  <2> QED BY <2>1, <1>2, <1>4, <1>5, <1>7 DEF NotDue
<1>16. FirstIsNoticed'
  <2>1. Pending(s)' /\ signal'[s].step # "count"
        BY <1>5, <1>7, <1>10
  <2> QED BY <2>1 DEF FirstIsNoticed
<1> QED BY <1>9, <1>12, <1>13, <1>14, <1>15, <1>16 DEF IncidentInv


-----------------------------------------------------------------------------
(* A signal ends.                                                          *)

\* The incident the units of which s adds to.
LEMMA OneMoreUnit ==
    ASSUME IncidentTypeOK, NEW i \in Cases, NEW i2 \in CaseRow,
           incident' = [incident EXCEPT ![i] = i2],
           i2.count = incident[i].count + 1, IsFiniteSet(Units)
    PROVE  IsFiniteSet(Units') /\ Cardinality(Units') = Cardinality(Units) + 1
<1> DEFINE n == incident[i].count
           u == <<i, n + 1>>
<1>1. /\ n \in Nat /\ \A j \in Cases : incident[j].count \in Nat
      /\ \A j \in Cases : incident'[j].count = IF j = i THEN n + 1 ELSE incident[j].count
      BY DEF IncidentTypeOK, CaseRow
<1>2. \A w : w \in Units <=> \E j \in Cases : \E m \in 1..incident[j].count : w = <<j, m>>
  <2>1. \A j \in Cases : \A w : w \in {j} \X (1..incident[j].count)
                                  <=> \E m \in 1..incident[j].count : w = <<j, m>>
        OBVIOUS
  <2> QED BY <2>1 DEF Units
<1>3. \A w : w \in Units' <=> \E j \in Cases : \E m \in 1..incident'[j].count : w = <<j, m>>
  <2>1. \A j \in Cases : \A w : w \in {j} \X (1..incident'[j].count)
                                  <=> \E m \in 1..incident'[j].count : w = <<j, m>>
        OBVIOUS
  <2> QED BY <2>1 DEF Units
<1> HIDE DEF n
<1>4. 1..(n + 1) = (1..n) \cup {n + 1} /\ n + 1 \notin 1..n
      BY <1>1
<1>5. incident[i].count = n
      BY DEF n
<1>6. u \notin Units
  <2> SUFFICES ASSUME NEW j \in Cases, NEW m \in 1..incident[j].count, u = <<j, m>>
               PROVE  FALSE
      BY <1>2
  <2>1. j = i /\ m = n + 1
        OBVIOUS
  <2> QED BY <2>1, <1>4, <1>5
<1>7. Units' = Units \cup {u}
  <2>1. ASSUME NEW w \in Units'
        PROVE  w \in Units \cup {u}
    <3>1. PICK j \in Cases : \E m \in 1..incident'[j].count : w = <<j, m>>
          BY <2>1, <1>3
    <3>2. PICK m \in 1..incident'[j].count : w = <<j, m>>
          BY <3>1
    <3>3. CASE j = i
      <4>1. m \in (1..n) \cup {n + 1}
            BY <3>3, <1>1, <1>4
      <4> QED BY <4>1, <3>2, <3>3, <1>2, <1>5
    <3>4. CASE j # i
          BY <3>2, <3>4, <1>1, <1>2
    <3> QED BY <3>3, <3>4
  <2>2. ASSUME NEW w \in Units
        PROVE  w \in Units'
    <3>1. PICK j \in Cases : \E m \in 1..incident[j].count : w = <<j, m>>
          BY <2>2, <1>2
    <3>2. PICK m \in 1..incident[j].count : w = <<j, m>>
          BY <3>1
    <3>3. m \in 1..incident'[j].count
          BY <1>1, <1>4, <1>5
    <3> QED BY <3>2, <3>3, <1>3
  <2>3. u \in Units'
    <3>1. n + 1 \in 1..incident'[i].count
          BY <1>1
    <3> QED BY <3>1, <1>3
  <2> QED BY <2>1, <2>2, <2>3
<1> QED BY <1>6, <1>7, FS_AddElement

\* What the end of s leaves to the others.
LEMMA EndFacts ==
    ASSUME IncidentInv, NEW s \in Signals, Begun(s), signal' = [signal EXCEPT ![s] = NoSignal]
    PROVE  /\ signal' \in [Signals -> SignalType] /\ signal'[s] = NoSignal
           /\ \A x \in Signals : x # s => signal'[x] = signal[x]
           /\ \A x \in Signals : Begun(x)' => x # s /\ Begun(x)
           /\ \A x \in Signals : Pending(x)' <=> x # s /\ Pending(x)
           /\ \A x \in Signals : Adds(x)' <=> x # s /\ Adds(x)
           /\ ~crossed => \A x \in Signals : ~Begun(x)' /\ ~Pending(x)' /\ ~Adds(x)'
<1>1. signal \in [Signals -> SignalType] /\ NoSignal \in SignalType
      BY DEF IncidentInv, IncidentTypeOK, SignalType
<1>2. /\ signal' \in [Signals -> SignalType] /\ signal'[s] = NoSignal
      /\ \A x \in Signals : x # s => signal'[x] = signal[x]
      BY <1>1
<1>3. ~Begun(s)' /\ ~Pending(s)' /\ ~Adds(s)'
      BY <1>2 DEF Begun, Pending, Adds, NoSignal
<1>4. \A x \in Signals : x # s => /\ Begun(x)' <=> Begun(x)
                                  /\ Pending(x)' <=> Pending(x)
                                  /\ Adds(x)' <=> Adds(x)
      BY <1>2 DEF Begun, Pending, Adds
<1>5. ~crossed => \A x \in Signals : x # s => ~Begun(x)
      BY DEF IncidentInv, EntriesAreOwn
<1>6. \A x \in Signals : ~Begun(x) => ~Pending(x) /\ ~Adds(x)
      BY DEF Begun, Pending, Adds, NoSignal
<1> QED BY <1>2, <1>3, <1>4, <1>5, <1>6

LEMMA DropSignalKeepsInv ==
    ASSUME IncidentInv, NEW s \in Signals, DropSignal(s)
    PROVE  IncidentInv'
<1> USE DEF IncidentInv
<1>1. /\ Begun(s) /\ signal' = [signal EXCEPT ![s] = NoSignal]
      /\ cut' = (cut \/ kind \in AttemptKinds)
      /\ UNCHANGED <<kind, log, incident, noticed, crossed, reopened>>
      BY DEF DropSignal, Begun
<1>2. /\ signal' \in [Signals -> SignalType] /\ signal'[s] = NoSignal
      /\ \A x \in Signals : x # s => signal'[x] = signal[x]
      /\ \A x \in Signals : Begun(x)' => x # s /\ Begun(x)
      /\ \A x \in Signals : Pending(x)' <=> x # s /\ Pending(x)
      /\ \A x \in Signals : Adds(x)' <=> x # s /\ Adds(x)
      /\ ~crossed => \A x \in Signals : ~Begun(x)' /\ ~Pending(x)' /\ ~Adds(x)'
      BY <1>1, EndFacts
<1>3. Logged' = Logged /\ Recent' = Recent /\ ActiveCases' = ActiveCases /\ Units' = Units
      BY <1>1 DEF Logged, Recent, ActiveCases, Units
<1>4. IncidentTypeOK'
  <2>1. cut' \in BOOLEAN
        BY <1>1 DEF IncidentTypeOK
  <2> QED BY <1>1, <1>2, <1>3, <2>1 DEF IncidentTypeOK, SignalType
<1>5. EntriesAreOwn'
      BY <1>1, <1>2, <1>3 DEF EntriesAreOwn
<1>6. ActiveIsOne' /\ CountsAddUp'
      BY <1>1, <1>2, <1>3 DEF ActiveIsOne, CountsAddUp
<1>7. FewUnnoticed'
  <2>1. CASE kind \in AttemptKinds
        BY <2>1, <1>1 DEF FewUnnoticed
  <2>2. CASE kind \notin AttemptKinds
    <3>1. signal[s].entry \notin Recent
          BY <2>2, <1>1 DEF EntriesAreOwn, Recent, Logged
    <3>2. Unnoticed' \subseteq Unnoticed
      <4> SUFFICES ASSUME NEW f \in Unnoticed', NEW x \in Signals, Pending(x)
                   PROVE  f \in Recent /\ f \notin noticed /\ signal[x].entry # f
          BY <1>1, <1>3 DEF Unnoticed
      <4>1. f \in Recent /\ f \notin noticed
            BY <1>1, <1>3 DEF Unnoticed
      <4>2. CASE x = s
            BY <4>1, <4>2, <3>1
      <4>3. CASE x # s
        <5>1. Pending(x)' /\ signal'[x] = signal[x]
              BY <4>3, <1>2
        <5>2. \A y \in Signals : Pending(y)' => signal'[y].entry # f
              BY DEF Unnoticed
        <5> QED BY <4>1, <5>1, <5>2
      <4> QED BY <4>1, <4>2, <4>3
    <3>3. ~cut' => ~cut
          BY <1>1
    <3> QED BY <3>2, <3>3, <1>1, StillFew
  <2> QED BY <2>1, <2>2
<1>8. NotDue'
  <2>1. CountInWindow' = CountInWindow
        BY <1>3 DEF CountInWindow
  <2>2. \A x \in Signals : signal'[x].step = "commit" => signal'[x] = signal[x]
        BY <1>2 DEF NoSignal
  <2> QED BY <1>1, <2>1, <2>2 DEF NotDue
<1>9. FirstIsNoticed'
      BY <1>1 DEF FirstIsNoticed, AttemptKinds
<1> QED BY <1>4, <1>5, <1>6, <1>7, <1>8, <1>9

LEMMA CommitSignalKeepsInv ==
    ASSUME IncidentInv, NEW s \in Signals, CommitSignal(s)
    PROVE  IncidentInv'
<1> USE DEF IncidentInv
<1> DEFINE e == signal[s].entry
           i == signal[s].case
           row == [status |-> IF incident[i].status = "absent" THEN "open" ELSE incident[i].status,
                   count |-> signal[s].count, about |-> {e}]
<1>1. /\ signal[s].step = "commit" /\ signal' = [signal EXCEPT ![s] = NoSignal]
      /\ log' = IF kind \in AttemptKinds THEN log ELSE [log EXCEPT ![e] = "recent"]
      /\ UNCHANGED <<kind, crossed, cut, reopened>>
      BY DEF CommitSignal
<1>2. \/ i = "none" /\ UNCHANGED <<incident, noticed>>
      \/ i # "none" /\ incident' = [incident EXCEPT ![i] = row] /\ noticed' = noticed \cup {e}
      BY DEF CommitSignal
<1>3. /\ Begun(s) /\ e \in Entries /\ i \in Cases \cup {"none"} /\ signal[s].count \in Nat
      /\ e \notin noticed /\ (kind \in AttemptKinds <=> e \in Logged)
      BY <1>1, SignalIs DEF EntriesAreOwn
<1>4. /\ signal' \in [Signals -> SignalType] /\ signal'[s] = NoSignal
      /\ \A x \in Signals : x # s => signal'[x] = signal[x]
      /\ \A x \in Signals : Begun(x)' => x # s /\ Begun(x)
      /\ \A x \in Signals : Pending(x)' <=> x # s /\ Pending(x)
      /\ \A x \in Signals : Adds(x)' <=> x # s /\ Adds(x)
      /\ ~crossed => \A x \in Signals : ~Begun(x)' /\ ~Pending(x)' /\ ~Adds(x)'
      BY <1>1, <1>3, EndFacts
<1>5. Adds(s) <=> i # "none"
      BY <1>1 DEF Adds
<1>6. \A x \in Signals : Begun(x)' => signal'[x].entry # e
      BY <1>3, <1>4 DEF EntriesAreOwn
<1>7. i # "none" => /\ i \in Cases /\ row \in CaseRow /\ row.status # "absent"
                    /\ row.count = signal[s].count
      BY <1>3 DEF IncidentTypeOK, CaseRow
<1>8. i # "none" => \A j \in Cases : incident'[j] = IF j = i THEN row ELSE incident[j]
      BY <1>2, <1>7 DEF IncidentTypeOK
<1>9. ActiveCases' \subseteq ActiveCases \cup (IF i = "none" THEN {} ELSE {i})
  <2>1. CASE i = "none"
        BY <2>1, <1>2 DEF ActiveCases
  <2>2. CASE i # "none"
        BY <2>2, <1>8 DEF ActiveCases
  <2> QED BY <2>1, <2>2
<1> HIDE DEF row, e, i
<1>10. /\ log' \in [Entries -> {"absent", "recent", "past", "stale", "deleted"}]
       /\ \/ kind \in AttemptKinds /\ Logged' = Logged /\ Recent' = Recent
          \/ kind \notin AttemptKinds /\ Logged' = Logged \cup {e} /\ Recent' = Recent \cup {e}
  <2>1. CASE kind \in AttemptKinds
        BY <2>1, <1>1 DEF IncidentTypeOK, Logged, Recent
  <2>2. CASE kind \notin AttemptKinds
    <3>1. log' = [log EXCEPT ![e] = "recent"]
          BY <1>1, <2>2
    <3>2. Logged' = Logged \cup {e} /\ Recent' = Recent \cup {e}
          BY <3>1, <1>3 DEF Logged, Recent, IncidentTypeOK
    <3>3. log' \in [Entries -> {"absent", "recent", "past", "stale", "deleted"}]
          BY <3>1, <1>3 DEF IncidentTypeOK
    <3> QED BY <3>2, <3>3, <2>2
  <2> QED BY <2>1, <2>2
<1>11. e \in Logged'
       BY <1>3, <1>10
<1>12. IncidentTypeOK'
  <2>1. IsFiniteSet(Logged') /\ IsFiniteSet(noticed')
        BY <1>2, <1>10, FS_AddElement DEF IncidentTypeOK
  <2>2. incident' \in [Cases -> CaseRow]
        BY <1>2, <1>7 DEF IncidentTypeOK
  <2>3. \A j \in Cases : incident'[j].status = "absent" => incident'[j].count = 0
        BY <1>2, <1>7, <1>8 DEF IncidentTypeOK
  <2>4. noticed' \subseteq Entries
        BY <1>2, <1>3 DEF IncidentTypeOK
  <2> QED BY <1>1, <1>4, <1>10, <2>1, <2>2, <2>3, <2>4 DEF IncidentTypeOK, SignalType
<1>13. EntriesAreOwn'
  <2>1. ASSUME NEW x \in Signals, NEW y \in Signals, Begun(x)', Begun(y)',
               signal'[x].entry = signal'[y].entry
        PROVE  x = y
        BY <2>1, <1>4 DEF EntriesAreOwn
  <2>2. ASSUME NEW x \in Signals, Begun(x)'
        PROVE  /\ signal'[x].entry \notin noticed'
               /\ kind \in AttemptKinds <=> signal'[x].entry \in Logged'
    <3>1. x # s /\ Begun(x) /\ signal'[x] = signal[x] /\ signal'[x].entry # e
          BY <2>2, <1>4, <1>6
    <3> QED BY <3>1, <1>2, <1>10 DEF EntriesAreOwn
  <2>3. noticed' \subseteq Logged'
        BY <1>2, <1>10, <1>11 DEF EntriesAreOwn
  <2>4. ~crossed => \A x, y \in Signals : Begun(x)' /\ Begun(y)' => x = y
        BY <1>4
  <2> QED BY <1>1, <2>1, <2>2, <2>3, <2>4 DEF EntriesAreOwn
<1>14. ActiveIsOne'
  <2> SUFFICES ASSUME ~crossed, ~reopened
               PROVE  \A j, k \in ActiveCases' : j = k
      BY <1>1, <1>4 DEF ActiveIsOne
  <2>1. CASE i = "none"
        BY <2>1, <1>9 DEF ActiveIsOne
  <2>2. CASE i # "none"
    <3>1. ActiveCases \subseteq {i}
          BY <2>2, <1>5 DEF ActiveIsOne, i
    <3> QED BY <3>1, <1>9
  <2> QED BY <2>1, <2>2
<1>15. CountsAddUp'
  <2> SUFFICES ASSUME ~crossed
               PROVE  IsFiniteSet(Units') /\ Cardinality(Units') = Cardinality(noticed')
      BY <1>1, <1>4 DEF CountsAddUp
  <2>1. /\ IsFiniteSet(Units) /\ Cardinality(Units) = Cardinality(noticed)
        BY DEF CountsAddUp
  <2>2. CASE i = "none"
    <3>1. Units' = Units /\ noticed' = noticed
          BY <2>2, <1>2 DEF Units
    <3> QED BY <3>1, <2>1
  <2>3. CASE i # "none"
    <3>1. row.count = incident[i].count + 1
          BY <2>3, <1>5, <1>7 DEF CountsAddUp, i
    <3>2. IsFiniteSet(Units') /\ Cardinality(Units') = Cardinality(Units) + 1
          BY <2>1, <2>3, <3>1, <1>2, <1>7, OneMoreUnit
    <3>3. Cardinality(noticed') = Cardinality(noticed) + 1
          BY <2>3, <1>2, <1>3, FS_AddElement DEF IncidentTypeOK
    <3> QED BY <2>1, <3>2, <3>3
  <2> QED BY <2>2, <2>3
<1>16. FewUnnoticed'
  <2>1. CASE i # "none" \/ kind \in AttemptKinds
    <3>1. Unnoticed' \subseteq Unnoticed
      <4> SUFFICES ASSUME NEW f \in Unnoticed'
                   PROVE  /\ f \in Recent /\ f \notin noticed
                          /\ \A x \in Signals : Pending(x) => signal[x].entry # f
          BY DEF Unnoticed
      <4>1. /\ f \in Recent' /\ f \notin noticed'
            /\ \A x \in Signals : Pending(x)' => signal'[x].entry # f
            BY DEF Unnoticed
      <4>2. f \in Recent /\ f \notin noticed /\ (i # "none" => f # e)
            BY <2>1, <4>1, <1>2, <1>10
      <4>3. ASSUME NEW x \in Signals, Pending(x)
            PROVE  signal[x].entry # f
        <5>1. CASE x = s
          <6>1. i # "none"
                BY <4>3, <5>1, <1>1 DEF Pending, Adds, i
          <6> QED BY <4>2, <5>1, <6>1 DEF e
        <5>2. CASE x # s
              BY <4>1, <4>3, <5>2, <1>4
        <5> QED BY <5>1, <5>2
      <4> QED BY <4>2, <4>3
    <3> QED BY <3>1, <1>1, StillFew
  <2>2. CASE i = "none" /\ kind \notin AttemptKinds
    <3>1. Recent' = Recent \cup {e} /\ IsFiniteSet(Recent) /\ CountInWindow \in Nat
          BY <2>2, <1>10, SetsAreFinite
    <3>2. /\ IsFiniteSet(Recent')
          /\ Cardinality(Recent') \in Nat /\ Cardinality(Recent') <= CountInWindow + 1
      <4>1. /\ IsFiniteSet(Recent \cup {e})
            /\ Cardinality(Recent \cup {e}) \in {CountInWindow, CountInWindow + 1}
            BY <3>1, FS_AddElement DEF CountInWindow
      <4> QED BY <3>1, <4>1
    <3>3. Unnoticed' \subseteq Recent'
          BY DEF Unnoticed
    <3>4. Cardinality(Unnoticed') \in Nat /\ Cardinality(Unnoticed') <= Cardinality(Recent')
          BY <3>2, <3>3, FS_Subset, FS_CardinalityType
    <3>5. ~crossed => CountInWindow + 1 < Threshold
          BY <2>2, <1>1 DEF NotDue, i
    <3> QED BY <2>2, <1>1, <3>1, <3>2, <3>4, <3>5, ThresholdAssumption
            DEF FewUnnoticed, AttemptKinds
  <2> QED BY <2>1, <2>2
<1>17. NotDue'
       BY <1>1, <1>4 DEF NotDue, Begun, NoSignal
<1>18. FirstIsNoticed'
  <2> SUFFICES ASSUME ~cut, ~crossed, kind = "new_ip_login", Logged # {}, noticed = {}
               PROVE  noticed' # {}
      BY <1>1, <1>2, <1>10 DEF FirstIsNoticed, AttemptKinds
  <2>1. PICK x \in Signals : Pending(x)
        BY DEF FirstIsNoticed
  <2>2. x = s
        BY <2>1, <1>4
  <2> QED BY <2>1, <2>2, <1>1, <1>2, <1>5 DEF Pending
<1> QED BY <1>12, <1>13, <1>14, <1>15, <1>16, <1>17, <1>18


-----------------------------------------------------------------------------
(* Reviews, and the passing of time.                                       *)

\* A review touches the status only.
LEMMA ReviewKeepsInv ==
    ASSUME IncidentInv, NEW i \in Cases, NEW status \in Reviewed, Review(i, status)
    PROVE  IncidentInv'
<1> USE DEF IncidentInv
<1>1. /\ incident[i].status # "absent"
      /\ incident' = [incident EXCEPT ![i].status = status]
      /\ reopened' = (reopened \/ (incident[i].status = "resolved" /\ status # "resolved"))
      /\ UNCHANGED <<kind, log, signal, noticed, crossed, cut>>
      BY DEF Review
<1>2. status \in {"acknowledged", "resolved"}
      BY DEF Reviewed
<1>3. incident \in [Cases -> CaseRow]
      BY DEF IncidentTypeOK
<1>4. /\ incident' \in [Cases -> CaseRow]
      /\ \A j \in Cases : incident'[j].count = incident[j].count
      /\ \A j \in Cases : incident'[j].status = IF j = i THEN status ELSE incident[j].status
      BY <1>1, <1>2, <1>3 DEF CaseRow
<1>5. Logged' = Logged /\ Recent' = Recent /\ Unnoticed' = Unnoticed
      BY <1>1 DEF Logged, Recent, Unnoticed, Pending, Adds
<1>6. Units' = Units
      BY <1>4 DEF Units
<1>7. \A s \in Signals : (Begun(s)' <=> Begun(s)) /\ (Pending(s)' <=> Pending(s)) /\ (Adds(s)' <=> Adds(s))
      BY <1>1 DEF Begun, Pending, Adds
<1>8. ~reopened' => ~reopened /\ ActiveCases' \subseteq ActiveCases
  <2> SUFFICES ASSUME ~reopened', NEW j \in ActiveCases'
               PROVE  j \in ActiveCases
      BY <1>1
  <2>1. j \in Cases /\ incident'[j].status \in ActiveStatuses
        BY DEF ActiveCases
  <2>2. CASE j # i
        BY <2>1, <2>2, <1>4 DEF ActiveCases
  <2>3. CASE j = i
    <3>1. status # "resolved"
          BY <2>1, <2>3, <1>4 DEF ActiveStatuses
    <3>2. incident[i].status \in {"open", "acknowledged"}
          BY <3>1, <1>1, <1>3 DEF CaseRow
    <3> QED BY <3>2, <2>3 DEF ActiveCases, ActiveStatuses
  <2> QED BY <2>2, <2>3
<1>9. IncidentTypeOK'
  <2>1. reopened' \in BOOLEAN
        BY <1>1 DEF IncidentTypeOK
  <2>2. \A j \in Cases : incident'[j].status = "absent" => incident'[j].count = 0
        BY <1>2, <1>4 DEF IncidentTypeOK
  <2> QED BY <1>1, <1>4, <1>5, <2>1, <2>2 DEF IncidentTypeOK
<1>10. EntriesAreOwn'
       BY <1>1, <1>5, <1>7 DEF EntriesAreOwn
<1>11. ActiveIsOne'
       BY <1>1, <1>7, <1>8 DEF ActiveIsOne
<1>12. CountsAddUp'
  <2> SUFFICES ASSUME ~crossed, NEW s \in Signals, Adds(s)
               PROVE  signal[s].count = incident'[signal[s].case].count + 1
      BY <1>1, <1>6, <1>7 DEF CountsAddUp
  <2>1. signal[s].case \in Cases
        BY SignalIs DEF Adds
  <2> QED BY <2>1, <1>4 DEF CountsAddUp
<1>13. FewUnnoticed'
       BY <1>1, <1>5, StillFew
<1>14. NotDue' /\ FirstIsNoticed'
       BY <1>1, <1>5, <1>7 DEF NotDue, FirstIsNoticed, CountInWindow
<1> QED BY <1>9, <1>10, <1>11, <1>12, <1>13, <1>14

\* Entries leave the window, and the log.
LEMMA TimeKeepsInv ==
    ASSUME IncidentInv, (\E e \in Entries : Recede(e)) \/ Prune
    PROVE  IncidentInv'
<1> USE DEF IncidentInv
<1>1. /\ UNCHANGED <<kind, incident, signal, noticed, crossed, cut, reopened>>
      /\ log \in [Entries -> {"absent", "recent", "past", "stale", "deleted"}]
      BY DEF Recede, Prune, IncidentTypeOK
<1>2. /\ log' \in [Entries -> {"absent", "recent", "past", "stale", "deleted"}]
      /\ Logged' = Logged /\ Recent' \subseteq Recent
  <2>1. CASE Prune
        BY <2>1, <1>1 DEF Prune, Stale, Logged, Recent
  <2>2. CASE \E e \in Entries : Recede(e)
    <3>1. PICK e \in Entries : /\ log[e] \in {"recent", "past"}
                               /\ log' = [log EXCEPT ![e] = IF @ = "recent" THEN "past" ELSE "stale"]
          BY <2>2 DEF Recede
    <3>2. /\ log'[e] \in {"past", "stale"}
          /\ \A f \in Entries : f # e => log'[f] = log[f]
          /\ log' \in [Entries -> {"absent", "recent", "past", "stale", "deleted"}]
          BY <3>1, <1>1
    <3> QED BY <3>1, <3>2 DEF Logged, Recent
  <2> QED BY <2>1, <2>2
<1>3. Units' = Units /\ ActiveCases' = ActiveCases /\ Unnoticed' \subseteq Unnoticed
      BY <1>1, <1>2 DEF Units, ActiveCases, Unnoticed, Pending, Adds
<1>4. \A s \in Signals : (Begun(s)' <=> Begun(s)) /\ (Pending(s)' <=> Pending(s)) /\ (Adds(s)' <=> Adds(s))
      BY <1>1 DEF Begun, Pending, Adds
<1>5. CountInWindow' \in Nat /\ CountInWindow' <= CountInWindow /\ CountInWindow \in Nat
      BY <1>2, SetsAreFinite, FS_Subset, FS_CardinalityType DEF CountInWindow
<1>6. IncidentTypeOK'
      BY <1>1, <1>2 DEF IncidentTypeOK
<1>7. EntriesAreOwn' /\ ActiveIsOne' /\ CountsAddUp'
      BY <1>1, <1>2, <1>3, <1>4 DEF EntriesAreOwn, ActiveIsOne, CountsAddUp
<1>8. FewUnnoticed'
      BY <1>1, <1>3, StillFew
<1>9. NotDue'
      BY <1>1, <1>5, ThresholdAssumption DEF NotDue
<1>10. FirstIsNoticed'
       BY <1>1, <1>2, <1>4 DEF FirstIsNoticed
<1> QED BY <1>6, <1>7, <1>8, <1>9, <1>10

LEMMA IncidentNextInv == IncidentInv /\ [IncidentNext]_incidentVars => IncidentInv'
<1> SUFFICES ASSUME IncidentInv, [IncidentNext]_incidentVars
             PROVE  IncidentInv'
    OBVIOUS
<1>1. CASE UNCHANGED incidentVars
  <2>1. UNCHANGED <<kind, log, incident, signal, noticed, crossed, cut, reopened>>
        BY <1>1 DEF incidentVars
  <2>2. UNCHANGED <<Logged, Recent, ActiveCases, Units, CountInWindow, Unnoticed>>
        BY <2>1 DEF Logged, Recent, ActiveCases, Units, CountInWindow, Unnoticed, Pending, Adds
  <2>3. \A s \in Signals : (Begun(s)' <=> Begun(s)) /\ (Pending(s)' <=> Pending(s)) /\ (Adds(s)' <=> Adds(s))
        BY <2>1 DEF Begun, Pending, Adds
  <2>4. (IncidentTypeOK /\ EntriesAreOwn)'
        BY <2>1, <2>2, <2>3 DEF IncidentInv, IncidentTypeOK, EntriesAreOwn
  <2>5. (ActiveIsOne /\ CountsAddUp)'
        BY <2>1, <2>2, <2>3 DEF IncidentInv, ActiveIsOne, CountsAddUp
  <2>6. (FewUnnoticed /\ NotDue /\ FirstIsNoticed)'
        BY <2>1, <2>2, <2>3 DEF IncidentInv, FewUnnoticed, NotDue, FirstIsNoticed
  <2> QED BY <2>4, <2>5, <2>6 DEF IncidentInv
<1> QED BY <1>1, WriteEntryKeepsInv, CountKeepsInv, MatchKeepsInv, CommitSignalKeepsInv,
           DropSignalKeepsInv, ReviewKeepsInv, TimeKeepsInv DEF IncidentNext

LEMMA IncidentAlways == IncidentSpec => []IncidentInv
BY IncidentInitInv, IncidentNextInv, PTL DEF IncidentSpec

\* Signals of one kind are gathered in one active incident, whatever is reviewed and
\* however many signals there are.
THEOREM OneIncidentIsActive == IncidentSpec => []OneActiveIncident
<1>1. IncidentInv => OneActiveIncident
  <2> SUFFICES ASSUME IncidentInv, ~crossed, ~reopened
               PROVE  Cardinality(ActiveCases) <= 1
      BY DEF OneActiveIncident
  <2>1. \A i, j \in ActiveCases : i = j
        BY DEF IncidentInv, ActiveIsOne
  <2>2. CASE ActiveCases = {}
        BY <2>2, FS_EmptySet
  <2>3. CASE ActiveCases # {}
    <3>1. PICK i : ActiveCases = {i}
          BY <2>1, <2>3
    <3> QED BY <3>1, FS_Singleton
  <2> QED BY <2>2, <2>3
<1> QED BY <1>1, IncidentAlways, PTL

\* No signal is forgotten in a count or counted twice, from incident to incident.
THEOREM CountsOfIncidentsAddUp == IncidentSpec => []OccurrencesAddUp
<1>1. IncidentInv => OccurrencesAddUp
      BY DEF IncidentInv, CountsAddUp, OccurrencesAddUp, Total, Units
<1> QED BY <1>1, IncidentAlways, PTL

\* A window that fills is noticed, for every threshold: of those that count before the
\* last one of a burst each may miss it, the last one does not.
THEOREM FullWindowsAreNoticed == IncidentSpec => []BurstsAreNoticed
<1>1. IncidentInv => BurstsAreNoticed
  <2> SUFFICES ASSUME IncidentInv, ~cut, crossed => kind = "failed_login",
                      \A s \in Signals : signal[s] = NoSignal,
                      IF kind = "new_ip_login" THEN CountEver > 0 ELSE CountInWindow >= Threshold
               PROVE  \E e \in noticed : kind = "new_ip_login" \/ log[e] = "recent"
      BY DEF BurstsAreNoticed
  <2>1. \A s \in Signals : ~Pending(s)
        BY DEF Pending, Adds, NoSignal
  <2>2. CASE kind = "new_ip_login"
    <3>1. Logged # {}
          BY <2>2, FS_EmptySet DEF CountEver
    <3>2. noticed # {}
          BY <2>1, <2>2, <3>1 DEF IncidentInv, FirstIsNoticed
    <3> QED BY <2>2, <3>2
  <2>3. CASE kind # "new_ip_login"
    <3>1. Unnoticed = Recent \ noticed
          BY <2>1 DEF Unnoticed
    <3>2. Cardinality(Unnoticed) < Threshold
          BY <2>3 DEF IncidentInv, FewUnnoticed
    <3>3. CountInWindow \in Nat /\ Cardinality(Unnoticed) \in Nat
          BY SetsAreFinite DEF IncidentInv
    <3>4. Unnoticed # Recent
          BY <2>3, <3>2, <3>3, ThresholdAssumption DEF CountInWindow
    <3> QED BY <3>1, <3>4 DEF Recent
  <2> QED BY <2>2, <2>3
<1> QED BY <1>1, IncidentAlways, PTL

(**************************************************************************)
(* Proofs about Notifications, for any number of requests, devices and    *)
(* browsers.                                                              *)
(*                                                                        *)
(* A request during which no other runs has read the preference as it is, *)
(* and computes what it shall be. When no request has still to repeat a   *)
(* change of the devices the preference repeats them all; that there is   *)
(* none yet stands for its defaults.                                      *)
(**************************************************************************)

Fields == {"push", "endpoint"}

IsPreference(p) == p = NoPreference \/ DOMAIN p = Fields

\* What may follow a step in the rest of a call.
NextSteps(step) ==
    CASE step \in {"preference", "insert"} -> {"devices", "enable", "disable"}
      [] step = "devices" -> {"sync"}
      [] step = "sync" -> {"preference"}
      [] step \in {"enable", "disable"} -> {"write"}
      [] OTHER -> {}

Steps == {"preference", "insert", "devices", "sync", "enable", "disable", "write"}

TodoOK(todo) ==
    /\ todo \in Seq(Steps)
    /\ \A n \in 1..Len(todo) - 1 : todo[n + 1] \in NextSteps(todo[n])

IsCall(q) == q = [todo |-> q.todo, loaded |-> q.loaded, sets |-> q.sets]

PushTypeOK ==
    /\ IsPreference(preference)
    /\ alone \in Calls \cup {Nobody}
    /\ stale \in BOOLEAN
    /\ call = [c \in Calls |-> call[c]]
    /\ \A c \in Calls :
          /\ IsCall(call[c])
          /\ TodoOK(call[c].todo)

\* The call during which no other has run is the only one, and without one nothing is
\* believed to be right.
OneAlone ==
    \A c \in Calls :
        call[c] # NotCalled => /\ alone \in Calls => alone = c
                               /\ ~stale => alone = c

\* A call goes on when it has found or made the preference.
HasFound(c) ==
    /\ call[c].todo # <<>>
    /\ Head(call[c].todo) \in {"devices", "sync", "enable", "disable", "write"}

FoundStays == \A c \in Calls : HasFound(c) => preference # NoPreference

\* What a call that runs alone has read is what there is, and what it has computed is
\* what there shall be.
Knows(c) ==
    LET step == Head(call[c].todo) IN
    /\ step \in {"devices", "enable", "disable"} => call[c].loaded = preference
    /\ step = "sync" => /\ Updated(c)["endpoint"] = Endpoint
                        /\ Updated(c)["push"] => ListDevices # {}
    /\ step = "write" => "endpoint" \notin DOMAIN call[c].sets

AloneKnows == \A c \in Calls : alone = c /\ call[c].todo # <<>> => Knows(c)

\* The preference repeats what the devices say; that there is none stands for the
\* defaults.
Repeats ==
    LET p == IF preference = NoPreference THEN DefaultPreference ELSE preference IN
    /\ p.endpoint = Endpoint
    /\ p.push => ListDevices # {} \/ asked

\* A change of the devices is believed to be repeated when no call has still to do so.
RepeatsUnlessToDo ==
    ~stale /\ (\A c \in Calls : "sync" \notin ToSet(call[c].todo)) => Repeats

PushInv ==
    /\ PushTypeOK
    /\ OneAlone
    /\ FoundStays
    /\ AloneKnows
    /\ RepeatsUnlessToDo


-----------------------------------------------------------------------------
(* What calls have still to do.                                            *)

LEMMA TailFacts ==
    ASSUME NEW todo, TodoOK(todo), todo # <<>>
    PROVE  /\ Head(todo) \in Steps
           /\ TodoOK(Tail(todo))
           /\ ToSet(todo) = {Head(todo)} \cup ToSet(Tail(todo))
           /\ Tail(todo) # <<>> => Head(Tail(todo)) \in NextSteps(Head(todo))
<1> DEFINE rest == Tail(todo)
<1>1. /\ todo \in Seq(Steps) /\ \A n \in 1..Len(todo) - 1 : todo[n + 1] \in NextSteps(todo[n])
      BY DEF TodoOK
<1>2. /\ Len(todo) \in Nat /\ Len(todo) # 0 /\ DOMAIN todo = 1..Len(todo)
      /\ Head(todo) = todo[1] /\ Head(todo) \in Steps
      /\ rest \in Seq(Steps) /\ Len(rest) = Len(todo) - 1 /\ DOMAIN rest = 1..Len(rest)
      /\ \A n \in 1..Len(rest) : rest[n] = todo[n + 1]
      /\ rest # <<>> => Len(rest) # 0 /\ Head(rest) = rest[1]
      BY <1>1
<1> HIDE DEF rest
<1>3. TodoOK(rest)
  <2> SUFFICES ASSUME NEW n \in 1..Len(rest) - 1
               PROVE  rest[n + 1] \in NextSteps(rest[n])
      BY <1>2 DEF TodoOK
  <2>1. /\ n \in 1..Len(rest) /\ n + 1 \in 1..Len(rest) /\ n + 1 \in 1..Len(todo) - 1
        BY <1>2
  <2> QED BY <2>1, <1>1, <1>2
<1>4. rest # <<>> => Head(rest) \in NextSteps(Head(todo))
  <2> SUFFICES ASSUME rest # <<>> PROVE Head(rest) \in NextSteps(Head(todo))
      OBVIOUS
  <2>1. 1 \in 1..Len(todo) - 1 /\ 1 \in 1..Len(rest)
        BY <1>2
  <2> QED BY <2>1, <1>1, <1>2
<1>5. ToSet(todo) = {Head(todo)} \cup ToSet(rest)
  <2>1. ToSet(todo) = {todo[n] : n \in 1..Len(todo)} /\ ToSet(rest) = {rest[n] : n \in 1..Len(rest)}
        BY <1>2 DEF ToSet
  <2>2. ASSUME NEW n \in 1..Len(todo)
        PROVE  todo[n] = Head(todo) \/ \E k \in 1..Len(rest) : todo[n] = rest[k]
    <3>1. CASE n = 1
          BY <3>1, <1>2
    <3>2. CASE n # 1
      <4>1. n - 1 \in 1..Len(rest) /\ rest[n - 1] = todo[n]
            BY <3>2, <1>2
      <4> QED BY <4>1
    <3> QED BY <3>1, <3>2
  <2>3. ASSUME NEW k \in 1..Len(rest)
        PROVE  \E n \in 1..Len(todo) : rest[k] = todo[n]
    <3>1. k + 1 \in 1..Len(todo) /\ rest[k] = todo[k + 1]
          BY <1>2
    <3> QED BY <3>1
  <2>4. 1 \in 1..Len(todo)
        BY <1>2
  <2> QED BY <2>1, <2>2, <2>3, <2>4, <1>2
<1> QED BY <1>2, <1>3, <1>4, <1>5 DEF rest

\* An INSERT comes before what was to come after the SELECT.
LEMMA InsertFacts ==
    ASSUME NEW todo, TodoOK(todo), todo # <<>>, Head(todo) = "preference"
    PROVE  LET more == <<"insert">> \o Tail(todo) IN
           /\ TodoOK(more) /\ more # <<>> /\ Head(more) = "insert"
           /\ ToSet(more) = {"insert"} \cup ToSet(Tail(todo))
<1> DEFINE rest == Tail(todo)
           more == <<"insert">> \o rest
<1>1. TodoOK(rest) /\ (rest # <<>> => Head(rest) \in NextSteps("preference"))
      BY TailFacts
<1>2. /\ rest \in Seq(Steps) /\ Len(rest) \in Nat /\ DOMAIN rest = 1..Len(rest)
      /\ rest # <<>> => Head(rest) = rest[1]
      BY <1>1 DEF TodoOK
<1> HIDE DEF rest
<1>3. /\ <<"insert">> \in Seq(Steps) /\ Len(<<"insert">>) = 1
      BY DEF Steps
<1>4. /\ more \in Seq(Steps) /\ Len(more) = Len(rest) + 1 /\ DOMAIN more = 1..Len(more)
      /\ more[1] = "insert" /\ \A n \in 1..Len(rest) : more[n + 1] = rest[n]
      BY <1>2, <1>3
<1> HIDE DEF more
<1>5. more # <<>> /\ Head(more) = "insert"
      BY <1>2, <1>4
<1>6. TodoOK(more)
  <2> SUFFICES ASSUME NEW n \in 1..Len(more) - 1
               PROVE  more[n + 1] \in NextSteps(more[n])
      BY <1>4 DEF TodoOK
  <2>1. CASE n = 1
    <3>1. rest # <<>> /\ more[2] = rest[1]
          BY <2>1, <1>2, <1>4
    <3>2. NextSteps("insert") = NextSteps("preference")
          BY DEF NextSteps
    <3> QED BY <2>1, <3>1, <3>2, <1>1, <1>2, <1>4
  <2>2. CASE n # 1
    <3>1. /\ n - 1 \in 1..Len(rest) - 1 /\ n - 1 \in 1..Len(rest) /\ n \in 1..Len(rest)
          /\ more[n] = rest[n - 1] /\ more[n + 1] = rest[n]
          BY <2>2, <1>2, <1>4
    <3>2. rest[(n - 1) + 1] \in NextSteps(rest[n - 1])
          BY <3>1, <1>1 DEF TodoOK
    <3> QED BY <3>1, <3>2
  <2> QED BY <2>1, <2>2
<1>7. ToSet(more) = {"insert"} \cup ToSet(rest)
  <2>1. ToSet(more) = {more[n] : n \in 1..Len(more)} /\ ToSet(rest) = {rest[n] : n \in 1..Len(rest)}
        BY <1>2, <1>4 DEF ToSet
  <2>2. ASSUME NEW n \in 1..Len(more)
        PROVE  more[n] = "insert" \/ \E k \in 1..Len(rest) : more[n] = rest[k]
    <3>1. CASE n = 1
          BY <3>1, <1>4
    <3>2. CASE n # 1
      <4>1. n - 1 \in 1..Len(rest) /\ rest[n - 1] = more[n]
            BY <3>2, <1>2, <1>4
      <4> QED BY <4>1
    <3> QED BY <3>1, <3>2
  <2>3. ASSUME NEW k \in 1..Len(rest)
        PROVE  \E n \in 1..Len(more) : rest[k] = more[n]
    <3>1. k + 1 \in 1..Len(more) /\ rest[k] = more[k + 1]
          BY <1>2, <1>4
    <3> QED BY <3>1
  <2>4. 1 \in 1..Len(more)
        BY <1>2, <1>4
  <2> QED BY <2>1, <2>2, <2>3, <2>4, <1>4
<1> QED BY <1>5, <1>6, <1>7 DEF more, rest

LEMMA OneAfterAnother ==
    ASSUME NEW s \in Seq(Steps), NEW w \in Seq(Steps)
    PROVE  /\ s \o w \in Seq(Steps) /\ Len(s \o w) = Len(s) + Len(w)
           /\ \A n \in 1..Len(s) : (s \o w)[n] = s[n]
           /\ \A n \in 1..Len(w) : (s \o w)[Len(s) + n] = w[n]
OBVIOUS

LEMMA ThreeAndThree ==
    ASSUME NEW s \in Seq(Steps), NEW w \in Seq(Steps), Len(s) = 3, Len(w) = 3
    PROVE  LET t == s \o w IN
           /\ t \in Seq(Steps) /\ Len(t) = 6 /\ DOMAIN t = 1..6 /\ t # <<>> /\ Head(t) = t[1]
           /\ t[1] = s[1] /\ t[2] = s[2] /\ t[3] = s[3]
           /\ t[4] = w[1] /\ t[5] = w[2] /\ t[6] = w[3]
<1> DEFINE t == s \o w
<1> HIDE DEF t
<1>1. /\ t \in Seq(Steps) /\ Len(t) = Len(s) + Len(w)
      /\ \A n \in 1..Len(s) : t[n] = s[n]
      /\ \A n \in 1..Len(w) : t[Len(s) + n] = w[n]
      BY OneAfterAnother DEF t
<1>2. /\ Len(t) # 0 /\ DOMAIN t = 1..Len(t) /\ t # <<>> /\ Head(t) = t[1]
      BY <1>1
<1>3. 1 \in 1..3 /\ 2 \in 1..3 /\ 3 \in 1..3 /\ 3 + 1 = 4 /\ 3 + 2 = 5 /\ 3 + 3 = 6
      OBVIOUS
<1>4. t[4] = w[1] /\ t[5] = w[2] /\ t[6] = w[3]
      BY <1>1, <1>3
<1> QED BY <1>1, <1>2, <1>3, <1>4 DEF t

\* What the requests begin with.
LEMMA RequestsToDo ==
    /\ TodoOK(<<"preference">>)
    /\ \A step \in {"enable", "disable"} : TodoOK(<<"preference", step, "write">>)
    /\ TodoOK(Sync) /\ Sync # <<>> /\ Head(Sync) = "preference" /\ "sync" \in ToSet(Sync)
    /\ LET todo == Sync \o <<"preference", "enable", "write">> IN
       TodoOK(todo) /\ todo # <<>> /\ Head(todo) = "preference" /\ "sync" \in ToSet(todo)
<1> USE DEF Steps
<1>1. TodoOK(<<"preference">>)
  <2>1. <<"preference">> \in Seq(Steps) /\ Len(<<"preference">>) = 1
        OBVIOUS
  <2> QED BY <2>1 DEF TodoOK
<1>2. ASSUME NEW step \in {"enable", "disable"}
      PROVE  TodoOK(<<"preference", step, "write">>)
  <2> DEFINE t == <<"preference", step, "write">>
  <2>1. t \in Seq(Steps) /\ Len(t) = 3 /\ t[1] = "preference" /\ t[2] = step /\ t[3] = "write"
        OBVIOUS
  <2> HIDE DEF t
  <2>2. step \in NextSteps("preference") /\ "write" \in NextSteps(step)
        BY DEF NextSteps
  <2>3. \A n \in 1..Len(t) - 1 : n = 1 \/ n = 2
        BY <2>1
  <2>4. TodoOK(t)
        BY <2>1, <2>2, <2>3 DEF TodoOK
  <2> QED BY <2>4 DEF t
<1> DEFINE s == <<"preference", "devices", "sync">>
           w == <<"preference", "enable", "write">>
           t == s \o w
<1>3. /\ s \in Seq(Steps) /\ Len(s) = 3 /\ s[1] = "preference" /\ s[2] = "devices" /\ s[3] = "sync"
      /\ s # <<>> /\ Head(s) = "preference" /\ DOMAIN s = 1..3
      OBVIOUS
<1>4. w \in Seq(Steps) /\ Len(w) = 3 /\ w[1] = "preference" /\ w[2] = "enable" /\ w[3] = "write"
      OBVIOUS
<1> HIDE DEF Steps
<1>5. /\ t \in Seq(Steps) /\ Len(t) = 6 /\ t[1] = "preference" /\ t[2] = "devices" /\ t[3] = "sync"
      /\ t[4] = "preference" /\ t[5] = "enable" /\ t[6] = "write"
      /\ t # <<>> /\ Head(t) = "preference" /\ DOMAIN t = 1..6
  <2> HIDE DEF s, w
  <2> QED BY <1>3, <1>4, ThreeAndThree
<1> HIDE DEF s, w, t
<1>6. /\ "devices" \in NextSteps("preference") /\ "sync" \in NextSteps("devices")
      /\ "preference" \in NextSteps("sync") /\ "enable" \in NextSteps("preference")
      /\ "write" \in NextSteps("enable")
      BY DEF NextSteps
<1>7. TodoOK(s) /\ "sync" \in ToSet(s)
  <2>1. \A n \in 1..Len(s) - 1 : n = 1 \/ n = 2
        BY <1>3
  <2>2. TodoOK(s)
        BY <2>1, <1>3, <1>6 DEF TodoOK
  <2>3. 3 \in 1..3
        OBVIOUS
  <2> QED BY <2>2, <2>3, <1>3 DEF ToSet
<1>8. TodoOK(t) /\ "sync" \in ToSet(t)
  <2>1. \A n \in 1..Len(t) - 1 : n \in {1, 2, 3, 4, 5}
        BY <1>5
  <2>2. TodoOK(t)
        BY <2>1, <1>5, <1>6 DEF TodoOK
  <2>3. 3 \in 1..6
        OBVIOUS
  <2> QED BY <2>2, <2>3, <1>5 DEF ToSet
<1>9. Sync = s
      BY DEF Sync, s
<1> QED BY <1>1, <1>2, <1>3, <1>5, <1>7, <1>8, <1>9 DEF t, w


-----------------------------------------------------------------------------
(* The steps of a call.                                                    *)

LEMMA NothingCalled ==
    /\ NotCalled.todo = <<>> /\ IsCall(NotCalled) /\ TodoOK(NotCalled.todo)
    /\ ToSet(NotCalled.todo) = {}
<1>1. NotCalled.todo = <<>> /\ IsCall(NotCalled)
      BY DEF NotCalled, IsCall
<1>2. <<>> \in Seq(Steps) /\ Len(<<>>) = 0 /\ DOMAIN <<>> = {}
      OBVIOUS
<1> QED BY <1>1, <1>2 DEF TodoOK, ToSet

Untold == \A c \in Calls : "sync" \notin ToSet(call[c].todo)

LEMMA OthersAreLeft ==
    ASSUME PushInv, NEW c \in Calls, NEW q, call' = [call EXCEPT ![c] = q]
    PROVE  /\ call' = [x \in Calls |-> call'[x]] /\ call'[c] = q
           /\ \A x \in Calls : x # c => call'[x] = call[x]
BY DEF PushInv, PushTypeOK

\* A step of a call that has begun.
LEMMA StepKeepsInv ==
    ASSUME PushInv, NEW c \in Calls, call[c] # NotCalled,
           NEW q, call' = [call EXCEPT ![c] = q], IsCall(q), TodoOK(q.todo),
           alone' = alone, stale' \in BOOLEAN, ~stale' => ~stale \/ alone = c,
           IsPreference(preference'),
           preference # NoPreference \/ HasFound(c)' => preference' # NoPreference,
           alone = c /\ q.todo # <<>> => Knows(c)',
           ~stale' /\ Untold' => Repeats'
    PROVE  PushInv'
<1>1. /\ call' = [x \in Calls |-> call'[x]] /\ call'[c] = q
      /\ \A x \in Calls : x # c => call'[x] = call[x]
      BY OthersAreLeft
<1>2. \A x \in Calls : alone = x /\ call[x] # NotCalled => x = c
      BY DEF PushInv, OneAlone
<1>3. PushTypeOK'
  <2>1. \A x \in Calls : IsCall(call'[x]) /\ TodoOK(call'[x].todo)
        BY <1>1 DEF PushInv, PushTypeOK
  <2> QED BY <1>1, <2>1 DEF PushInv, PushTypeOK
<1>4. OneAlone'
      BY <1>1, <1>2 DEF PushInv, OneAlone, PushTypeOK
<1>5. FoundStays'
  <2> SUFFICES ASSUME NEW x \in Calls, HasFound(x)'
               PROVE  preference' # NoPreference
      BY DEF FoundStays
  <2>1. CASE x # c
    <3>1. HasFound(x)
          BY <2>1, <1>1 DEF HasFound
    <3> QED BY <3>1 DEF PushInv, FoundStays
  <2> QED BY <2>1
<1>6. AloneKnows'
  <2> SUFFICES ASSUME NEW x \in Calls, alone = x, call'[x].todo # <<>>
               PROVE  Knows(x)'
      BY DEF AloneKnows
  <2>1. CASE x = c
        BY <2>1, <1>1
  <2>2. CASE x # c
    <3>1. call[x] # NotCalled
          BY <2>2, <1>1, NothingCalled
    <3> QED BY <2>2, <3>1, <1>2
  <2> QED BY <2>1, <2>2
<1>7. RepeatsUnlessToDo'
      BY DEF RepeatsUnlessToDo, Untold
<1> QED BY <1>3, <1>4, <1>5, <1>6, <1>7 DEF PushInv

\* What a step that goes on makes of the call.
LEMMA GoesOn ==
    ASSUME NEW q, IsCall(q), TodoOK(q.todo), q.todo # <<>>
    PROVE  LET rest == Tail(q.todo)
               next == IF rest = <<>> THEN NotCalled ELSE [q EXCEPT !.todo = rest] IN
           /\ IsCall(next) /\ TodoOK(next.todo) /\ next.todo = rest
           /\ next.todo # <<>> => /\ next.loaded = q.loaded /\ next.sets = q.sets
                                  /\ Head(next.todo) \in NextSteps(Head(q.todo))
           /\ ToSet(q.todo) = {Head(q.todo)} \cup ToSet(next.todo)
<1> DEFINE rest == Tail(q.todo)
           next == IF rest = <<>> THEN NotCalled ELSE [q EXCEPT !.todo = rest]
<1>1. /\ TodoOK(rest) /\ ToSet(q.todo) = {Head(q.todo)} \cup ToSet(rest)
      /\ rest # <<>> => Head(rest) \in NextSteps(Head(q.todo))
      BY TailFacts
<1> HIDE DEF rest
<1>2. /\ IsCall(next) /\ next.todo = rest
      /\ rest # <<>> => next.loaded = q.loaded /\ next.sets = q.sets
  <2>1. CASE rest = <<>>
        BY <2>1, NothingCalled
  <2>2. CASE rest # <<>>
    <3>1. next = [q EXCEPT !.todo = rest]
          BY <2>2
    <3> HIDE DEF next
    <3> QED BY <3>1 DEF IsCall
  <2> QED BY <2>1, <2>2
<1> HIDE DEF next
<1>3. /\ IsCall(next) /\ TodoOK(next.todo) /\ next.todo = rest
      /\ next.todo # <<>> => /\ next.loaded = q.loaded /\ next.sets = q.sets
                             /\ Head(next.todo) \in NextSteps(Head(q.todo))
      /\ ToSet(q.todo) = {Head(q.todo)} \cup ToSet(next.todo)
      BY <1>1, <1>2
<1> QED BY <1>3 DEF next, rest

\* A call in progress, and what is believed of it.
LEMMA CallIs ==
    ASSUME PushInv, NEW c \in Calls, call[c].todo # <<>>
    PROVE  /\ call[c] # NotCalled /\ IsCall(call[c]) /\ TodoOK(call[c].todo)
           /\ Head(call[c].todo) \in Steps
           /\ HasFound(c) => preference # NoPreference
           /\ alone = c => Knows(c)
           /\ ~stale => alone = c
<1>1. call[c] # NotCalled
      BY NothingCalled
<1> QED BY <1>1, TailFacts DEF PushInv, PushTypeOK, OneAlone, FoundStays, AloneKnows

\* What has not to be repeated after a step need not have been before.
LEMMA UntoldBefore ==
    ASSUME PushInv, NEW c \in Calls, NEW q, call' = [call EXCEPT ![c] = q],
           "sync" \in ToSet(call[c].todo) => "sync" \in ToSet(q.todo),
           Untold', ~stale
    PROVE  Repeats
<1>1. call'[c] = q /\ \A x \in Calls : x # c => call'[x] = call[x]
      BY OthersAreLeft
<1>2. Untold
      BY <1>1 DEF Untold
<1> QED BY <1>2 DEF PushInv, RepeatsUnlessToDo, Untold

LEMMA CutShortKeepsInv ==
    ASSUME PushInv, NEW c \in Calls, call[c] # NotCalled, Breaks(c),
           UNCHANGED <<active, seen, preference, alone, asked>>
    PROVE  PushInv'
<1>1. /\ call' = [call EXCEPT ![c] = NotCalled]
      /\ stale' = (stale \/ "sync" \in ToSet(call[c].todo))
      /\ UNCHANGED <<active, seen, preference, alone, asked>>
      BY DEF Breaks
<1>2. stale \in BOOLEAN /\ IsPreference(preference)
      BY DEF PushInv, PushTypeOK
<1>3. Repeats' <=> Repeats
      BY <1>1 DEF Repeats, ListDevices, Endpoint
<1>4. ~stale' /\ Untold' => Repeats
  <2> SUFFICES ASSUME ~stale', Untold' PROVE Repeats
      OBVIOUS
  <2>1. ~stale /\ "sync" \notin ToSet(call[c].todo)
        BY <1>1
  <2> QED BY <1>1, <2>1, UntoldBefore
<1>5. /\ IsPreference(preference') /\ (NotCalled.todo # <<>> => Knows(c)')
      /\ ~HasFound(c)'
      BY <1>1, <1>2, NothingCalled, OthersAreLeft DEF IsPreference, HasFound
<1>6. stale' \in BOOLEAN /\ (~stale' => ~stale)
      BY <1>1, <1>2
<1> QED BY <1>1, <1>3, <1>4, <1>5, <1>6, NothingCalled, StepKeepsInv


LEMMA Preferences ==
    /\ NoPreference # DefaultPreference /\ IsPreference(DefaultPreference)
    /\ \A p : DOMAIN p = Fields => p # NoPreference
<1>1. DOMAIN NoPreference = {"none"}
      BY DEF NoPreference
<1>2. DOMAIN DefaultPreference = Fields
      BY DEF DefaultPreference, Fields
<1> QED BY <1>1, <1>2 DEF Fields, IsPreference

\* Each step hands over to the next.
LEMMA WhatFollows ==
    /\ NextSteps("preference") = {"devices", "enable", "disable"}
    /\ NextSteps("insert") = {"devices", "enable", "disable"}
    /\ NextSteps("devices") = {"sync"}
    /\ NextSteps("sync") = {"preference"}
    /\ NextSteps("enable") = {"write"} /\ NextSteps("disable") = {"write"}
    /\ NextSteps("write") = {}
BY DEF NextSteps

\* A step that takes c from its first step to the next, with what it then has loaded
\* and sets.
LEMMA GoingKeepsInv ==
    ASSUME PushInv, NEW c \in Calls, call[c].todo # <<>>,
           NEW q, IsCall(q), q.todo = call[c].todo, Goes(c, q),
           alone' = alone, stale' \in BOOLEAN, ~stale' => ~stale \/ alone = c,
           IsPreference(preference'), preference # NoPreference => preference' # NoPreference,
           Head(q.todo) \in {"preference", "insert"} => preference' # NoPreference,
           Head(q.todo) # "sync" => stale' = stale,
           alone = c =>
               CASE Head(q.todo) \in {"preference", "insert"} -> q.loaded = preference'
                 [] Head(q.todo) = "devices" ->
                       LET updated == [f \in DOMAIN preference' |->
                                          IF f \in DOMAIN q.sets THEN q.sets[f] ELSE preference'[f]] IN
                       /\ updated["endpoint"] = Endpoint'
                       /\ updated["push"] => ListDevices' # {}
                 [] Head(q.todo) \in {"enable", "disable"} -> "endpoint" \notin DOMAIN q.sets
                 [] OTHER -> TRUE,
           ~stale' /\ (Head(q.todo) # "sync" => Repeats) => Repeats'
    PROVE  PushInv'
<1> DEFINE rest == Tail(q.todo)
           next == IF rest = <<>> THEN NotCalled ELSE [q EXCEPT !.todo = rest]
           step == Head(q.todo)
<1>1. /\ call[c] # NotCalled /\ TodoOK(q.todo) /\ step \in Steps
      /\ HasFound(c) => preference # NoPreference
      /\ ~stale => alone = c
      BY CallIs
<1>2. /\ IsCall(next) /\ TodoOK(next.todo) /\ next.todo = rest
      /\ next.todo # <<>> => /\ next.loaded = q.loaded /\ next.sets = q.sets
                             /\ Head(next.todo) \in NextSteps(step)
      /\ ToSet(q.todo) = {step} \cup ToSet(next.todo)
      BY <1>1, GoesOn
<1>3. call' = [call EXCEPT ![c] = next]
      BY DEF Goes
<1> HIDE DEF next, rest
<1>4. call'[c] = next
      BY <1>3, OthersAreLeft
<1>5. preference # NoPreference \/ HasFound(c)' => preference' # NoPreference
  <2> SUFFICES ASSUME HasFound(c)', preference = NoPreference, step \notin {"preference", "insert"}
               PROVE  FALSE
      OBVIOUS
  <2>1. next.todo # <<>> /\ Head(next.todo) \in NextSteps(step)
        BY <1>2, <1>4 DEF HasFound
  <2>2. step \in {"devices", "sync", "enable", "disable", "write"}
        BY <1>1 DEF Steps
  <2> QED BY <2>2, <1>1 DEF HasFound
<1>6. ASSUME alone = c, next.todo # <<>>
      PROVE  Knows(c)'
  <2>1. /\ call'[c].loaded = q.loaded /\ call'[c].sets = q.sets
        /\ Head(call'[c].todo) \in NextSteps(step)
        BY <1>2, <1>4, <1>6
  <2>2. CASE step \in {"preference", "insert"}
    <3>1. Head(call'[c].todo) \in {"devices", "enable", "disable"}
          BY <2>1, <2>2, WhatFollows
    <3>2. q.loaded = preference'
          BY <1>6, <2>2
    <3> QED BY <2>1, <3>1, <3>2 DEF Knows
  <2>3. CASE step = "devices"
    <3>1. Head(call'[c].todo) = "sync"
          BY <2>1, <2>3, WhatFollows
    <3>2. /\ Updated(c)'["endpoint"] = Endpoint'
          /\ Updated(c)'["push"] => ListDevices' # {}
          BY <1>6, <2>1, <2>3 DEF Updated
    <3> QED BY <3>1, <3>2 DEF Knows
  <2>4. CASE step \in {"enable", "disable"}
    <3>1. Head(call'[c].todo) = "write"
          BY <2>1, <2>4, WhatFollows
    <3>2. "endpoint" \notin DOMAIN q.sets
          BY <1>6, <2>4
    <3> QED BY <2>1, <3>1, <3>2 DEF Knows
  <2>5. CASE step \in {"sync", "write"}
    <3>1. Head(call'[c].todo) = "preference"
          BY <2>1, <2>5, WhatFollows
    <3> QED BY <3>1 DEF Knows
  <2> QED BY <1>1, <2>2, <2>3, <2>4, <2>5 DEF Steps
<1>7. ~stale' /\ Untold' => Repeats'
  <2> SUFFICES ASSUME ~stale', Untold', step # "sync"
               PROVE  Repeats
      OBVIOUS
  <2>1. "sync" \in ToSet(call[c].todo) => "sync" \in ToSet(next.todo)
        BY <1>2
  <2>2. ~stale
        OBVIOUS
  <2> QED BY <2>1, <2>2, <1>3, UntoldBefore
<1> QED BY <1>1, <1>2, <1>3, <1>5, <1>6, <1>7, StepKeepsInv


LEMMA LoadPreferenceKeepsInv ==
    ASSUME PushInv, NEW c \in Calls, LoadPreference(c)
    PROVE  PushInv'
<1>1. /\ call[c].todo # <<>> /\ Head(call[c].todo) = "preference"
      /\ UNCHANGED <<active, seen, preference, alone, stale, asked>>
      BY DEF LoadPreference, Does
<1>2. /\ call[c] # NotCalled /\ IsCall(call[c]) /\ TodoOK(call[c].todo)
      /\ IsPreference(preference) /\ stale \in BOOLEAN
      BY <1>1, CallIs DEF PushInv, PushTypeOK
<1>3. Repeats' <=> Repeats
      BY <1>1 DEF Repeats, ListDevices, Endpoint
<1>4. CASE preference = NoPreference
  <2> DEFINE more == <<"insert">> \o Tail(call[c].todo)
             q == [call[c] EXCEPT !.todo = more]
  <2>1. call' = [call EXCEPT ![c] = q]
        BY <1>4 DEF LoadPreference
  <2>2. /\ TodoOK(more) /\ more # <<>> /\ Head(more) = "insert"
        /\ ToSet(more) = {"insert"} \cup ToSet(Tail(call[c].todo))
        BY <1>1, <1>2, InsertFacts
  <2> HIDE DEF more
  <2>3. q.todo = more /\ IsCall(q)
        BY <1>2 DEF IsCall
  <2>4. ToSet(call[c].todo) = {"preference"} \cup ToSet(Tail(call[c].todo))
        BY <1>1, <1>2, TailFacts
  <2> HIDE DEF q
  <2>5. call'[c] = q
        BY <2>1, OthersAreLeft
  <2>6. Knows(c)' /\ ~HasFound(c)'
        BY <2>2, <2>3, <2>5 DEF Knows, HasFound
  <2>7. ~stale' /\ Untold' => Repeats'
        BY <1>1, <1>3, <2>1, <2>2, <2>3, <2>4, UntoldBefore
  <2>8. IsPreference(preference') /\ TodoOK(q.todo)
        BY <1>1, <1>2, <2>2, <2>3 DEF IsPreference
  <2> QED BY <1>1, <1>2, <2>1, <2>3, <2>6, <2>7, <2>8, StepKeepsInv
<1>5. CASE preference # NoPreference
  <2> DEFINE q == [call[c] EXCEPT !.loaded = preference]
  <2>1. Goes(c, q)
        BY <1>5 DEF LoadPreference
  <2>2. IsCall(q) /\ q.todo = call[c].todo /\ q.loaded = preference
        BY <1>2 DEF IsCall
  <2> HIDE DEF q
  <2>3. IsPreference(preference')
        BY <1>1, <1>2 DEF IsPreference
  <2> QED BY <1>1, <1>2, <1>3, <1>5, <2>1, <2>2, <2>3, GoingKeepsInv
<1> QED BY <1>4, <1>5

LEMMA InsertPreferenceKeepsInv ==
    ASSUME PushInv, NEW c \in Calls, InsertPreference(c)
    PROVE  PushInv'
<1>1. /\ call[c].todo # <<>> /\ Head(call[c].todo) = "insert"
      /\ UNCHANGED <<active, seen, alone, asked>>
      BY DEF InsertPreference, Does
<1>2. /\ call[c] # NotCalled /\ IsCall(call[c]) /\ stale \in BOOLEAN
      BY <1>1, CallIs DEF PushInv, PushTypeOK
<1>3. CASE preference = NoPreference
  <2> DEFINE q == [call[c] EXCEPT !.loaded = DefaultPreference]
  <2>1. Goes(c, q) /\ preference' = DefaultPreference /\ stale' = stale
        BY <1>3 DEF InsertPreference
  <2>2. IsCall(q) /\ q.todo = call[c].todo /\ q.loaded = DefaultPreference
        BY <1>2 DEF IsCall
  <2> HIDE DEF q
  <2>3. IsPreference(preference') /\ preference' # NoPreference
        BY <2>1, Preferences
  <2>4. Repeats => Repeats'
        BY <1>1, <1>3, <2>1, <2>3 DEF Repeats, ListDevices, Endpoint
  <2> QED BY <1>1, <1>2, <1>3, <2>1, <2>2, <2>3, <2>4, GoingKeepsInv
<1>4. CASE preference # NoPreference
  <2>1. Breaks(c) /\ UNCHANGED <<active, seen, preference, alone, asked>>
        BY <1>1, <1>4 DEF InsertPreference
  <2> QED BY <1>2, <2>1, CutShortKeepsInv
<1> QED BY <1>3, <1>4

LEMMA DirtyIs ==
    ASSUME NEW c, NEW columns
    PROVE  LET sets == DirtyColumns(c, columns) IN
           /\ \A f : f \in DOMAIN sets <=> f \in DOMAIN columns /\ columns[f] # call[c].loaded[f]
           /\ \A f \in DOMAIN sets : sets[f] = columns[f]
BY DEF DirtyColumns

\* What is not written is as it was read: when no other call has run, the row becomes
\* what was computed.
LEMMA LoadDevicesKeepsInv ==
    ASSUME PushInv, NEW c \in Calls, LoadDevices(c)
    PROVE  PushInv'
<1> DEFINE columns == [endpoint |-> Endpoint,
                       push |-> call[c].loaded.push /\ ListDevices # {}]
           sets == DirtyColumns(c, columns)
           q == [call[c] EXCEPT !.sets = sets]
<1>1. /\ call[c].todo # <<>> /\ Head(call[c].todo) = "devices"
      /\ Goes(c, q)
      /\ UNCHANGED <<active, seen, preference, alone, stale, asked>>
      BY DEF LoadDevices, Does
<1>2. DOMAIN columns = Fields /\ columns["endpoint"] = Endpoint
      BY DEF Fields
<1>3. columns["push"] => ListDevices # {}
      OBVIOUS
<1> HIDE DEF columns
<1>4. /\ \A f : f \in DOMAIN sets <=> f \in Fields /\ columns[f] # call[c].loaded[f]
      /\ \A f \in DOMAIN sets : sets[f] = columns[f]
      BY <1>2, DirtyIs
<1> HIDE DEF sets
<1>5. /\ call[c] # NotCalled /\ IsCall(call[c]) /\ stale \in BOOLEAN
      /\ IsPreference(preference) /\ preference # NoPreference
      /\ alone = c => call[c].loaded = preference
      BY <1>1, CallIs DEF PushInv, PushTypeOK, HasFound, Knows
<1>6. IsCall(q) /\ q.todo = call[c].todo /\ q.sets = sets
      BY <1>5 DEF IsCall
<1> HIDE DEF q
<1> DEFINE updated == [f \in DOMAIN preference |-> IF f \in DOMAIN sets THEN sets[f] ELSE preference[f]]
<1>7. alone = c => updated["endpoint"] = columns["endpoint"] /\ updated["push"] = columns["push"]
  <2> SUFFICES ASSUME alone = c, NEW f \in Fields
               PROVE  updated[f] = columns[f]
      BY DEF Fields
  <2>1. DOMAIN preference = Fields /\ call[c].loaded = preference
        BY <1>5 DEF IsPreference
  <2> QED BY <2>1, <1>4
<1>8. ListDevices' = ListDevices /\ Endpoint' = Endpoint
      BY <1>1 DEF ListDevices, Endpoint
<1>9. (Repeats' <=> Repeats) /\ IsPreference(preference')
      BY <1>1, <1>5, <1>8 DEF Repeats, IsPreference
<1>10. alone = c =>
           LET u == [f \in DOMAIN preference' |-> IF f \in DOMAIN q.sets THEN q.sets[f] ELSE preference'[f]] IN
           u["endpoint"] = Endpoint' /\ (u["push"] => ListDevices' # {})
  <2>1. updated = [f \in DOMAIN preference' |-> IF f \in DOMAIN q.sets THEN q.sets[f] ELSE preference'[f]]
        BY <1>1, <1>6
  <2> HIDE DEF updated
  <2> QED BY <2>1, <1>2, <1>3, <1>7, <1>8
<1> QED BY <1>1, <1>5, <1>6, <1>9, <1>10, GoingKeepsInv

LEMMA SetPushKeepsInv ==
    ASSUME PushInv, NEW c \in Calls, SetPush(c)
    PROVE  PushInv'
<1> DEFINE columns == [push |-> Does(c, "enable")]
           sets == DirtyColumns(c, columns)
           q == [call[c] EXCEPT !.sets = sets]
<1>1. /\ call[c].todo # <<>> /\ Head(call[c].todo) \in {"enable", "disable"}
      /\ Goes(c, q)
      /\ UNCHANGED <<active, seen, preference, alone, stale, asked>>
      BY DEF SetPush, Does
<1>2. DOMAIN sets \subseteq {"push"}
  <2>1. DOMAIN columns = {"push"}
        OBVIOUS
  <2> HIDE DEF columns
  <2> QED BY <2>1, DirtyIs
<1> HIDE DEF sets
<1>3. /\ IsCall(call[c]) /\ stale \in BOOLEAN /\ IsPreference(preference) /\ preference # NoPreference
      BY <1>1, CallIs DEF PushInv, PushTypeOK, HasFound
<1>4. IsCall(q) /\ q.todo = call[c].todo /\ q.sets = sets
      BY <1>3 DEF IsCall
<1> HIDE DEF q
<1>5. (Repeats' <=> Repeats) /\ IsPreference(preference') /\ "endpoint" \notin DOMAIN q.sets
      BY <1>1, <1>2, <1>3, <1>4 DEF Repeats, ListDevices, Endpoint, IsPreference
<1> QED BY <1>1, <1>3, <1>4, <1>5, GoingKeepsInv

LEMMA CommitSyncKeepsInv ==
    ASSUME PushInv, NEW c \in Calls, CommitSync(c)
    PROVE  PushInv'
<1> DEFINE q == [call[c] EXCEPT !.sets = <<>>]
<1>1. /\ call[c].todo # <<>> /\ Head(call[c].todo) = "sync"
      /\ Goes(c, q) /\ preference' = Updated(c)
      /\ stale' = (stale /\ alone # c) /\ UNCHANGED <<active, seen, alone>>
      BY DEF CommitSync, Does
<1>2. /\ IsCall(call[c]) /\ stale \in BOOLEAN /\ IsPreference(preference) /\ preference # NoPreference
      /\ ~stale => alone = c
      BY <1>1, CallIs DEF PushInv, PushTypeOK, HasFound
<1>3. IsCall(q) /\ q.todo = call[c].todo
      BY <1>2 DEF IsCall
<1> HIDE DEF q
<1>4. DOMAIN preference' = Fields
      BY <1>1, <1>2 DEF Updated, IsPreference
<1>5. IsPreference(preference') /\ preference' # NoPreference
      BY <1>4, Preferences DEF IsPreference
<1>6. alone = c => /\ preference'["endpoint"] = Endpoint
                   /\ preference'["push"] => ListDevices # {}
  <2>1. alone = c => /\ Updated(c)["endpoint"] = Endpoint
                     /\ Updated(c)["push"] => ListDevices # {}
        BY <1>1, CallIs DEF Knows
  <2> QED BY <2>1, <1>1
<1>7. ListDevices' = ListDevices /\ Endpoint' = Endpoint
      BY <1>1 DEF ListDevices, Endpoint
<1>8. ~stale' => Repeats'
      BY <1>1, <1>2, <1>5, <1>6, <1>7 DEF Repeats
<1>9. stale' \in BOOLEAN /\ (~stale' => ~stale \/ alone = c)
      BY <1>1, <1>2
<1> QED BY <1>1, <1>2, <1>3, <1>5, <1>8, <1>9, GoingKeepsInv

LEMMA CommitPushKeepsInv ==
    ASSUME PushInv, NEW c \in Calls, CommitPush(c)
    PROVE  PushInv'
<1>1. /\ call[c].todo # <<>> /\ Head(call[c].todo) = "write"
      /\ Goes(c, call[c]) /\ preference' = Updated(c) /\ asked' = preference'.push
      /\ UNCHANGED <<active, seen, alone, stale>>
      BY DEF CommitPush, Does
<1>2. /\ IsCall(call[c]) /\ stale \in BOOLEAN /\ IsPreference(preference) /\ preference # NoPreference
      /\ ~stale => alone = c
      /\ alone = c => "endpoint" \notin DOMAIN call[c].sets
      BY <1>1, CallIs DEF PushInv, PushTypeOK, HasFound, Knows
<1>3. DOMAIN preference' = Fields
      BY <1>1, <1>2 DEF Updated, IsPreference
<1>4. IsPreference(preference') /\ preference' # NoPreference
      BY <1>3, Preferences DEF IsPreference
<1>5. alone = c => preference'["endpoint"] = preference["endpoint"]
      BY <1>1, <1>2, <1>3 DEF Updated, Fields
<1>6. ListDevices' = ListDevices /\ Endpoint' = Endpoint
      BY <1>1 DEF ListDevices, Endpoint
<1>7. ~stale /\ Repeats => Repeats'
      BY <1>1, <1>2, <1>4, <1>5, <1>6 DEF Repeats
<1> QED BY <1>1, <1>2, <1>4, <1>7, GoingKeepsInv


-----------------------------------------------------------------------------
(* Requests.                                                               *)

LEMMA RequestBegins ==
    ASSUME PushInv, NEW c \in Calls, NEW todo, BeginCall(c, todo),
           TodoOK(todo), todo # <<>>, Head(todo) = "preference",
           "sync" \in ToSet(todo) \/ UNCHANGED <<active, seen>>
    PROVE  PushInv'
<1> DEFINE q == [call[c] EXCEPT !.todo = todo]
<1>1. /\ call[c] = NotCalled /\ call' = [call EXCEPT ![c] = q]
      /\ alone' = IF Busy = {} THEN c ELSE Nobody
      /\ stale' = (stale \/ Busy # {})
      /\ UNCHANGED <<preference, asked>>
      BY DEF BeginCall
<1>2. /\ IsPreference(preference) /\ stale \in BOOLEAN /\ alone \in Calls \cup {Nobody}
      /\ IsCall(call[c]) /\ call[c].todo = <<>>
      BY <1>1, NothingCalled DEF PushInv, PushTypeOK
<1>3. IsCall(q) /\ q.todo = todo /\ q # NotCalled
  <2>1. IsCall(q) /\ q.todo = todo
        BY <1>2 DEF IsCall
  <2> HIDE DEF q
  <2> QED BY <2>1, NothingCalled
<1> HIDE DEF q
<1>4. /\ call' = [x \in Calls |-> call'[x]] /\ call'[c] = q
      /\ \A x \in Calls : x # c => call'[x] = call[x]
      BY <1>1, OthersAreLeft
<1>5. Busy = {} => \A x \in Calls : x # c => call'[x] = NotCalled
      BY <1>4 DEF Busy
<1>6. PushTypeOK'
  <2>1. \A x \in Calls : IsCall(call'[x]) /\ TodoOK(call'[x].todo)
        BY <1>3, <1>4 DEF PushInv, PushTypeOK
  <2>2. stale' \in BOOLEAN /\ alone' \in Calls \cup {Nobody}
        BY <1>1, <1>2
  <2> QED BY <1>1, <1>2, <1>4, <2>1, <2>2 DEF PushTypeOK, IsPreference
<1>7. OneAlone'
      BY <1>1, <1>5, CallAssumption DEF OneAlone
<1>8. FoundStays'
  <2> SUFFICES ASSUME NEW x \in Calls, HasFound(x)'
               PROVE  preference # NoPreference
      BY <1>1 DEF FoundStays
  <2>1. x # c
        BY <1>3, <1>4 DEF HasFound
  <2>2. HasFound(x)
        BY <2>1, <1>4 DEF HasFound
  <2> QED BY <2>2 DEF PushInv, FoundStays
<1>9. AloneKnows'
  <2> SUFFICES ASSUME NEW x \in Calls, alone' = x, call'[x].todo # <<>>
               PROVE  Knows(x)'
      BY DEF AloneKnows
  <2>1. Busy = {} /\ x = c
        BY <1>1, CallAssumption
  <2> QED BY <2>1, <1>3, <1>4 DEF Knows
<1>10. RepeatsUnlessToDo'
  <2> SUFFICES ASSUME ~stale', Untold'
               PROVE  Repeats'
      BY DEF RepeatsUnlessToDo, Untold
  <2>1. UNCHANGED <<active, seen>>
        BY <1>3, <1>4 DEF Untold
  <2>2. "sync" \in ToSet(call[c].todo) => "sync" \in ToSet(q.todo)
        BY <1>1, NothingCalled
  <2>3. Repeats
        BY <1>1, <2>2, UntoldBefore
  <2> QED BY <1>1, <2>1, <2>3 DEF Repeats, ListDevices, Endpoint
<1> QED BY <1>6, <1>7, <1>8, <1>9, <1>10 DEF PushInv

LEMMA RequestKeepsPush ==
    ASSUME PushInv, NEW c \in Calls,
           \/ \E d \in Devices : Register(c, d) \/ RemoveDevice(c, d)
           \/ RemoveSubscription(c)
           \/ \E push \in BOOLEAN : PatchPreference(c, push)
           \/ ReadPreference(c)
    PROVE  PushInv'
<1>1. CASE \E d \in Devices : Register(c, d)
  <2> DEFINE todo == Sync \o <<"preference", "enable", "write">>
  <2>1. BeginCall(c, todo)
        BY <1>1 DEF Register
  <2>2. TodoOK(todo) /\ todo # <<>> /\ Head(todo) = "preference" /\ "sync" \in ToSet(todo)
        BY RequestsToDo
  <2> HIDE DEF todo
  <2> QED BY <2>1, <2>2, RequestBegins
<1>2. CASE RemoveSubscription(c) \/ \E d \in Devices : RemoveDevice(c, d)
  <2>1. BeginCall(c, Sync)
        BY <1>2 DEF RemoveSubscription, RemoveDevice
  <2> QED BY <2>1, RequestsToDo, RequestBegins
<1>3. CASE \E push \in BOOLEAN : PatchPreference(c, push)
  <2>1. PICK push \in BOOLEAN : PatchPreference(c, push)
        BY <1>3
  <2> DEFINE step == IF push THEN "enable" ELSE "disable"
  <2>2. step \in {"enable", "disable"}
        OBVIOUS
  <2>3. BeginCall(c, <<"preference", step, "write">>) /\ UNCHANGED <<active, seen>>
        BY <2>1 DEF PatchPreference
  <2> HIDE DEF step
  <2>4. /\ TodoOK(<<"preference", step, "write">>)
        /\ <<"preference", step, "write">> # <<>> /\ Head(<<"preference", step, "write">>) = "preference"
        BY <2>2, RequestsToDo
  <2> QED BY <2>3, <2>4, RequestBegins
<1>4. CASE ReadPreference(c)
  <2>1. BeginCall(c, <<"preference">>) /\ UNCHANGED <<active, seen>>
        BY <1>4 DEF ReadPreference
  <2>2. TodoOK(<<"preference">>) /\ <<"preference">> # <<>> /\ Head(<<"preference">>) = "preference"
        BY RequestsToDo
  <2> QED BY <2>1, <2>2, RequestBegins
<1> QED BY <1>1, <1>2, <1>3, <1>4

LEMMA PushInitInv == PushInit => PushInv
<1> SUFFICES ASSUME PushInit PROVE PushInv
    OBVIOUS
<1>1. /\ call = [c \in Calls |-> NotCalled] /\ \A c \in Calls : call[c] = NotCalled
      /\ preference = NoPreference /\ alone = Nobody /\ stale = FALSE
      BY DEF PushInit
<1>2. PushTypeOK
  <2>1. call = [c \in Calls |-> call[c]]
        BY <1>1
  <2> QED BY <1>1, <2>1, NothingCalled DEF PushTypeOK, IsPreference
<1>3. OneAlone /\ FoundStays /\ AloneKnows
      BY <1>1, NothingCalled DEF OneAlone, FoundStays, HasFound, AloneKnows
<1>4. RepeatsUnlessToDo
  <2>1. DOMAIN seen = {}
        BY DEF PushInit
  <2>2. Endpoint = NoEndpoint
        BY <2>1 DEF ListDevices, Endpoint
  <2> QED BY <1>1, <2>2 DEF RepeatsUnlessToDo, Repeats, DefaultPreference
<1> QED BY <1>2, <1>3, <1>4 DEF PushInv

LEMMA PushNextInv == PushInv /\ [PushNext]_pushVars => PushInv'
<1> SUFFICES ASSUME PushInv, [PushNext]_pushVars
             PROVE  PushInv'
    OBVIOUS
<1>1. CASE UNCHANGED pushVars
  <2>1. UNCHANGED <<active, seen, preference, call, alone, stale, asked>>
        BY <1>1 DEF pushVars
  <2>2. (PushTypeOK /\ OneAlone /\ FoundStays)'
        BY <2>1 DEF PushInv, PushTypeOK, OneAlone, FoundStays, HasFound, IsPreference
  <2>3. (AloneKnows /\ RepeatsUnlessToDo)'
        BY <2>1 DEF PushInv, AloneKnows, RepeatsUnlessToDo, Knows, Repeats, ListDevices, Endpoint, Updated
  <2> QED BY <2>2, <2>3 DEF PushInv
<1>2. ASSUME NEW c \in Calls, CutShort(c)
      PROVE  PushInv'
      BY <1>2, CutShortKeepsInv DEF CutShort
<1> QED BY <1>1, <1>2, RequestKeepsPush, LoadPreferenceKeepsInv, InsertPreferenceKeepsInv,
           LoadDevicesKeepsInv, CommitSyncKeepsInv, SetPushKeepsInv, CommitPushKeepsInv DEF PushNext

\* When nothing is in progress and nothing was left undone, the preference repeats the
\* devices.
THEOREM PreferenceIsKept == PushSpec => []PreferenceFollowsDevices
<1>1. PushInv => PreferenceFollowsDevices
  <2> SUFFICES ASSUME PushInv, Busy = {}, ~stale, preference # NoPreference
               PROVE  /\ preference.endpoint = Endpoint
                      /\ preference.push => ListDevices # {} \/ asked
      BY DEF PreferenceFollowsDevices
  <2>1. \A c \in Calls : "sync" \notin ToSet(call[c].todo)
        BY NothingCalled DEF Busy
  <2> QED BY <2>1 DEF PushInv, RepeatsUnlessToDo, Repeats
<1> QED BY <1>1, PushInitInv, PushNextInv, PTL DEF PushSpec

=============================================================================
