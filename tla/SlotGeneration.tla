--------------------------- MODULE SlotGeneration ---------------------------
(***************************************************************************)
(* The slots of one resource: weekly rules and exceptions, which providers *)
(* enter and change at any time, and POST /slots/generate, which cuts the  *)
(* rules of the days of a window into slots.                               *)
(*                                                                         *)
(* A time is a number of units on the resource's wall clock, which is put  *)
(* forward once and back once; day d begins at d * DayLength and is the    *)
(* weekday d % 7.  Exceptions, slots and the windows of requests are in    *)
(* UTC; Utc and Local convert as astimezone does.  What happens to a slot  *)
(* once it is there is in BookingLifecycle.                                *)
(***************************************************************************)
EXTENDS Integers, FiniteSets

CONSTANTS
    Days, DayLength,
    RuleIds,
    RuleChoices,    \* what a rule may say: day, start, end, duration
    Closures,       \* periods an exception may say the resource is not available in
    Windows,        \* pairs <<from, to>> of instants that slots are generated for
    Generations,    \* requests that may be in progress together
    ForwardAt,      \* when the clock shows this it is put forward by Shift,
    BackAt,         \* and when it later shows this it is put back by Shift
    Shift

ASSUME DaysAssumption == Days \subseteq Nat /\ DayLength \in Nat \ {0}
ASSUME RuleAssumption ==
    /\ RuleChoices \subseteq [day : 0..6, start : 0..(DayLength - 1), end : 1..DayLength,
                              duration : Nat \ {0}]
    /\ \A r \in RuleChoices : r.end > r.start
ASSUME WindowAssumption == Windows \subseteq Int \X Int
ASSUME ShiftAssumption ==
    /\ ForwardAt \in Int /\ BackAt \in Int /\ Shift \in Nat
    /\ ForwardAt + Shift <= BackAt - Shift

VARIABLES
    rule,           \* rule[i]: the row, or NoRule
    closed,         \* the exceptions with is_available = FALSE; others have no effect
    slots,          \* <<starts_at, ends_at>> of the slot rows
    generation,     \* generation[g]: the slots g is about to commit
    mixed           \* the present rules do not say where the slots are

slotVars == <<rule, closed, slots, generation, mixed>>

NoRule == [day |-> -1, start |-> 0, end |-> 0, duration |-> 1]

\* Arithmetic on a datetime gives fold = 0: a wall clock time that is skipped or comes
\* twice has the offset from before the change.
Utc(t) == IF t >= ForwardAt + Shift /\ t < BackAt THEN t - Shift ELSE t

\* What the clock shows at an instant.
Local(u) == IF u >= ForwardAt /\ u < BackAt - Shift THEN u + Shift ELSE u

Period(a, b) == <<Utc(a), Utc(b)>>

Larger(a, b) == IF a > b THEN a ELSE b
Smaller(a, b) == IF a < b THEN a ELSE b

\* Two periods have more than an end in common.
Overlap(p, q) == p[1] < q[2] /\ q[1] < p[2]

\* _validate_rule_bounds has been passed: the rule is not empty.
ActiveRules == {rule[i] : i \in {j \in RuleIds : rule[j] # NoRule}}

\* The beginning and the end of what a rule gives on day d of the window.
From(r, d, window) == Larger(d * DayLength + r.start, Local(window[1]))
To(r, d, window) == Smaller(d * DayLength + r.end, Local(window[2]))

\* The instant that the first slot begins at.  Only the start of the window still knows
\* which of two equal times it is.
Begin(r, d, window) ==
    IF Local(window[1]) > d * DayLength + r.start THEN window[1]
                                                  ELSE Utc(d * DayLength + r.start)

\* The slot that the loop adds in its turn k.
Piece(r, d, window, k) ==
    << IF k = 0 THEN Begin(r, d, window) ELSE Utc(From(r, d, window) + k * r.duration),
       Utc(From(r, d, window) + (k + 1) * r.duration) >>

\* Mutant: the slot that ends with the rule or the window is left out.
CutShorter(r, d, window) ==
    {Piece(r, d, window, k) :
        k \in {j \in 0..DayLength : From(r, d, window) + (j + 1) * r.duration < To(r, d, window)}}

\* The inner loop: the cursor goes on by the duration as long as a slot fits.
Cut(r, d, window) ==
    {Piece(r, d, window, k) :
        k \in {j \in 0..DayLength : From(r, d, window) + (j + 1) * r.duration <= To(r, d, window)}}

\* The days whose midnight is in the window, and the one it begins on.
DaysOf(window) ==
    {d \in Days : d >= Local(window[1]) \div DayLength /\ d * DayLength < Local(window[2])}

\* Mutant: the weekday of a rule is not looked at.
RulesOfAnyDay(window) == ActiveRules \X DaysOf(window)

\* A rule on a day that it is for.
DayRules(window) == {x \in ActiveRules \X DaysOf(window) : x[1].day = x[2] % 7}

\* generate_slots_for_resource, up to the rows that are there already.  valid_from and
\* valid_to are not looked at.
Planned(window) ==
    {p \in UNION {Cut(x[1], x[2], window) : x \in DayRules(window)} :
        \A c \in closed : ~Overlap(c, p)}

-----------------------------------------------------------------------------
(* Rules and exceptions.                                                   *)

\* The window begins between two slots of the rule, or outside of its time, and not in
\* what the clock shows a second time.
OnGrid(u, r, d) ==
    LET gone == Local(u) - (d * DayLength + r.start) IN
    gone > 0 /\ Local(u) < d * DayLength + r.end =>
        gone % r.duration = 0 /\ Utc(Local(u)) = u

\* The rule is in force while the clock is put forward.
Skips(r, d) ==
    /\ Shift > 0
    /\ d * DayLength + r.start < ForwardAt + Shift
    /\ d * DayLength + r.end > ForwardAt

Made == slots \cup UNION {generation[g] : g \in Generations}

\* POST and PATCH of a rule.  Nothing is said about other rules, nor about the slots
\* that a former version has given.
SaveRule(i, r) ==
    /\ rule[i] # r
    /\ rule' = [rule EXCEPT ![i] = r]
    /\ mixed' =
          \/ mixed
          \/ \E j \in RuleIds \ {i} : rule[j].day = r.day /\ Overlap(<<rule[j].start, rule[j].end>>,
                                                                   <<r.start, r.end>>)
          \/ \E d \in {x \in Days : x % 7 = r.day} :
                \/ Skips(r, d)
                \/ \E p \in Made : Overlap(p, Period(d * DayLength + r.start,
                                                     d * DayLength + r.end))
    /\ UNCHANGED <<closed, slots, generation>>

\* DELETE, and PATCH with is_active = false.
DropRule(i) ==
    /\ rule[i] # NoRule
    /\ rule' = [rule EXCEPT ![i] = NoRule]
    /\ UNCHANGED <<closed, slots, generation, mixed>>

\* POST, PATCH and DELETE of an exception: slots that are there stay.
Close(c) ==
    /\ closed' = closed \cup {c}
    /\ UNCHANGED <<rule, slots, generation, mixed>>

Reopen(c) ==
    /\ closed' = closed \ {c}
    /\ UNCHANGED <<rule, slots, generation, mixed>>

-----------------------------------------------------------------------------
(* POST /slots/generate.                                                   *)

\* The rules and the exceptions are read.
Plan(g, window) ==
    /\ generation[g] = {}
    /\ generation' = [generation EXCEPT ![g] = Planned(window) \ slots]
    /\ mixed' = (mixed \/ \E x \in DayRules(window) : ~OnGrid(window[1], x[1], x[2]))
    /\ UNCHANGED <<rule, closed, slots>>

\* The commit.  A row that another request has committed meanwhile was seen by the
\* SELECT before it was added ...
Store(g) ==
    /\ generation[g] # {}
    /\ slots' = slots \cup generation[g]
    /\ generation' = [generation EXCEPT ![g] = {}]
    /\ UNCHANGED <<rule, closed, mixed>>

\* ... or makes the commit fail as a whole (uq_slot_resource_time); or the process dies.
Abandon(g) ==
    /\ generation[g] # {}
    /\ generation' = [generation EXCEPT ![g] = {}]
    /\ UNCHANGED <<rule, closed, slots, mixed>>

SlotInit ==
    /\ rule = [i \in RuleIds |-> NoRule]
    /\ closed = {}
    /\ slots = {}
    /\ generation = [g \in Generations |-> {}]
    /\ mixed = FALSE

SlotNext ==
    \/ \E i \in RuleIds : DropRule(i) \/ \E r \in RuleChoices : SaveRule(i, r)
    \/ \E c \in Closures : Close(c) \/ Reopen(c)
    \/ \E g \in Generations : Store(g) \/ Abandon(g) \/ \E w \in Windows : Plan(g, w)

SlotSpec == SlotInit /\ [][SlotNext]_slotVars

-----------------------------------------------------------------------------
(* Properties.                                                             *)

\* No two slots overlap, whatever windows they were generated for, together or one
\* after the other, and whatever exceptions came and went: unless rules overlap or
\* were entered over slots of other rules, a window has begun inside a slot or, while a
\* rule is in force, in the time that the clock shows again after it was put back, or
\* the clock is put forward while a rule is in force.
SlotsDoNotOverlap ==
    ~mixed => \A p, q \in slots : p # q => ~Overlap(p, q)

\* To generate week after week is to generate all weeks at once: of two windows that
\* meet between slots, no slot is missing where they meet and none is there twice.
\* (A window may end before it begins, and so may the wall clock times of one that the
\* clock is put back in; neither gives anything.)
WindowsCompose ==
    \A v, w \in Windows :
        LET both == <<v[1], w[2]>>
            meet == /\ v[2] = w[1]
                    /\ Local(v[1]) <= Local(v[2]) /\ Local(w[1]) <= Local(w[2])
                    /\ \A x \in DayRules(both) : /\ OnGrid(v[1], x[1], x[2])
                                                 /\ OnGrid(w[1], x[1], x[2])
        IN  meet => Planned(both) = Planned(v) \cup Planned(w)
=============================================================================
