-------------------------- MODULE PollingSchedule --------------------------
(***************************************************************************)
(* How often each signal is read: demand is merged and admitted by the     *)
(* subscription policy, the session measures how fast it is, and after     *)
(* every wake-up the scheduler reshapes its intervals to what the session  *)
(* can serve.  Time is counted in units of which Second make a second; the *)
(* schedule is kept relative to now, so `due[s]' is how long until signal  *)
(* s is due and is negative when it is overdue.                            *)
(***************************************************************************)
EXTENDS Integers, Sequences, FiniteSets, FiniteSetsExt, SequencesExt

CONSTANTS
    Signals,        \* the semantics, numbered in their sorting order
    Second,         \* units of time per second
    Precision,      \* RATE_PRECISION
    DefaultBudget,  \* reads per second before anything was measured
    Freshness,      \* the intervals a dashboard's views ask for
    Profiles,       \* the profile documents: sequences of [semantic, interval]
    ServiceTimes,   \* how long a read may take
    Lateness        \* how late the timer may wake the task

ASSUME ScheduleAssumption ==
    /\ Signals \subseteq Nat /\ IsFiniteSet(Signals)
    /\ {Second, Precision, DefaultBudget} \subseteq Nat \ {0}
    /\ Freshness \subseteq Nat \ {0} /\ ServiceTimes \subseteq Nat \ {0}
    /\ Lateness \subseteq Nat /\ 0 \in Lateness
    /\ Profiles \subseteq Seq([semantic : Nat, interval : Nat])

VARIABLES
    phase,      \* "new", "refused", "sleeping", "reading", "measured" or "failed"
    order,      \* the schedule's subscriptions, in the order they are read
    requested,  \* what each consumer asked for, merged
    interval,   \* the effective interval of each scheduled signal
    due,        \* the time until each scheduled signal is due
    batch,      \* the subscriptions this wake-up still has to read
    slowest,    \* the slowest service time observed, 0 before the first
    plan        \* the PollingPlan shared with the dashboard

vars == <<phase, order, requested, interval, due, batch, slowest, plan>>

-----------------------------------------------------------------------------
(* subscription_policy.rs *)

CeilDiv(a, b) == (a + b - 1) \div b

Status == {"Accepted", "RateReduced", "Unsupported"}

PlanEntry(asked, effective) ==
    [requested |-> asked, effective |-> effective,
     status |-> IF effective > asked THEN "RateReduced" ELSE "Accepted"]

Unsupported(asked) == [requested |-> asked, effective |-> 0, status |-> "Unsupported"]

\* The demand for a signal is the shortest of the intervals asked for.
Merged(requests) ==
    [s \in {r.semantic : r \in requests} |->
        Min({r.interval : r \in {q \in requests : q.semantic = s}})]

RateUnits(wanted) ==
    MapThenSumSet(LAMBDA s : CeilDiv(Second * Precision, wanted[s]), DOMAIN wanted)

ExceedsBudget(wanted, budget) == RateUnits(wanted) > budget * Precision

\* Mutant: the factor is rounded down.
ScaleFactorRoundedDown(wanted, budget) == RateUnits(wanted) \div (budget * Precision)


ScaleFactor(wanted, budget) == CeilDiv(RateUnits(wanted), budget * Precision)

Restricted(f, S) == [s \in DOMAIN f \cap S |-> f[s]]

\* Mutant: every signal gets an equal share of the budget.
ScaledToShares(wanted, budget) ==
    [s \in DOMAIN wanted |->
        Max({wanted[s], CeilDiv(Cardinality(DOMAIN wanted) * Second, budget)})]


Scaled(wanted, budget) ==
    [s \in DOMAIN wanted |->
        IF ExceedsBudget(wanted, budget)
        THEN wanted[s] * ScaleFactor(wanted, budget)
        ELSE wanted[s]]

Plan(requests, supported, budget) ==
    LET wanted == Merged(requests)
        effective == Scaled(Restricted(wanted, supported), budget)
    IN  [s \in DOMAIN wanted |->
            IF s \in supported THEN PlanEntry(wanted[s], effective[s])
                               ELSE Unsupported(wanted[s])]

Scheduled(p) == {s \in DOMAIN p : p[s].status # "Unsupported"}

\* update_effective_intervals refuses an incomplete or an unknown set.
UpdateFits(p, effective) ==
    Scheduled(p) \subseteq DOMAIN effective /\ DOMAIN effective \subseteq DOMAIN p

UpdateEffective(p, effective) ==
    [s \in DOMAIN p |->
        IF s \in Scheduled(p) THEN PlanEntry(p[s].requested, effective[s]) ELSE p[s]]

-----------------------------------------------------------------------------
(* capability.rs and the estimator of ble.rs *)

RequestBudgetFor(service) == Max({1, Second \div service})

\* The estimate is the slowest read so far.
Observe(slow, t) == Max({slow, t})

Capability(slow) == IF slow = 0 THEN DefaultBudget ELSE RequestBudgetFor(slow)

-----------------------------------------------------------------------------
(* capture.rs *)

\* A profile needs at least one observation, none twice, positive intervals
\* and only signals the catalogue knows.
ValidProfile(doc) ==
    /\ doc # <<>>
    /\ \A i, j \in DOMAIN doc : i # j => doc[i].semantic # doc[j].semantic
    /\ \A i \in DOMAIN doc : doc[i].interval > 0 /\ doc[i].semantic \in Signals

Admitted(doc) ==
    LET p == Plan(Range(doc), {o.semantic : o \in Range(doc)}, DefaultBudget)
    IN  \A s \in DOMAIN p : p[s].status # "RateReduced"

-----------------------------------------------------------------------------
Init ==
    /\ phase = "new" /\ order = <<>> /\ batch = <<>> /\ slowest = 0
    /\ requested = <<>> /\ interval = <<>> /\ due = <<>> /\ plan = <<>>

\* The schedule starts with everything due, after a first reshaping.
Start(signals, asked, wanted) ==
    /\ phase' = "sleeping"
    /\ order' = signals
    /\ requested' = asked
    /\ interval' = Scaled(wanted, Capability(slowest))
    /\ due' = [s \in Range(signals) |-> 0]
    /\ UNCHANGED <<batch, slowest>>

\* A dashboard: the views' demand, planned at the conservative default.
StartLayout ==
    /\ phase = "new"
    /\ \E panels \in SUBSET [semantic : Signals, interval : Freshness] :
       \E supported \in SUBSET {r.semantic : r \in panels} :
        LET p == Plan(panels, supported, DefaultBudget)
            wanted == [s \in Scheduled(p) |-> p[s].effective]
        IN  /\ Scheduled(p) # {}
            /\ Start(SetToSortSeq(Scheduled(p), <), [s \in Scheduled(p) |-> p[s].requested], wanted)
            /\ plan' = UpdateEffective(p, interval')

StartProfile ==
    /\ phase = "new"
    /\ \E doc \in Profiles :
        /\ ValidProfile(doc) /\ Admitted(doc)
        /\ LET wanted == Merged(Range(doc))
           IN  Start([i \in DOMAIN doc |-> doc[i].semantic], wanted, wanted)
    /\ UNCHANGED plan

RefuseProfile ==
    /\ phase = "new"
    /\ \E doc \in Profiles : ~(ValidProfile(doc) /\ Admitted(doc))
    /\ phase' = "refused"
    /\ UNCHANGED <<order, requested, interval, due, batch, slowest, plan>>

Later(t) == [s \in DOMAIN due |-> due[s] - t]

AllDue(wait) == SelectSeq(order, LAMBDA s : wait[s] <= 0)

\* The timer fires at the earliest due time or later; everything due by then
\* is read in this wake-up.
Wake ==
    /\ phase = "sleeping"
    /\ \E late \in Lateness :
        LET slept == Max({0, Min({due[s] : s \in DOMAIN due})}) + late
        IN  /\ due' = Later(slept)
            /\ batch' = AllDue(due')
    /\ phase' = "reading"
    /\ UNCHANGED <<order, requested, interval, slowest, plan>>

\* The next slot of the signal after now; the slots passed over are skipped.
AdvanceDue(d, step) == d + step * Max({1, (-d) \div step + 1})

ReadOne ==
    /\ phase = "reading"
    /\ \E t \in ServiceTimes :
        LET s == Head(batch) IN
        /\ due' = [Later(t) EXCEPT ![s] = AdvanceDue(@, interval[s])]
        /\ slowest' = Observe(slowest, t)
    /\ batch' = Tail(batch)
    /\ phase' = IF Len(batch) = 1 THEN "measured" ELSE "reading"
    /\ UNCHANGED <<order, requested, interval, plan>>

\* Mutant: every reshaping restarts every interval.
ReshapedAll(effective) == effective

\* A signal whose interval changed starts a new one now; the others keep
\* their slot.
Reshaped(effective) ==
    [s \in DOMAIN due |-> IF effective[s] # interval[s] THEN effective[s] ELSE due[s]]

ReshapeSchedule ==
    /\ phase = "measured"
    /\ LET effective == Scaled(interval, Capability(slowest)) IN
        /\ interval' = effective
        /\ due' = Reshaped(effective)
        /\ plan' = IF plan = <<>> THEN plan ELSE UpdateEffective(plan, effective)
        /\ phase' = IF plan = <<>> \/ UpdateFits(plan, effective) THEN "sleeping" ELSE "failed"
    /\ UNCHANGED <<order, requested, batch, slowest>>

Done == phase \in {"refused", "failed"} /\ UNCHANGED vars

Next == StartLayout \/ StartProfile \/ RefuseProfile \/ Wake \/ ReadOne \/ ReshapeSchedule \/ Done

\* The scheduler's task keeps running while it is not cancelled.
Spec == Init /\ [][Next]_vars /\ WF_vars(Next)

-----------------------------------------------------------------------------
Running == phase \in {"sleeping", "reading", "measured"}

TypeOK ==
    /\ phase \in {"new", "refused", "failed"} \/ Running
    /\ slowest \in {0} \cup ServiceTimes
    /\ Range(batch) \subseteq Range(order)
    /\ {DOMAIN requested, DOMAIN interval, DOMAIN due} = {Range(order)}
    /\ \A s \in DOMAIN interval : interval[s] \in Nat \ {0}
    /\ \A s \in DOMAIN plan : plan[s].status \in Status

\* Reads per second that a set of intervals asks for, exactly: the numerator
\* over the product of the intervals.
Whole(f) == MapThenFoldSet(LAMBDA a, b : a * b, 1, LAMBDA s : f[s], LAMBDA S : CHOOSE s \in S : TRUE, DOMAIN f)
Reads(f) == MapThenSumSet(LAMBDA s : Second * (Whole(f) \div f[s]), DOMAIN f)

\* Not more reads per second than the slowest read so far allows.
NotOverbooked ==
    phase = "sleeping" => Reads(interval) <= Capability(slowest) * Whole(interval)

\* However often the intervals are reshaped from already reshaped ones, the
\* signals keep the relative rates that were asked for.
PrioritiesKept ==
    \A s, t \in DOMAIN interval :
        interval[s] * requested[t] = interval[t] * requested[s]

\* The smallest budget the schedule has had to fit.
Tightest == Min({DefaultBudget, Capability(slowest)})

\* Not less than half of the tightest budget so far, but for the rounding of
\* one unit per signal.
HalfTheBudgetIsUsed ==
    phase = "sleeping" =>
        \/ interval = requested
        \/ 2 * Precision * Reads(interval)
             >= (Tightest * Precision - Cardinality(DOMAIN interval)) * Whole(interval)

\* Whatever the rounding of rates and factors, and however often the intervals
\* are reshaped from reshaped ones: a sleeping schedule neither asks for more
\* reads than the link was seen to do nor gives away more than half of them.
BudgetIsMet == NotOverbooked /\ HalfTheBudgetIsUsed

\* A scheduled signal is read again and again, although reshaping puts it off.
EverySignalIsRead ==
    \A s \in Signals : [](Running /\ s \in Range(order) => <>(batch # <<>> /\ Head(batch) = s))

=============================================================================
