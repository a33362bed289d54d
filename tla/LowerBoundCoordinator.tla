------------------------- MODULE LowerBoundCoordinator -------------------------
(***************************************************************************)
(* solver::LowerBoundSolver: one thread that alternates between slices of  *)
(* the branching search and of the MaxSAT lower bound until one of them    *)
(* makes the incumbent provably good enough, or the budget is spent.       *)
(*                                                                         *)
(* The search is SearchContract, which BranchingSolver is shown to keep;   *)
(* its problem is the optimum itself.  The MaxSAT side is any solver whose *)
(* bound never exceeds the optimum (IIncrementalLowerBound).  A submission *)
(* of size U is valid when U <= floor(a * k-star) + b.                     *)
(*                                                                         *)
(* phase is the place in solve():                                          *)
(*   starting    before the first adoptLowerBound                          *)
(*   scheduled   the loop over config.schedule                             *)
(*   remaining   the loop that branches until the hard stop                *)
(*   emitted     finalize() called, true returned                          *)
(*   silent      false returned, nothing is written                        *)
(***************************************************************************)
EXTENDS Integers, Sequences

CONSTANTS
    MaxOptimum,     \* bound on k* and on the seed: the number of leaves
    Multipliers,    \* values of a, in hundredths
    Offsets,        \* values of b
    Budget,         \* totalBudgetSeconds - safetyMarginSeconds, in ticks
    Schedules       \* values of config.schedule

Slice == [actor : {"Branch", "Sat"}, seconds : Nat]

ASSUME MaxOptimumIsPositive == MaxOptimum \in Nat \ {0}
ASSUME MultipliersAreAtLeastOne == Multipliers \subseteq {a \in Nat : a >= 100}
ASSUME OffsetsAreNatural == Offsets \subseteq Nat
ASSUME BudgetIsNatural == Budget \in Nat
ASSUME SchedulesAreSlices == Schedules \subseteq Seq(Slice)

VARIABLES
    problem,    \* k*
    incumbent,  \* context->bestSolutionWeight
    threshold,  \* context->certifiedThreshold
    answer,     \* the search: idle, running, or what it returned last
    a, b,       \* the "#a a b" line
    schedule,   \* config.schedule
    currentL,   \* the best lower bound adopted
    satBound,   \* lowerBoundSolver->getCurrentLowerBound()
    clock,      \* time since start, not counted beyond Budget
    deadline,   \* the pause deadline of the running slice
    slot,       \* the next slice of the schedule
    phase

Itself(k) == k

Search == INSTANCE SearchContract WITH OptimumOf <- Itself

searchVars == <<problem, incumbent, threshold, answer>>
instanceVars == <<problem, a, b, schedule>>
vars == <<problem, incumbent, threshold, answer, a, b, schedule, currentL,
          satBound, clock, deadline, slot, phase>>

Least(x, y) == IF x <= y THEN x ELSE y

\* Context::certifiedCeiling, floor(a * value) + b.
CertifiedCeiling(value) == (a * value) \div 100 + b

Remaining == Budget - clock

Init ==
    /\ problem \in 1..MaxOptimum
    /\ incumbent \in problem..MaxOptimum
    /\ answer = "Idle"
    /\ a \in Multipliers /\ b \in Offsets
    /\ schedule \in Schedules
    /\ currentL \in 0..problem
    /\ threshold = CertifiedCeiling(currentL)
    /\ satBound \in 0..problem
    /\ clock = 0 /\ deadline = 0
    /\ slot = 1
    /\ phase = "starting"

-----------------------------------------------------------------------------
\* Mutant: the threshold is left as startSolver set it.
AdoptLowerBoundOnly(candidate) ==
    /\ currentL' = IF candidate > currentL THEN candidate ELSE currentL
    /\ UNCHANGED threshold

\* Mutant: whatever the SAT solver knows replaces the bound.
AdoptLowerBoundAlways(candidate) ==
    /\ currentL' = candidate
    /\ threshold' = CertifiedCeiling(candidate)

\* adoptLowerBound: a bound no better than the one proven changes nothing.
AdoptLowerBound(candidate) ==
    IF candidate > currentL
    THEN currentL' = candidate /\ threshold' = CertifiedCeiling(candidate)
    ELSE UNCHANGED <<currentL, threshold>>

\* The return value of this first adoption is not looked at.
Start ==
    /\ phase = "starting"
    /\ AdoptLowerBound(satBound)
    /\ phase' = "scheduled"
    /\ UNCHANGED <<instanceVars, incumbent, answer, satBound, clock, deadline,
                   slot>>

InSchedule ==
    /\ phase = "scheduled"
    /\ answer # "Running"
    /\ slot <= Len(schedule)
    /\ Remaining > 0

LeaveSchedule ==
    /\ phase = "scheduled"
    /\ answer # "Running"
    /\ slot > Len(schedule) \/ Remaining <= 0
    /\ phase' = "remaining"
    /\ UNCHANGED <<searchVars, a, b, schedule, currentL, satBound, clock,
                   deadline, slot>>

-----------------------------------------------------------------------------
(* runBranchSlice.                                                         *)

\* Mutant: a slice may run past the hard stop.
StartBranchSliceUncapped ==
    /\ \/ /\ InSchedule /\ schedule[slot].actor = "Branch"
          /\ deadline' = clock + schedule[slot].seconds
       \/ /\ phase = "remaining" /\ answer # "Running" /\ Remaining > 0
          /\ deadline' = Budget
    /\ Search!Call
    /\ UNCHANGED <<a, b, schedule, currentL, satBound, clock, slot, phase>>

StartBranchSlice ==
    /\ \/ /\ InSchedule /\ schedule[slot].actor = "Branch"
          /\ deadline' = clock + Least(schedule[slot].seconds, Remaining)
       \/ /\ phase = "remaining" /\ answer # "Running" /\ Remaining > 0
          /\ deadline' = Budget
    /\ Search!Call
    /\ UNCHANGED <<a, b, schedule, currentL, satBound, clock, slot, phase>>

SearchImproves ==
    /\ \E better \in problem..incumbent : incumbent' = better
    /\ Search!Improve
    /\ UNCHANGED <<a, b, schedule, currentL, satBound, clock, deadline, slot,
                   phase>>

TimePasses(earliest) == clock' \in earliest..Budget

\* Mutant: the search pauses although its deadline is ahead.
BranchSlicePausesEarly ==
    /\ Search!ReturnPaused
    /\ TimePasses(clock)
    /\ slot' = IF phase = "scheduled" THEN slot + 1 ELSE slot
    /\ UNCHANGED <<a, b, schedule, currentL, satBound, deadline, phase>>

\* A pause is only reached once the deadline has passed.
BranchSlicePauses ==
    /\ Search!ReturnPaused
    /\ TimePasses(deadline)
    /\ slot' = IF phase = "scheduled" THEN slot + 1 ELSE slot
    /\ UNCHANGED <<a, b, schedule, currentL, satBound, deadline, phase>>

\* Mutant: every slice that returns counts as an answer.
BranchSliceEndsAnyhow ==
    /\ \/ Search!ReturnSolved \/ Search!ReturnExhausted \/ Search!ReturnPaused
    /\ TimePasses(clock)
    /\ phase' = "emitted"
    /\ UNCHANGED <<a, b, schedule, currentL, satBound, deadline, slot>>

\* Solved or Exhausted: finalize() and return true.
BranchSliceEnds ==
    /\ Search!ReturnSolved \/ Search!ReturnExhausted
    /\ TimePasses(clock)
    /\ phase' = "emitted"
    /\ UNCHANGED <<a, b, schedule, currentL, satBound, deadline, slot>>

-----------------------------------------------------------------------------
\* runSatSlice: the bound may rise, up to k*; adopting it may certify the
\* incumbent, whatever the search was doing when it was paused.
RunSatSlice ==
    /\ InSchedule /\ schedule[slot].actor = "Sat"
    /\ satBound' \in satBound..problem
    /\ AdoptLowerBound(satBound')
    /\ TimePasses(clock)
    /\ IF incumbent <= threshold'
       THEN phase' = "emitted" /\ UNCHANGED slot
       ELSE slot' = slot + 1 /\ UNCHANGED phase
    /\ UNCHANGED <<instanceVars, incumbent, answer, deadline>>

\* Mutant: the schedule is all there is, whatever budget remains.
ConcludeAfterSchedule ==
    /\ phase = "remaining"
    /\ answer # "Running"
    /\ phase' = IF Search!Certifies THEN "emitted" ELSE "silent"
    /\ UNCHANGED <<searchVars, a, b, schedule, currentL, satBound, clock,
                   deadline, slot>>

\* The clock has run out: emit only what certifies.
Conclude ==
    /\ phase = "remaining"
    /\ answer # "Running"
    /\ Remaining <= 0
    /\ phase' = IF Search!Certifies THEN "emitted" ELSE "silent"
    /\ UNCHANGED <<searchVars, a, b, schedule, currentL, satBound, clock,
                   deadline, slot>>

Done == phase \in {"emitted", "silent"} /\ UNCHANGED vars

Coordinate ==
    \/ Start \/ LeaveSchedule \/ StartBranchSlice \/ SearchImproves
    \/ BranchSlicePauses \/ BranchSliceEnds \/ RunSatSlice \/ Conclude

Next == Coordinate \/ Done

\* One thread, which nothing blocks.
Spec == Init /\ [][Next]_vars /\ WF_vars(Coordinate)

-----------------------------------------------------------------------------
TypeOK ==
    /\ problem \in 1..MaxOptimum
    /\ incumbent \in 1..MaxOptimum
    /\ threshold \in Nat
    /\ answer \in Search!Answers
    /\ a \in Multipliers /\ b \in Offsets
    /\ schedule \in Schedules
    /\ {currentL, satBound} \subseteq 0..MaxOptimum
    /\ {clock, deadline} \subseteq 0..Budget
    /\ slot \in Nat \ {0}
    /\ phase \in {"starting", "scheduled", "remaining", "emitted", "silent"}

\* A submission of U components is accepted when U <= floor(a * k*) + b: what
\* solve() emits always is, through every mix of slices, improvements and
\* adopted bounds.
EmittedIsValid == phase = "emitted" => incumbent <= CertifiedCeiling(problem)

\* certifiedThreshold is the ceiling of the best bound adopted, and that bound
\* is a lower bound: neither a looser SAT bound nor a stale one lowers it.
ThresholdIsProven ==
    /\ currentL <= problem
    /\ threshold = CertifiedCeiling(currentL)

\* Nothing is withheld: without an answer the budget is spent and the best
\* forest known does not certify against the best bound known.
SilentOnlyUncertified ==
    phase = "silent" => Remaining <= 0 /\ incumbent > CertifiedCeiling(currentL)

\* Bounds close in: no step loosens the lower bound, the threshold or the
\* incumbent.
BoundsCloseIn ==
    [][currentL' >= currentL /\ threshold' >= threshold
       /\ incumbent' <= incumbent]_vars

\* solve() returns.
EventuallyConcludes == <>(phase \in {"emitted", "silent"})
=============================================================================
