--------------------- MODULE LowerBoundCoordinator_proofs ---------------------
(***************************************************************************)
(* That LowerBoundSolver only emits valid submissions, for every instance, *)
(* "#a" line, budget and schedule, whatever the MaxSAT solver answers, for *)
(* any search that keeps SearchContract.                                   *)
(***************************************************************************)
EXTENDS LowerBoundCoordinator, TLAPS

\* floor(a * x) + b grows with x: the hypothesis under which an early exit
\* against a lower bound is an early exit against the optimum.
LEMMA CeilingIsMonotone ==
    ASSUME a \in Nat, b \in Nat, NEW x \in Nat, NEW y \in Nat, x <= y
    PROVE  /\ CertifiedCeiling(x) \in Nat
           /\ CertifiedCeiling(x) <= CertifiedCeiling(y)
<1>1. a * x <= a * y
  <2>1. a * (y - x) \in Nat
    OBVIOUS
  <2>2. a * y = a * x + a * (y - x)
    OBVIOUS
  <2> QED
    BY <2>1, <2>2
<1>2. a * x \in Nat /\ a * y \in Nat
  OBVIOUS
<1>3. (a * x) \div 100 <= (a * y) \div 100 /\ (a * x) \div 100 \in Nat
      /\ (a * y) \div 100 \in Nat
  BY <1>1, <1>2
<1> QED
  BY <1>3 DEF CertifiedCeiling

\* a >= 1: an exact optimum is always a valid submission.
LEMMA CeilingIsAtLeast ==
    ASSUME a \in Nat, a >= 100, b \in Nat, NEW x \in Nat
    PROVE  x <= CertifiedCeiling(x)
<1>1. (a - 100) * x \in Nat
  OBVIOUS
<1>2. a * x = 100 * x + (a - 100) * x
  OBVIOUS
<1>3. a * x \in Nat /\ a * x >= 100 * x
  BY <1>1, <1>2
<1>4. (a * x) \div 100 >= x
  BY <1>3
<1> QED
  BY <1>4, <1>3 DEF CertifiedCeiling

-----------------------------------------------------------------------------
(* The inductive invariant.  EmittedIsValid alone is not inductive: that an *)
(* incumbent meets the threshold says something about the optimum only      *)
(* because the threshold comes from a lower bound, the lower bound from the *)
(* SAT solver, and no step of the search runs once solve() has concluded.   *)

BoundsAreSound ==
    /\ incumbent >= problem
    /\ satBound <= problem

ConcludedIsAtRest ==
    phase \in {"starting", "emitted", "silent"} => answer # "Running"

IInv ==
    /\ TypeOK
    /\ BoundsAreSound
    /\ ThresholdIsProven
    /\ ConcludedIsAtRest
    /\ EmittedIsValid
    /\ SilentOnlyUncertified

\* What TypeOK says of the numbers, with the assumptions on the constants.
LEMMA NumbersAreTyped ==
    ASSUME TypeOK
    PROVE  /\ problem \in Nat \ {0} /\ incumbent \in Nat \ {0}
           /\ threshold \in Nat
           /\ a \in Nat /\ a >= 100 /\ b \in Nat
           /\ currentL \in Nat /\ satBound \in Nat
           /\ clock \in 0..Budget /\ deadline \in 0..Budget
           /\ slot \in Nat \ {0}
BY MaxOptimumIsPositive, MultipliersAreAtLeastOne, OffsetsAreNatural,
   BudgetIsNatural DEF TypeOK

\* adoptLowerBound keeps the threshold proven when the candidate is a lower
\* bound, and only ever raises it.
LEMMA AdoptionIsSound ==
    ASSUME TypeOK, ThresholdIsProven,
           UNCHANGED <<problem, a, b>>,
           NEW candidate \in 0..problem,
           AdoptLowerBound(candidate)
    PROVE  /\ currentL' \in 0..problem
           /\ currentL' >= currentL
           /\ threshold' \in Nat
           /\ threshold' = CertifiedCeiling(currentL)'
           /\ threshold' >= threshold
<1> USE NumbersAreTyped
<1>1. CASE candidate > currentL
  <2>1. currentL' = candidate /\ threshold' = CertifiedCeiling(candidate)
    BY <1>1 DEF AdoptLowerBound
  <2>2. /\ CertifiedCeiling(candidate) \in Nat
        /\ CertifiedCeiling(currentL) <= CertifiedCeiling(candidate)
    BY <1>1, CeilingIsMonotone
  <2>3. CertifiedCeiling(currentL)' = CertifiedCeiling(candidate)
    BY <2>1 DEF CertifiedCeiling
  <2> QED
    BY <1>1, <2>1, <2>2, <2>3 DEF ThresholdIsProven
<1>2. CASE ~ candidate > currentL
  <2>1. UNCHANGED <<currentL, threshold>>
    BY <1>2 DEF AdoptLowerBound
  <2>2. CertifiedCeiling(currentL)' = CertifiedCeiling(currentL)
    BY <2>1 DEF CertifiedCeiling
  <2> QED
    BY <2>1, <2>2 DEF ThresholdIsProven
<1> QED
  BY <1>1, <1>2

\* The initial states satisfy the inductive invariant.
LEMMA InitEstablishesIInv == Init => IInv
<1> SUFFICES ASSUME Init PROVE IInv
  OBVIOUS
<1>1. /\ problem \in Nat \ {0} /\ currentL \in Nat /\ a \in Nat /\ b \in Nat
  BY MaxOptimumIsPositive, MultipliersAreAtLeastOne, OffsetsAreNatural
     DEF Init
<1>2. threshold \in Nat
  BY <1>1, CeilingIsMonotone DEF Init
<1>3. TypeOK
  BY <1>1, <1>2, MaxOptimumIsPositive, BudgetIsNatural
     DEF Init, TypeOK, Search!Answers
<1> QED
  BY <1>1, <1>3, MaxOptimumIsPositive
     DEF Init, IInv, BoundsAreSound, ThresholdIsProven, ConcludedIsAtRest,
         EmittedIsValid, SilentOnlyUncertified
\* An action that leaves alone what IInv speaks of, but for phase and slot,
\* keeps the parts that do not mention the phase.
LEMMA StutterKeepsBounds ==
    ASSUME IInv, UNCHANGED <<problem, incumbent, threshold, a, b, schedule,
                             currentL, satBound>>
    PROVE  /\ BoundsAreSound'
           /\ ThresholdIsProven'
           /\ CertifiedCeiling(problem)' = CertifiedCeiling(problem)
           /\ CertifiedCeiling(currentL)' = CertifiedCeiling(currentL)
BY DEF IInv, BoundsAreSound, ThresholdIsProven, CertifiedCeiling

\* An incumbent that meets a proven threshold is a valid submission.
LEMMA CertifiedIsValid ==
    ASSUME TypeOK, ThresholdIsProven, Search!Certifies
    PROVE  incumbent <= CertifiedCeiling(problem)
<1>1. CertifiedCeiling(currentL) <= CertifiedCeiling(problem)
  BY NumbersAreTyped, CeilingIsMonotone DEF ThresholdIsProven
<1>2. CertifiedCeiling(problem) \in Nat
  BY NumbersAreTyped, CeilingIsMonotone
<1> QED
  BY <1>1, <1>2, NumbersAreTyped DEF ThresholdIsProven, Search!Certifies

\* Every step of solve() keeps the inductive invariant.
LEMMA NextPreservesIInv == IInv /\ [Next]_vars => IInv'
<1> SUFFICES ASSUME IInv, [Next]_vars
             PROVE  IInv'
  OBVIOUS
<1> USE NumbersAreTyped
<1>t. TypeOK /\ BoundsAreSound /\ ThresholdIsProven /\ ConcludedIsAtRest
  BY DEF IInv
<1>1. CASE Start
  <2>1. satBound \in 0..problem
    BY <1>t DEF BoundsAreSound
  <2>2. /\ currentL' \in 0..problem /\ threshold' \in Nat
        /\ threshold' = CertifiedCeiling(currentL)'
    BY <1>1, <1>t, <2>1, AdoptionIsSound DEF Start, instanceVars
  <2>3. TypeOK'
    BY <1>1, <1>t, <2>2, MaxOptimumIsPositive DEF Start, TypeOK, instanceVars
  <2> QED
    BY <1>1, <1>t, <2>2, <2>3
       DEF Start, instanceVars, IInv, BoundsAreSound, ThresholdIsProven,
           ConcludedIsAtRest, EmittedIsValid, SilentOnlyUncertified
<1>2. CASE LeaveSchedule
  <2>1. TypeOK'
    BY <1>2, <1>t DEF LeaveSchedule, TypeOK, searchVars
  <2> QED
    BY <1>2, <1>t, <2>1, StutterKeepsBounds
       DEF LeaveSchedule, searchVars, IInv, ConcludedIsAtRest, EmittedIsValid,
           SilentOnlyUncertified
<1>3. CASE StartBranchSlice
  <2>1. deadline' \in 0..Budget /\ phase \in {"scheduled", "remaining"}
    <3>1. CASE InSchedule /\ schedule[slot].actor = "Branch"
               /\ deadline' = clock + Least(schedule[slot].seconds, Remaining)
      <4>1. schedule \in Seq(Slice) /\ slot \in 1..Len(schedule)
        BY <3>1, <1>t, SchedulesAreSlices DEF InSchedule, TypeOK
      <4>2. schedule[slot] \in Slice
        BY <4>1
      <4>3. schedule[slot].seconds \in Nat
        BY <4>2 DEF Slice
      <4>4. Remaining \in Nat /\ clock + Remaining = Budget
        BY <1>t, BudgetIsNatural DEF Remaining
      <4>5. /\ Least(schedule[slot].seconds, Remaining) \in Nat
            /\ Least(schedule[slot].seconds, Remaining) <= Remaining
        BY <4>3, <4>4 DEF Least
      <4>6. deadline' \in 0..Budget
        BY <3>1, <4>4, <4>5, <1>t, BudgetIsNatural
      <4> QED
        BY <3>1, <4>6 DEF InSchedule
    <3>2. CASE phase = "remaining" /\ deadline' = Budget
      BY <3>2, BudgetIsNatural
    <3> QED
      BY <1>3, <3>1, <3>2 DEF StartBranchSlice
  <2>2. TypeOK'
    BY <1>3, <1>t, <2>1 DEF StartBranchSlice, TypeOK, Search!Call, Search!Answers
  <2> QED
    BY <1>3, <1>t, <2>1, <2>2, StutterKeepsBounds
       DEF StartBranchSlice, Search!Call, IInv, ConcludedIsAtRest,
           EmittedIsValid, SilentOnlyUncertified
<1>4. CASE SearchImproves
  <2>1. /\ incumbent' \in Nat /\ incumbent' < incumbent
        /\ incumbent' >= problem
        /\ answer = "Running"
        /\ UNCHANGED <<problem, threshold, answer>>
    BY <1>4 DEF SearchImproves, Search!Improve, Itself
  <2>2. UNCHANGED <<a, b, schedule, currentL, satBound, clock, deadline,
                    slot, phase>>
    BY <1>4 DEF SearchImproves
  <2>3. phase \in {"scheduled", "remaining"}
    BY <1>t, <2>1 DEF ConcludedIsAtRest, TypeOK
  <2>4. TypeOK'
    BY <1>t, <2>1, <2>2, MaxOptimumIsPositive DEF TypeOK
  <2>5. CertifiedCeiling(currentL)' = CertifiedCeiling(currentL)
    BY <2>2 DEF CertifiedCeiling
  <2> QED
    BY <1>t, <2>1, <2>2, <2>3, <2>4, <2>5
       DEF IInv, BoundsAreSound, ThresholdIsProven, ConcludedIsAtRest,
           EmittedIsValid, SilentOnlyUncertified
<1>5. CASE BranchSlicePauses
  <2>1. TypeOK'
    BY <1>5, <1>t, BudgetIsNatural
       DEF BranchSlicePauses, Search!ReturnPaused, TypeOK, TimePasses,
           Search!Answers
  <2>2. phase \in {"scheduled", "remaining"}
    BY <1>5, <1>t
       DEF BranchSlicePauses, Search!ReturnPaused, ConcludedIsAtRest, TypeOK
  <2> QED
    BY <1>5, <1>t, <2>1, <2>2, StutterKeepsBounds
       DEF BranchSlicePauses, Search!ReturnPaused, IInv, ConcludedIsAtRest,
           EmittedIsValid, SilentOnlyUncertified
<1>6. CASE BranchSliceEnds
  <2>1. /\ UNCHANGED <<problem, incumbent, threshold, a, b, schedule,
                       currentL, satBound, deadline, slot>>
        /\ phase' = "emitted" /\ answer' \in {"Solved", "Exhausted"}
        /\ clock' \in clock..Budget
    BY <1>6 DEF BranchSliceEnds, Search!ReturnSolved, Search!ReturnExhausted,
                TimePasses
  <2>2. TypeOK'
    BY <1>t, <2>1, BudgetIsNatural DEF TypeOK, Search!Answers
  <2>3. incumbent <= CertifiedCeiling(problem)
    <3>1. CASE Search!ReturnSolved
      BY <3>1, <1>t, CertifiedIsValid DEF Search!ReturnSolved
    <3>2. CASE Search!ReturnExhausted
      <4>1. incumbent = problem
        BY <3>2 DEF Search!ReturnExhausted, Itself
      <4> QED
        BY <4>1, <1>t, CeilingIsAtLeast
    <3> QED
      BY <1>6, <3>1, <3>2 DEF BranchSliceEnds
  <2> QED
    BY <1>t, <2>1, <2>2, <2>3, StutterKeepsBounds
       DEF IInv, ConcludedIsAtRest, EmittedIsValid, SilentOnlyUncertified
<1>7. CASE RunSatSlice
  <2>1. /\ satBound' \in satBound..problem
        /\ clock' \in clock..Budget
        /\ AdoptLowerBound(satBound')
        /\ UNCHANGED <<problem, a, b, schedule, incumbent, answer, deadline>>
        /\ phase = "scheduled" /\ answer # "Running"
    BY <1>7 DEF RunSatSlice, TimePasses, InSchedule, instanceVars
  <2>2. /\ currentL' \in 0..problem /\ threshold' \in Nat
        /\ threshold' = CertifiedCeiling(currentL)'
    BY <1>t, <2>1, AdoptionIsSound
  <2>3. \/ incumbent <= threshold' /\ phase' = "emitted" /\ slot' = slot
        \/ phase' = "scheduled" /\ slot' = slot + 1
    BY <1>7, <2>1 DEF RunSatSlice
  <2>4. TypeOK'
    BY <1>t, <2>1, <2>2, <2>3, BudgetIsNatural, MaxOptimumIsPositive
       DEF TypeOK
  <2>5. ThresholdIsProven' /\ BoundsAreSound'
    BY <1>t, <2>1, <2>2 DEF ThresholdIsProven, BoundsAreSound
  <2>6. EmittedIsValid'
    <3> SUFFICES ASSUME phase' = "emitted"
                 PROVE  incumbent' <= CertifiedCeiling(problem)'
      BY DEF EmittedIsValid
    <3>1. CertifiedCeiling(currentL)' = CertifiedCeiling(currentL')
          /\ CertifiedCeiling(problem)' = CertifiedCeiling(problem)
      BY <2>1 DEF CertifiedCeiling
    <3>2. CertifiedCeiling(currentL') <= CertifiedCeiling(problem)
          /\ CertifiedCeiling(problem) \in Nat
      BY <1>t, <2>2, CeilingIsMonotone
    <3> QED
      BY <1>t, <2>1, <2>2, <2>3, <3>1, <3>2
  <2> QED
    BY <2>1, <2>3, <2>4, <2>5, <2>6
       DEF IInv, ConcludedIsAtRest, SilentOnlyUncertified
<1>8. CASE Conclude
  <2>1. /\ UNCHANGED <<problem, incumbent, threshold, answer, a, b, schedule,
                       currentL, satBound, clock, deadline, slot>>
        /\ answer # "Running" /\ Remaining <= 0
        /\ phase' = IF Search!Certifies THEN "emitted" ELSE "silent"
    BY <1>8 DEF Conclude, searchVars
  <2>2. TypeOK'
    BY <1>t, <2>1 DEF TypeOK
  <2>3. EmittedIsValid'
    BY <1>t, <2>1, CertifiedIsValid, StutterKeepsBounds DEF EmittedIsValid
  <2>4. SilentOnlyUncertified'
    BY <1>t, <2>1, StutterKeepsBounds
       DEF SilentOnlyUncertified, Search!Certifies, ThresholdIsProven, Remaining
  <2> QED
    BY <1>t, <2>1, <2>2, <2>3, <2>4, StutterKeepsBounds
       DEF IInv, ConcludedIsAtRest
<1>9. CASE UNCHANGED vars
  BY <1>9, <1>t, StutterKeepsBounds
     DEF vars, IInv, TypeOK, ConcludedIsAtRest, EmittedIsValid,
         SilentOnlyUncertified, Remaining
<1> QED
  BY <1>1, <1>2, <1>3, <1>4, <1>5, <1>6, <1>7, <1>8, <1>9
     DEF Next, Coordinate, Done

-----------------------------------------------------------------------------
\* The inductive invariant holds throughout.
LEMMA Invariance == Spec => []IInv
  BY InitEstablishesIInv, NextPreservesIInv, PTL DEF Spec

\* The variables of solve() keep their types.
THEOREM TypeCorrect == Spec => []TypeOK
<1>1. IInv => TypeOK
  BY DEF IInv
<1> QED
  BY <1>1, Invariance, PTL

\* What LowerBoundSolver emits is within floor(a * k*) + b of the optimum,
\* for every "#a" line, schedule and budget.
THEOREM EmitsOnlyValid == Spec => []EmittedIsValid
<1>1. IInv => EmittedIsValid
  BY DEF IInv
<1> QED
  BY <1>1, Invariance, PTL

\* certifiedThreshold always comes from a lower bound, the best one adopted.
THEOREM ThresholdStaysProven == Spec => []ThresholdIsProven
<1>1. IInv => ThresholdIsProven
  BY DEF IInv
<1> QED
  BY <1>1, Invariance, PTL

\* false is returned only with the budget spent and nothing certified.
THEOREM WithholdsOnlyUncertified == Spec => []SilentOnlyUncertified
<1>1. IInv => SilentOnlyUncertified
  BY DEF IInv
<1> QED
  BY <1>1, Invariance, PTL

\* No step loosens the lower bound, the threshold or the incumbent.
THEOREM BoundsOnlyTighten == Spec => BoundsCloseIn
<1> USE NumbersAreTyped
<1>1. IInv /\ [Next]_vars =>
        [currentL' >= currentL /\ threshold' >= threshold
         /\ incumbent' <= incumbent]_vars
  <2> SUFFICES ASSUME IInv, Next
               PROVE  /\ currentL' >= currentL
                      /\ threshold' >= threshold
                      /\ incumbent' <= incumbent
    OBVIOUS
  <2>t. TypeOK /\ BoundsAreSound /\ ThresholdIsProven
    BY DEF IInv
  <2>1. CASE Start
    <3>1. satBound \in 0..problem
      BY <2>t DEF BoundsAreSound
    <3>2. currentL' >= currentL /\ threshold' >= threshold
      BY <2>1, <2>t, <3>1, AdoptionIsSound DEF Start, instanceVars
    <3> QED
      BY <2>1, <2>t, <3>2 DEF Start
  <2>2. CASE RunSatSlice
    <3>1. satBound' \in 0..problem
      BY <2>2, <2>t DEF RunSatSlice
    <3>2. currentL' >= currentL /\ threshold' >= threshold
      BY <2>2, <2>t, <3>1, AdoptionIsSound DEF RunSatSlice, instanceVars
    <3> QED
      BY <2>2, <2>t, <3>2 DEF RunSatSlice
  <2>3. CASE SearchImproves
    BY <2>3, <2>t DEF SearchImproves, Search!Improve
  <2>4. CASE UNCHANGED <<currentL, threshold, incumbent>>
    BY <2>t, <2>4
  <2> QED
    BY <2>1, <2>2, <2>3, <2>4
       DEF Next, Coordinate, Done, LeaveSchedule, StartBranchSlice,
           BranchSlicePauses, BranchSliceEnds, Conclude, searchVars, vars,
           Search!Call, Search!ReturnPaused, Search!ReturnSolved,
           Search!ReturnExhausted
<1> QED
  BY <1>1, Invariance, PTL DEF Spec, BoundsCloseIn
=============================================================================
