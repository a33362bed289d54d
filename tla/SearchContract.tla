---------------------------- MODULE SearchContract ----------------------------
(***************************************************************************)
(* What LowerBoundSolver relies on when it drives a BranchingSolver: the   *)
(* three meanings of RunResult, and an incumbent that only ever improves   *)
(* and never beats the optimum.                                            *)
(***************************************************************************)
EXTENDS Integers

CONSTANT OptimumOf(_)   \* k* of a problem

VARIABLES
    problem,    \* the instance, fixed
    incumbent,  \* context->bestSolutionWeight
    threshold,  \* context->certifiedThreshold
    answer      \* what the last call of advanceSearch returned, if any

contractVars == <<problem, incumbent, threshold, answer>>

Answers == {"Idle", "Running", "Solved", "Paused", "Exhausted"}

\* incumbentCertifies, and the early exit of advanceSearch.
Certifies == incumbent <= threshold

SearchInit ==
    /\ answer = "Idle"
    /\ threshold \in Int
    /\ incumbent \in Nat
    /\ incumbent >= OptimumOf(problem)

\* seedSolution
Seed ==
    /\ answer = "Idle"
    /\ incumbent' \in Nat
    /\ incumbent' # incumbent
    /\ incumbent' >= OptimumOf(problem)
    /\ UNCHANGED <<problem, threshold, answer>>

\* advanceSearch is called for the first time or resumed.
Call ==
    /\ answer \in {"Idle", "Paused"}
    /\ answer' = "Running"
    /\ UNCHANGED <<problem, incumbent, threshold>>

Improve ==
    /\ answer = "Running"
    /\ incumbent' \in Nat
    /\ incumbent' < incumbent
    /\ incumbent' >= OptimumOf(problem)
    /\ UNCHANGED <<problem, threshold, answer>>

\* The early exit: the incumbent is small enough for the proven bound.
ReturnSolved ==
    /\ answer = "Running"
    /\ Certifies
    /\ answer' = "Solved"
    /\ UNCHANGED <<problem, incumbent, threshold>>

\* The early exit is looked at before the clock.
ReturnPaused ==
    /\ answer = "Running"
    /\ ~ Certifies
    /\ answer' = "Paused"
    /\ UNCHANGED <<problem, incumbent, threshold>>

ReturnExhausted ==
    /\ answer = "Running"
    /\ answer' = "Exhausted"
    /\ incumbent = OptimumOf(problem)
    /\ UNCHANGED <<problem, incumbent, threshold>>

\* Between two calls a better lower bound may have been adopted.
Raise ==
    /\ answer \in {"Idle", "Paused"}
    /\ threshold' > threshold
    /\ UNCHANGED <<problem, incumbent, answer>>

SearchNext ==
    \/ Seed \/ Call \/ Improve
    \/ ReturnSolved \/ ReturnPaused \/ ReturnExhausted
    \/ Raise

Spec == SearchInit /\ [][SearchNext]_contractVars
=============================================================================
