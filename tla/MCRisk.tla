-------------------------------- MODULE MCRisk --------------------------------
(* The risk layer: position ledger, token bucket, drawdown guard and exit    *)
(* engines.  They share no state: a run is one of any of them, the others at *)
(* rest.                                                                     *)
EXTENDS PositionManager, OrderRateLimiter, DrawdownGuard, ExitEngines, TLC

\* Two targets and one fraction: the second target closes the rest.
MCTargets == <<10, 30>>
MCFractions == <<50>>

VARIABLE part  \* the component that runs: "ledger", "limiter", "guard" or "exits"

RiskInit ==
  /\ LedgerInit
  /\ LimiterInit
  /\ GuardInit
  /\ ExitInit
  /\ part \in {"ledger", "limiter", "guard", "exits"}

RiskNext ==
  \/ part = "ledger" /\ LedgerNext /\ UNCHANGED <<limiterVars, guardVars, exitVars, part>>
  \/ part = "limiter" /\ LimiterNext /\ UNCHANGED <<ledger, guardVars, exitVars, part>>
  \/ part = "guard" /\ GuardNext /\ UNCHANGED <<ledger, limiterVars, exitVars, part>>
  \/ part = "exits" /\ ExitNext /\ UNCHANGED <<ledger, limiterVars, guardVars, part>>

RiskSpec == RiskInit /\ [][RiskNext]_<<ledger, limiterVars, guardVars, exitVars, part>>

\* The symbols are interchangeable, and so are the threads of the bucket and of
\* the guard.
Symmetry == Permutations(Symbols) \cup Permutations(Callers) \cup Permutations(Threads)

\* The sum of notionals, written as a sum, agrees with the count of units.
ASSUME UnitsAreASum ==
  \A D \in SUBSET (1 .. 3) : \A f \in [D -> [notional : 0 .. 2]] :
    NotionalOf(f, D) = SumFunction([k \in D |-> f[k].notional])
=============================================================================
