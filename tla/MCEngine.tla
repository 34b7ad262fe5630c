------------------------------ MODULE MCEngine -----------------------------
EXTENDS Engine, TLC
CONSTANTS NCrash, NPg, NRedis, NSignal, NApi, NDog, NLink

MCBudget ==
  [k \in FaultKinds |->
     CASE k = "crash" -> NCrash [] k = "pg" -> NPg [] k = "redis" -> NRedis
       [] k = "signal" -> NSignal [] k = "api" -> NApi [] k = "dog" -> NDog
       [] k = "link" -> NLink]
OwnId == [w \in Workers |-> w]
\* docker-compose.yml:36, under replicas: 3.
SharedId == [w \in Workers |-> CHOOSE i \in Ids : TRUE]
MCTwoOutcomes == {Fallback, [timedOut |-> FALSE, exitCode |-> 0]}
Symmetry == Permutations(Jobs) \cup Permutations(Workers)
=============================================================================
