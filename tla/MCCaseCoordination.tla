-------------------------- MODULE MCCaseCoordination --------------------------
(* Two incidents, one of a single provider and one shared; a field officer   *)
(* without a provider and an operator of the other provider.                 *)
EXTENDS CaseCoordination

CONSTANTS i1, i2, officer, opsB, pA, pB, agentRole, riskReviewer

MCProviderOf == [x \in Actors |->
  IF x = opsB THEN pB ELSE NoProvider]
MCScopeOf == [i \in Incidents |-> IF i = i1 THEN {pA} ELSE {}]
=============================================================================
