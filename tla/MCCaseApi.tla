-------------------------- MODULE MCCaseApi --------------------------
(* One incident of one provider, and the operator of that provider.          *)
EXTENDS CaseApi

CONSTANTS i1, opsA, pA, agentRole, riskReviewer

MCProviderOf == [x \in Actors |-> pA]
MCScopeOf == [i \in Incidents |-> {pA}]
=============================================================================
