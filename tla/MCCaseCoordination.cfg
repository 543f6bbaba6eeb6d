SPECIFICATION Spec
CONSTANTS
  i1 = i1
  i2 = i2
  officer = officer
  opsB = opsB
  pA = pA
  agentRole = agentRole
  riskReviewer = riskReviewer
  pB = pB
  Incidents = {i1, i2}
  Actors = {officer, opsB}
  Providers = {pA, pB}
  NoProvider = NoProvider
  ProviderOf <- MCProviderOf
  ScopeOf <- MCScopeOf
  Roles = {agentRole, riskReviewer}
  AgentRole = agentRole
  Advice = {"P2"}
  Times = {1}
  Nobody = Nobody
  MaxAudit = 5
INVARIANTS
  HistoryChained
  AuditNumbering
  FieldsFollowHistory
  ProviderBoundary
PROPERTY LogRefinement
