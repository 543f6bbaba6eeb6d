SPECIFICATION ApiSpec
CONSTANTS
  i1 = i1
  opsA = opsA
  pA = pA
  agentRole = agentRole
  riskReviewer = riskReviewer
  Incidents = {i1}
  Actors = {opsA}
  Providers = {pA}
  NoProvider = NoProvider
  ProviderOf <- MCProviderOf
  ScopeOf <- MCScopeOf
  Roles = {agentRole, riskReviewer}
  AgentRole = agentRole
  Advice = {"P2"}
  Times = {0, 1}
  Nobody = Nobody
  MaxAudit = 4
  Workers = {w1, w2}
  Idle = Idle
  Unread = Unread
  MaxTime = 1
  MaxRequests = 3
INVARIANT AuditTimeline
