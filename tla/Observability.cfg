SPECIFICATION Spec
CONSTANTS
  None = None
  t1 = t1
  t2 = t2
  a1 = a1
  gpt4 = gpt4
  Tenants = {t1}
  Agents = {a1}
  Models = {"gpt4", "other"}
  Pricing <- MCPricing
  MaxTraces = 2
  TraceLimit = 3
  SpanLimit = 7
  Events <- MCEvents
  RequestLimit = 4
  DemoLimit = 1
INVARIANTS
  NewestKept
  TotalsFollowEvents
  SpanTablesAgree
PROPERTIES
  TracesApart
CHECK_DEADLOCK FALSE
