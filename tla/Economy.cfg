SPECIFICATION Spec
CONSTANTS
  t1 = t1
  t2 = t2
  a1 = a1
  c1 = c1
  c2 = c2
  None = None
  Tenants <- MCTenants
  AgentIds <- MCAgentIds
  Calls <- MCCalls
  Categories <- MCCategories
  AgentShare <- MCAgentShare
  PluginShare <- MCPluginShare
  Pricings <- MCPricings
  PluginPrices = {0, 20}
  PageLimit = 1
  PluginLimit = 1
  RequestLimit = 5
  BooksLimit = 2
SYMMETRY Symmetry
INVARIANT BooksBalance
INVARIANT SalesAccounted
PROPERTY ShownStays
CHECK_DEADLOCK FALSE
