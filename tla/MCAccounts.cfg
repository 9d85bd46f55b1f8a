SPECIFICATION Spec
CONSTANTS
  UserIds = {"u1", "u2"}
  AccessLife = 1
  RefreshLife = 2
  NoToken = NoToken
  LastMoment = 4
  MaxTokens = 4
  Emails = {"e1", "e2"}
  Names = {"n1", "n2"}
  Customers = {"c1", "c2"}
  Addresses = {"a1", "a2", "a3"}
  Procs = {"p1", "p2"}
  None = None
  SubIds = {"s1"}
  Statuses = {"trialing", "active", "past_due", "canceled"}
  Campaigns <- MCCampaigns
INVARIANTS
  OneOwnerEach
  SuccessIsComplete
  RedeliveryRepairs
PROPERTIES
  SessionsEnd
CHECK_DEADLOCK FALSE
