SPECIFICATION Spec
CONSTANTS
  c1 = c1
  h1 = h1
  h2 = h2
  g1 = g1
  r1 = r1
  r2 = r2
  f1 = f1
  a1 = a1
  a2 = a2
  NoReply = NoReply
  Unlimited = Unlimited
  NoCost = NoCost
  Grid = 2
  MaxUnits = 16
  Rate = 1
  Granted = 5
  Ids <- MCIds
  FlowOf <- MCFlowOf
  ReplyOf <- MCReplyOf
  Round <- MCRound
  KAttempts = {a1, a2}
  Quotes = {1, 3}
  Costs = {1, 3}
  Amounts = {2, 4}
  MaxCalls = 2
INVARIANTS EveryReservationSettles
CHECK_DEADLOCK FALSE
