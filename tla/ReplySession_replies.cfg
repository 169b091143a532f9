SPECIFICATION SessionSpec
CONSTANTS
  a1 = a1
  a2 = a2
  c1 = c1
  f1 = f1
  NoReply = NoReply
  Unlimited = Unlimited
  NoCost = NoCost
  NoHold = NoHold
  NoCall = NoCall
  Grid = 3
  MaxUnits = 72
  Rate = 1
  Granted = 10
  Ids <- MCIds
  FlowOf <- MCFlowOf
  ReplyOf <- MCReplyOf
  Round <- MCRound
  KAttempts = {a1, a2}
  Quotes = {2}
  Costs = {1, 3}
  Amounts = {3, 6, 9}
  MaxCalls = 4
  Conversation = f1
  ChatSteps <- MCSteps
  Helpers <- MCHelpers
  Usages = {1}
  Minimum = 3
  Preferred = 9
INVARIANTS
  TypeOK
  FundsConserved
  FlowsChargedAsOne
  RecoverySparesOthers
  ReservationsSettle
  GroupMatchesAttempts
  SettlementsAccepted
  CallsRecorded
PROPERTIES
  ChargesFinal
CHECK_DEADLOCK FALSE
