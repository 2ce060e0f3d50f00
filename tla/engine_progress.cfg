SPECIFICATION MCSpec
CONSTANTS
  owner = owner  alice = alice  share = share
  r1 = r1  b1 = b1  b2 = b2  c1 = c1  c2 = c2  c3 = c3  c4 = c4
  Accounts = {owner, alice}
  Owner = owner
  Instruments = {share}
  Requests = {r1}
  Batches = {b1, b2}
  Ppt <- MCPpt
  Amounts = {2}
  Quantities = {1}
  Prices = {1, 2}
  OpeningBalance <- MCOpeningBalance
  OpeningOwned <- MCNothingOwned
  OpeningTrades <- MCTwoTrades
  Serial = FALSE
  Starts = {c1, c2}  Stops = {c3, c4}
  Boot = Boot
  Posts = {b1, b2}
  None = None
  MaxFaults = 1

INVARIANTS RunningIsTrue BatchesExplained
PROPERTIES ExpiredIsClosed ClosedIsTold RequestsAnswered
CHECK_DEADLOCK FALSE
