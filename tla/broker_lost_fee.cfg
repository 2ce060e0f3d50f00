SPECIFICATION Spec
CONSTANTS
  owner = owner  alice = alice  bob = bob  share = share
  r1 = r1  r2 = r2  r3 = r3  b1 = b1  b2 = b2
  Accounts = {owner, alice, bob}
  Owner = owner
  Instruments = {share}
  Requests = {r1, r2}
  Batches = {}
  Ppt <- MCPpt
  Amounts = {}
  Quantities = {1}
  Prices = {1}
  OpeningBalance <- MCOpeningBalance
  OpeningOwned <- MCNothingOwned
  OpeningTrades <- MCNoTrades
  Serial = FALSE
CHECK_DEADLOCK FALSE
INVARIANT OwnerReceivesFees

