SPECIFICATION Spec
CONSTANTS
  owner = owner  alice = alice  bob = bob  share = share
  r1 = r1  r2 = r2  r3 = r3  b1 = b1  b2 = b2
  Accounts = {owner, alice}
  Owner = owner
  Instruments = {share}
  Requests = {r1, r2}
  Batches = {b1}
  Ppt <- MCPpt
  Amounts = {1}
  Quantities = {0, 1}
  Prices = {1}
  OpeningBalance <- MCSmallBalance
  OpeningOwned <- MCNothingOwned
  OpeningTrades <- MCBuyAndSell
  Serial = TRUE
SYMMETRY RequestSymmetry
INVARIANTS ChainUnbroken OneRowPerHolding
PROPERTIES OnlySalesOverdraw ImplementsLedger
