SPECIFICATION Spec
CONSTANTS
  owner = owner  alice = alice  bob = bob  share = share
  r1 = r1  r2 = r2  r3 = r3  b1 = b1  b2 = b2
  Accounts = {owner, alice}
  Owner = owner
  Instruments = {share}
  Requests = {r1, r2}
  Batches = {b1}
  Ppt <- MCPpt
  Amounts = {2}
  Quantities = {1}
  Prices = {1, 2}
  OpeningBalance <- MCOpeningBalance
  OpeningOwned <- MCOneOwned
  OpeningTrades <- MCBuyAndSell
  Serial = FALSE
SYMMETRY RequestSymmetry
INVARIANTS TypeOK LastEntryMatchesBalance NoNegativeHolding
INVARIANTS UnitsSound ThreeEntriesPerTrade ClosedIsAnnounced
PROPERTY ClosedForGood
