SPECIFICATION FairSpec
CONSTANTS
  alice = alice  bob = bob  nobody = nobody
  NoUser = nobody
  Users <- MCTrader
  Registered <- MCTrader
  Elsewhere <- MCTrader
  Keys <- MCTradeKeys
  Visited <- MCTradePages
  Reloaded <- MCReloaded
  Slots <- MCOne
  MaxVersion = 2
  MaxFailures = 0
INVARIANTS AwaitedIsRead RefreshIsRead
PROPERTIES GuardsHold HoldingsCatchUp
