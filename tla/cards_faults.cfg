SPECIFICATION Spec
CONSTANTS
  alice = alice  bob = bob  o1 = o1  o2 = o2  c1 = c1  c2 = c2  c3 = c3
  h1 = h1  h2 = h2  h3 = h3  nobody = nobody
  OrderIds = {o1}
  Orders = {o1}
  Accounts = {alice}
  Clients = {c1}
  Handlers = {h1, h2, h3}
  NoCaller = nobody
  CardKeyGenerated = TRUE
  MaxTied = 2
  MaxFaults = 1
  MaxProcesses = 2
  Timely = FALSE
  Deletable = FALSE
  FlagValues = {TRUE, FALSE}
SYMMETRY Symmetric
CHECK_DEADLOCK FALSE
INVARIANTS TypeOK StatusIsBacked
