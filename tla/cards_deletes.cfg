SPECIFICATION Spec
CONSTANTS
  alice = alice  bob = bob  o1 = o1  o2 = o2  c1 = c1  c2 = c2  c3 = c3
  h1 = h1  h2 = h2  h3 = h3  nobody = nobody
  OrderIds = {o1, o2}
  Orders = {o1, o2}
  Accounts = {alice}
  Clients = {c1, c2, c3}
  Handlers = {h1, h2}
  NoCaller = nobody
  CardKeyGenerated = TRUE
  MaxTied = 2
  MaxFaults = 0
  MaxProcesses = 1
  Timely = TRUE
  Deletable = TRUE
  FlagValues = {FALSE}
SYMMETRY Symmetric
CHECK_DEADLOCK FALSE
INVARIANTS NoOrderStranded
