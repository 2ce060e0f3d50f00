SPECIFICATION Spec
CONSTANTS
  alice = alice  bob = bob  nobody = nobody
  NoUser = nobody
  Users <- MCUsers
  Registered <- MCRegistered
  Elsewhere <- MCNone
  Keys <- MCSessionKeys
  Visited <- MCSessionPages
  Reloaded <- MCNone
  Slots <- MCTwo
  MaxVersion = 2
  MaxFailures = 1
INVARIANTS TypeOK NoForeignData ReadYourWrites RefreshIsRead
