SPECIFICATION Spec
CONSTANTS
  first = first  second = second
  Slots = {first, second}
  Entrances = {"index", "status"}
  MaxOrders = 2
  MaxFaults = 1
SYMMETRY Symmetric
CONSTRAINT FewCalls
INVARIANTS TypeOK SettledIsCurrent FormsAreReleased
PROPERTIES NoCrash RevokesWhatItShows
