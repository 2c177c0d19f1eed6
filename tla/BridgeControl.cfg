SPECIFICATION FairSpec
CONSTANTS
  test = test
  update = update
  Commands = {test, update}
  Updates = {update}
  NoCommand = none
  MaxLoops = 2
  MaxFaults = 1
INVARIANTS TypeOK RunsOncePerLoop NoCommandDropped
PROPERTIES CommandsArrive
