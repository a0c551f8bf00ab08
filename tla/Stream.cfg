SPECIFICATION Spec
CONSTANTS
  Writers = {worker, reaper}
  Clients = {c1}
  MaxEvents = 4
  MaxDrops = 2
INVARIANTS TypeOK StreamInv InOrderOnce NoHoles
PROPERTIES TerminalReachesClients
