SPECIFICATION Spec
CONSTANTS
  Writers = {worker, reaper}
  Clients = {c1}
  MaxEvents = 3
  MaxDrops = 0
PROPERTY StreamCloses
