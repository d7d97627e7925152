SPECIFICATION FairSpec
CONSTANTS
  Ifs = {"wlan0", "eth0"}
  Wireless = {"wlan0"}
  Worlds <- MCWorlds
INVARIANTS TypeOK SavedIsUsed
PROPERTY CancelLeadsOut
CHECK_DEADLOCK FALSE
