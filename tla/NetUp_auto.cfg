SPECIFICATION FairSpec
CONSTANTS
  Ifs = {"wlan0", "eth0"}
  Wireless = {"wlan0"}
  Worlds <- WorkingAsCoded
PROPERTY AutomaticInstalls
CHECK_DEADLOCK FALSE
