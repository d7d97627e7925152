SPECIFICATION FairSpec
CONSTANTS
  hda1 = hda1
  hdb5 = hdb5
  hdb7 = hdb7
  cd1 = cd1
  cd2 = cd2
  root = root
  cooker = cooker
  iso = iso
  broken = broken
  other = other
  dvd = dvd
  hda = hda
  hdb = hdb
  Nothing = Nothing
  Drives <- TwoDrives
  Parts <- ThreePartitions
  DiskOf <- ThreePartitionsDisks
  Dirs = {root, cooker}
  Root = root
  Isos = {iso, broken, other, dvd}
  DirOf <- IsoDirs
  Exists <- AllPaths
  Trees <- TreePaths
  Bare <- BarePaths
  Unreadable = {broken}
  LateNodes = {cd1, hdb7}
INVARIANTS TypeOK NothingLeftMounted Stage2FindsMedium
PROPERTY AutomaticSettles
CHECK_DEADLOCK FALSE
