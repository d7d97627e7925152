SPECIFICATION OrderlySpec
CONSTANTS
  NSlots = 3
  FirstUsable = 1
  LastUsable = 6
  Align = 2
  Cylinder = 2
  MinSize = 2
  Kinds = {"data"}
  Labels = {"gpt", "none"}
  Layouts <- MCLayouts
  Uses = {"fs", "mounted"}
  Readonly = {FALSE}
  Operations = {"add", "remove", "init", "resize", "mount"}
  MaxQueue = 3
INVARIANT CleanMeansWritten
INVARIANT QueueReplays
PROPERTY RightDevice
PROPERTY ImplementsSavedTable
CHECK_DEADLOCK FALSE
