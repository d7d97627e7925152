SPECIFICATION Spec
CONSTANTS
  NSlots = 3
  FirstUsable = 1
  LastUsable = 5
  Align = 2
  Cylinder = 1
  MinSize = 2
  Kinds = {"data"}
  Labels = {"gpt", "none"}
  Layouts <- MCTight
  Uses = {"fs", "mounted", "magic"}
  Readonly = {TRUE, FALSE}
  Operations = {"add", "remove", "init", "type", "resize", "mount"}
  MaxQueue = 2
INVARIANT TypeOK
INVARIANT WrittenIsApart
INVARIANT KernelKnowsDisk
PROPERTY MountedKept
PROPERTY OnlyTinyHolesOverlap
CHECK_DEADLOCK FALSE
