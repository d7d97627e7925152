-------------------------- MODULE DiskMethods_proofs --------------------------
(***************************************************************************)
(* For any drives, discs, disks, partitions, directories and ISO files,    *)
(* good or bad, and any series of attempts: failed ones leave nothing      *)
(* mounted, stage2 finds the medium of the one that did not, and the       *)
(* automatic mode does not go round (module DiskMethods).                  *)
(***************************************************************************)
EXTENDS DiskMethods, TLAPS, SequenceTheorems, FiniteSetTheorems

Methods == {"disk", "disk-iso", "cdrom", Nothing}
Envs    == [method : Methods, isopath : Isos \union {Nothing}]

Types ==
  /\ auto \in BOOLEAN
  /\ dev \in Devices \union {Nothing} /\ where \in Paths \union {Nothing}
  /\ tried \subseteq Driveset /\ node \subseteq Devices
  /\ scan \subseteq Isos /\ found \subseteq Isos
  /\ disc \in [Driveset -> Discs]
  /\ media \in Devices \union {Nothing} /\ loop \in Isos \union {Nothing}
  /\ image \in Dirs \union {"loop", Nothing}
  /\ env \in Envs /\ todo \in Seq(Devices)

(* Where the code is, and what is mounted there: nothing, the partition,   *)
(* or the disc; and the ISO file only when all is done.                    *)
Resting     == Questions \union {"auto disk", "auto cdrom", "drive"}
InDirectory == {"directory", "isos", "which", "locate",
                "auto directory", "auto isos", "auto which", "auto locate"}
FromList    == {"auto disk", "auto umount", "auto directory", "auto isos", "auto which", "auto locate"}
OnPartition == InDirectory \union {"directory?", "auto umount"}
OnDisc      == {"disc", "auto disc"}

Mounts ==
  /\ pc \in Resting \union OnPartition \union OnDisc \union {"done"}
  /\ pc # "done" => loop = Nothing
  /\ pc \in Resting => media = Nothing
  /\ pc \in OnPartition => media = dev /\ dev \in Partset
  /\ pc \in OnDisc => media = dev /\ dev \in Driveset /\ image = Root
  /\ pc \in {"drive", "retry?"} => dev \in Driveset
  /\ pc \in InDirectory => where \in Paths
  /\ pc \in FromList => todo \in Seq(Partset)
  /\ pc \in {"auto cdrom", "auto disc"} => todo \in Seq(Driveset)

IInv == Types /\ Mounts /\ Stage2FindsMedium

Facts ==
  /\ Root \in Dirs /\ Driveset \cap Partset = {} /\ Drives \in Seq(Driveset) /\ Parts \in Seq(Partset)
  /\ Nothing \notin Devices /\ Nothing \notin Paths /\ "loop" \notin Paths /\ "loop" \notin Devices

LEMMA InitInv == Init => IInv
<1> SUFFICES ASSUME Init PROVE IInv
  OBVIOUS
<1>1. Types
  BY DEF Init, Types, Envs, Methods
<1>2. Mounts /\ Stage2FindsMedium
  BY DEF Init, Mounts, Stage2FindsMedium, Resting, Questions, OnPartition, InDirectory, FromList, OnDisc
<1> QED BY <1>1, <1>2 DEF IInv

LEMMA Contents == Facts
  BY ContentsAssumption DEF Facts, Devices, Paths

-----------------------------------------------------------------------------
(* Steps that only go elsewhere. *)
LEMMA GoesOn ==
  ASSUME IInv, auto' \in BOOLEAN, UNCHANGED <<place, system>>, pc # "done",
         \/ pc \in Resting /\ pc' \in Resting /\ pc' \notin {"drive", "retry?", "auto disk", "auto cdrom"}
         \/ pc = "retry?" /\ pc' \in {"drive", "cdrom", "insmod cdrom"}
         \/ pc \in InDirectory /\ pc' \in OnPartition /\ (pc' \in InDirectory => where \in Paths)
            /\ (pc' \in FromList => pc \in FromList)
  PROVE  IInv'
<1>1. Types'
  BY DEF IInv, Types, place, system
<1>2. Mounts'
  BY DEF IInv, Mounts, place, system, Resting, Questions, OnPartition, InDirectory, FromList, OnDisc
<1>3. Stage2FindsMedium'
  BY DEF Stage2FindsMedium, Resting, Questions, OnPartition, InDirectory
<1> QED BY <1>1, <1>2, <1>3 DEF IInv

LEMMA QuestionsKeep ==
  ASSUME IInv, \/ \E m \in {"disk", "cdrom"} : AskInsmod(m)
               \/ NoPartitionGood \/ SelectDisk \/ NoPartition \/ NoDriveGood \/ Retry
  PROVE  IInv'
<1>1. auto' \in BOOLEAN /\ UNCHANGED <<place, system>>
  BY DEF AskInsmod, NoPartitionGood, SelectDisk, NoPartition, NoDriveGood, Retry, IInv, Types
<1>2. \/ pc \in Resting /\ pc' \in Resting /\ pc' \notin {"drive", "retry?", "auto disk", "auto cdrom"}
      \/ pc = "retry?" /\ pc' \in {"drive", "cdrom", "insmod cdrom"}
  <2>1. CASE \E m \in {"disk", "cdrom"} : AskInsmod(m)
    <3>1. pc \in {"insmod disk", "insmod cdrom"} /\ pc' \in {"method", "disk", "cdrom"}
      <4>1. Insmod["disk"] = "insmod disk" /\ Insmod["cdrom"] = "insmod cdrom"
        BY DEF Insmod
      <4> QED BY <2>1, <4>1 DEF AskInsmod
    <3> QED BY <3>1 DEF Resting, Questions
  <2>2. CASE SelectDisk
    <3>1. pc = "disk" /\ pc' \in {"partition", "insmod disk", "method"}
      BY <2>2 DEF SelectDisk
    <3> QED BY <3>1 DEF Resting, Questions
  <2>3. CASE Retry
    BY <2>3 DEF Retry
  <2>4. CASE NoPartitionGood \/ NoPartition \/ NoDriveGood
    BY <2>4 DEF NoPartitionGood, NoPartition, NoDriveGood, Resting, Questions
  <2> QED BY <2>1, <2>2, <2>3, <2>4
<1>3. pc # "done"
  BY <1>2 DEF Resting, Questions
<1> QED BY <1>1, <1>2, <1>3, GoesOn

LEMMA DirectoryGoesOn ==
  ASSUME IInv, ToLocate \/ IsoNotMounted
  PROVE  IInv'
<1>1. auto' \in BOOLEAN /\ UNCHANGED <<place, system>>
  BY DEF ToLocate, IsoNotMounted, IInv, Types
<1>2. pc \in InDirectory /\ pc' \in OnPartition
  BY DEF ToLocate, IsoNotMounted, Goto, AutoStep, Return, ForAuto, InDirectory, OnPartition
<1>3. pc' \in FromList => pc \in FromList
  BY DEF ToLocate, IsoNotMounted, Goto, AutoStep, Return, ForAuto, FromList
<1>4. where \in Paths /\ pc # "done"
  BY <1>2 DEF IInv, Mounts, InDirectory
<1> QED BY <1>1, <1>2, <1>3, <1>4, GoesOn

(* A mount where nothing is mounted. *)
LEMMA Mounting ==
  ASSUME Types, NEW d \in Devices, MountMedia(d)
  PROVE  /\ node' \subseteq Devices
         /\ media' = IF MountsNow(d) THEN d ELSE media
         /\ media' \in Devices \union {Nothing}
  BY DEF MountMedia, Types

LEMMA Unmounting ==
  ASSUME IInv, pc # "done", UmountMedia
  PROVE  media' = Nothing
  BY DEF IInv, Mounts, UmountMedia

-----------------------------------------------------------------------------
(* The steps of disk_prepare. *)
LEMMA DiskKeeps == IInv /\ Disk => IInv'
<1> SUFFICES ASSUME IInv, Disk PROVE IInv'
  OBVIOUS
<1> USE DEF IInv
<1>1. CASE TryAllPartitions
  <2>1. /\ pc = "disk" /\ pc' = "auto disk" /\ todo' = Parts
        /\ UNCHANGED <<auto, dev, tried, where, scan, found, node, disc, media, loop, image, env>>
    BY <1>1 DEF TryAllPartitions, system
  <2>2. todo' \in Seq(Partset) /\ todo' \in Seq(Devices)
    BY <2>1, Contents, SeqMonotonic DEF Facts, Devices
  <2> QED BY <2>1, <2>2 DEF Types, Mounts, Stage2FindsMedium, Resting, Questions, OnPartition, InDirectory, FromList, OnDisc
<1>2. CASE TryPartition
  <2>1. /\ pc = "auto disk" /\ todo # <<>> /\ dev' = Head(todo) /\ todo' = Tail(todo) /\ MountMedia(dev')
        /\ image' \in {Root, image}
        /\ \/ MountsNow(dev') /\ where' = Root /\ pc' = "auto directory"
           \/ where' = where /\ pc' = IF MountsNow(dev') THEN "auto umount" ELSE "auto disk"
        /\ UNCHANGED <<auto, tried, scan, found, disc, loop, env>>
    BY <1>2 DEF TryPartition
  <2>2. dev' \in Partset /\ dev' \in Devices /\ todo' \in Seq(Partset) /\ todo' \in Seq(Devices)
    BY <2>1, HeadTailProperties DEF Types, Mounts, FromList, Devices
  <2>3. /\ node' \subseteq Devices /\ media' = IF MountsNow(dev') THEN dev' ELSE media
        /\ media' \in Devices \union {Nothing}
    <3>1. PICK d \in Devices : d = dev'
      BY <2>2
    <3> QED BY <2>1, <3>1, Mounting
  <2>4. media = Nothing /\ loop = Nothing
    BY <2>1 DEF Mounts, Resting
  <2>5. Root \in Dirs /\ Root \in Paths
    BY Contents DEF Facts, Paths
  <2>6. Types'
    BY <2>1, <2>2, <2>3, <2>5 DEF Types
  <2>7. Mounts'
    BY <2>1, <2>2, <2>3, <2>4, <2>5 DEF Mounts, Resting, Questions, OnPartition, InDirectory, FromList, OnDisc
  <2>8. Stage2FindsMedium'
    BY <2>1 DEF Stage2FindsMedium
  <2> QED BY <2>6, <2>7, <2>8
<1>3. CASE UmountPartition
  <2>1. /\ pc = "auto umount" /\ pc' = "auto disk" /\ UmountMedia
        /\ UNCHANGED <<auto, dev, todo, tried, where, scan, found, node, disc, loop, image, env>>
    BY <1>3 DEF UmountPartition, place
  <2>2. media' = Nothing
    BY <2>1, Unmounting
  <2>3. Types' /\ Stage2FindsMedium'
    BY <2>1, <2>2 DEF Types, Stage2FindsMedium
  <2>4. todo \in Seq(Partset)
    BY <2>1 DEF Mounts, FromList
  <2> QED BY <2>1, <2>2, <2>3, <2>4 DEF Mounts, Resting, Questions, OnPartition, InDirectory, FromList, OnDisc
<1>4. CASE NoPartitions
  <2>1. pc = "auto disk" /\ auto' = FALSE
        /\ UNCHANGED <<pc, dev, tried, where, scan, found, node, disc, media, loop, image, env>>
    BY <1>4 DEF NoPartitions, system
  <2>2. todo' \in Seq(Partset) /\ todo' \in Seq(Devices)
    <3>1. PICK k \in DOMAIN todo : todo' = SubSeq(todo, k + 1, Len(todo))
      BY <1>4 DEF NoPartitions
    <3>2. todo \in Seq(Partset)
      BY <2>1 DEF Mounts, FromList
    <3>3. k + 1 \in Nat \ {0} /\ Len(todo) \in Nat /\ \A i \in k + 1 .. Len(todo) : todo[i] \in Partset
      BY <3>2, LenProperties, ElementOfSeq
    <3>4. todo' \in Seq(Partset)
      BY <3>1, <3>3, SubSeqProperties
    <3> QED BY <3>4, SeqMonotonic DEF Devices
  <2> QED BY <2>1, <2>2 DEF Types, Mounts, Stage2FindsMedium, Resting, Questions, OnPartition, InDirectory, FromList, OnDisc
<1>5. CASE NoPartitionGood
  BY <1>5, QuestionsKeep
<1> QED BY <1>1, <1>2, <1>3, <1>4, <1>5 DEF Disk

-----------------------------------------------------------------------------
(* The steps of try_with_directory. *)
LEMMA DirectoryKeeps == IInv /\ Directory => IInv'
<1> SUFFICES ASSUME IInv, Directory PROVE IInv'
  OBVIOUS
<1> USE DEF IInv
<1>1. CASE StartDirectory
  <2>1. /\ pc \in {"directory", "auto directory"} /\ image' = Nothing /\ scan' \subseteq Isos /\ found' = {}
        /\ UNCHANGED <<auto, dev, todo, tried, where, node, disc, media, loop, env>>
    BY <1>1 DEF StartDirectory
  <2>2. pc' = IF pc = "directory" THEN "isos" ELSE "auto isos"
    BY <1>1, <2>1 DEF StartDirectory, Goto, ForAuto, AutoStep
  <2>3. Types' /\ Stage2FindsMedium'
    BY <2>1, <2>2 DEF Types, Stage2FindsMedium
  <2>4. Mounts'
    BY <2>1, <2>2 DEF Mounts, Resting, Questions, OnPartition, InDirectory, FromList, OnDisc
  <2> QED BY <2>3, <2>4
<1>2. ASSUME NEW i \in Isos, LookInto(i) PROVE IInv'
  <2>1. /\ pc' = pc /\ pc \in {"isos", "auto isos"} /\ scan' \subseteq Isos /\ found' \subseteq Isos
        /\ UNCHANGED <<auto, dev, todo, tried, where, node, disc, media, loop, image, env>>
    BY <1>2 DEF LookInto, system, Types
  <2>2. Types' /\ Stage2FindsMedium' /\ Mounts'
    BY <2>1 DEF Types, Stage2FindsMedium, Mounts
  <2> QED BY <2>2
<1>3. CASE Locate
  <2>1. /\ pc \in {"locate", "auto locate"} /\ image' = Target /\ loop' = IsoLeft
        /\ env' = [method |-> Method, isopath |-> IsoPath]
        /\ auto' \in BOOLEAN /\ UNCHANGED <<dev, todo, tried, where, scan, found, node, disc, media>>
        /\ pc' = IF Good THEN "done" ELSE IF pc = "auto locate" THEN "auto umount" ELSE "directory?"
    BY <1>3 DEF Locate, Located, Return, ForAuto, place
  <2>2. /\ where \in Paths /\ media = dev /\ dev \in Partset /\ loop = Nothing
        /\ pc = "auto locate" => todo \in Seq(Partset)
    BY <2>1 DEF Mounts, OnPartition, InDirectory, FromList
  <2>3. media \notin Driveset /\ where # "loop" /\ where # Nothing
    BY <2>2, Contents DEF Facts
  <2>4. /\ env'.method = IF where \in Isos THEN "disk-iso" ELSE "disk"
        /\ env'.isopath = IF where \in Isos THEN where ELSE env.isopath
        /\ env' = [method |-> env'.method, isopath |-> env'.isopath]
    BY <2>1 DEF Method, IsoPath
  <2>5. Types'
    <3>1. env' \in Envs
      BY <2>4 DEF Types, Envs, Methods
    <3>2. image' \in Dirs \union {"loop", Nothing} /\ loop' \in Isos \union {Nothing}
      BY <2>1, <2>2 DEF Target, IsoLeft, Paths
    <3> QED BY <2>1, <3>1, <3>2 DEF Types
  <2>6. ~Good => loop' = Nothing
    BY <2>1 DEF IsoLeft
  <2>7. Mounts'
    BY <2>1, <2>2, <2>6 DEF Mounts, Resting, Questions, OnPartition, InDirectory, FromList, OnDisc
  <2>8. CASE Good /\ where \in Isos
    <3>1. image' = "loop" /\ loop' = where /\ env'.method = "disk-iso" /\ env'.isopath = where
      BY <2>1, <2>4, <2>8 DEF Target, IsoLeft
    <3>2. <<media, where>> \in Trees \union Bare
      BY <2>8 DEF Good, Holds, Target
    <3> QED BY <2>1, <2>2, <2>3, <2>5, <2>7, <3>1, <3>2 DEF Stage2FindsMedium, Holds
  <2>9. CASE Good /\ where \notin Isos
    <3>1. image' = where /\ env'.method = "disk"
      BY <2>1, <2>4, <2>9 DEF Target
    <3>2. <<media, where>> \in Trees \union Bare
      BY <2>3, <2>9 DEF Good, Holds, Target
    <3> QED BY <2>1, <2>2, <2>3, <2>5, <2>7, <3>1, <3>2 DEF Stage2FindsMedium, Holds
  <2>10. CASE ~Good
    BY <2>1, <2>5, <2>7, <2>10 DEF Stage2FindsMedium
  <2> QED BY <2>8, <2>9, <2>10
<1> QED BY <1>1, <1>2, <1>3, DirectoryGoesOn DEF Directory

-----------------------------------------------------------------------------
(* The steps of cdrom_prepare. *)

(* A disc that is found to be good is where stage2 looks for it.           *)
LEMMA DiscFound ==
  ASSUME Types, media = dev, dev \in Driveset, image = Root, loop = Nothing, image_has_stage2(loop, image),
         env' = [env EXCEPT !.method = "cdrom"], UNCHANGED <<dev, media, disc, loop, image>>
  PROVE  Stage2FindsMedium' /\ env' \in Envs
<1>1. Root # "loop"
  BY Contents DEF Facts, Paths
<1>2. env' \in Envs /\ env'.method = "cdrom"
  BY DEF Types, Envs, Methods
<1>3. disc[media] = "distribution"
  BY <1>1 DEF image_has_stage2, Holds
<1> QED BY <1>1, <1>2, <1>3 DEF Stage2FindsMedium, Holds

LEMMA CdromKeeps == IInv /\ Cdrom => IInv'
<1> SUFFICES ASSUME IInv, Cdrom PROVE IInv'
  OBVIOUS
<1> USE DEF IInv
<1>1. CASE TryAllDrives
  <2>1. /\ pc = "cdrom" /\ pc' = "auto cdrom" /\ todo' = Drives
        /\ UNCHANGED <<auto, dev, tried, where, scan, found, node, disc, media, loop, image, env>>
    BY <1>1 DEF TryAllDrives, system
  <2>2. todo' \in Seq(Driveset) /\ todo' \in Seq(Devices)
    BY <2>1, Contents, SeqMonotonic DEF Facts, Devices
  <2>3. Types' /\ Stage2FindsMedium'
    BY <2>1, <2>2 DEF Types, Stage2FindsMedium
  <2> QED BY <2>1, <2>2, <2>3 DEF Mounts, Resting, Questions, OnPartition, InDirectory, FromList, OnDisc
<1>2. CASE AlreadyTried
  <2>1. /\ pc = "auto cdrom" /\ pc' = pc /\ todo # <<>> /\ todo' = Tail(todo)
        /\ UNCHANGED <<auto, dev, tried, where, scan, found, node, disc, media, loop, image, env>>
    BY <1>2 DEF AlreadyTried, system
  <2>2. todo' \in Seq(Driveset) /\ todo' \in Seq(Devices)
    BY <2>1, HeadTailProperties DEF Types, Mounts
  <2>3. Types' /\ Stage2FindsMedium'
    BY <2>1, <2>2 DEF Types, Stage2FindsMedium
  <2> QED BY <2>1, <2>2, <2>3 DEF Mounts, Resting, Questions, OnPartition, InDirectory, FromList, OnDisc
<1>3. CASE TryDrive
  <2>1. /\ pc = "auto cdrom" /\ todo # <<>> /\ dev' = Head(todo) /\ todo' = Tail(todo) /\ MountMedia(dev')
        /\ image' = Root /\ tried' = tried \union {dev'}
        /\ pc' = IF MountsNow(dev') THEN "auto disc" ELSE "auto cdrom"
        /\ UNCHANGED <<auto, where, scan, found, disc, loop, env>>
    BY <1>3 DEF TryDrive
  <2>2. dev' \in Driveset /\ dev' \in Devices /\ todo' \in Seq(Driveset) /\ todo' \in Seq(Devices)
    BY <2>1, HeadTailProperties DEF Types, Mounts, Devices
  <2>3. /\ node' \subseteq Devices /\ media' = IF MountsNow(dev') THEN dev' ELSE media
        /\ media' \in Devices \union {Nothing}
    <3>1. PICK d \in Devices : d = dev'
      BY <2>2
    <3> QED BY <2>1, <3>1, Mounting
  <2>4. media = Nothing /\ loop = Nothing
    BY <2>1 DEF Mounts, Resting
  <2>5. Types'
    BY <2>1, <2>2, <2>3, Contents DEF Types, Facts
  <2>6. Mounts'
    BY <2>1, <2>2, <2>3, <2>4 DEF Mounts, Resting, Questions, OnPartition, InDirectory, FromList, OnDisc
  <2>7. Stage2FindsMedium'
    BY <2>1 DEF Stage2FindsMedium
  <2> QED BY <2>5, <2>6, <2>7
<1>4. CASE AutoDisc \/ Disc
  <2>1. /\ pc \in OnDisc
        /\ UNCHANGED <<auto, dev, todo, tried, where, scan, found, node, disc, loop, image>>
        /\ \/ /\ image_has_stage2(loop, image) /\ pc' = "done" /\ env' = [env EXCEPT !.method = "cdrom"]
              /\ media' = media
           \/ pc' = (IF pc = "auto disc" THEN "auto cdrom" ELSE "retry?") /\ UmountMedia /\ env' = env
    BY <1>4 DEF AutoDisc, Disc, OnDisc, place
  <2>2. /\ media = dev /\ dev \in Driveset /\ image = Root /\ loop = Nothing /\ pc # "done"
        /\ pc = "auto disc" => todo \in Seq(Driveset)
    BY <2>1 DEF Mounts, OnDisc
  <2>3. CASE pc' = "done" /\ env' = [env EXCEPT !.method = "cdrom"] /\ media' = media /\ image_has_stage2(loop, image)
    <3>1. Stage2FindsMedium' /\ env' \in Envs
      BY <2>1, <2>2, <2>3, DiscFound
    <3>2. Types'
      BY <2>1, <2>3, <3>1 DEF Types
    <3>3. Mounts'
      BY <2>1, <2>2, <2>3 DEF Mounts, Resting, Questions, OnPartition, InDirectory, FromList, OnDisc
    <3> QED BY <3>1, <3>2, <3>3
  <2>4. CASE pc' = (IF pc = "auto disc" THEN "auto cdrom" ELSE "retry?") /\ UmountMedia /\ env' = env
    <3>1. media' = Nothing
      BY <2>2, <2>4, Unmounting
    <3>2. Types' /\ Stage2FindsMedium'
      BY <2>1, <2>4, <3>1 DEF Types, Stage2FindsMedium
    <3>3. Mounts'
      BY <2>1, <2>2, <2>4, <3>1 DEF Mounts, Resting, Questions, OnPartition, InDirectory, FromList, OnDisc
    <3> QED BY <3>2, <3>3
  <2> QED BY <2>1, <2>3, <2>4
<1>5. CASE NoDriveGood
  BY <1>5, QuestionsKeep
<1>6. CASE MountDrive
  <2>1. /\ pc = "drive" /\ MountMedia(dev) /\ image' = Root
        /\ pc' = IF MountsNow(dev) THEN "disc" ELSE "retry?"
        /\ UNCHANGED <<auto, dev, todo, tried, where, scan, found, disc, loop, env>>
    BY <1>6 DEF MountDrive, place
  <2>2. dev \in Driveset /\ dev \in Devices /\ media = Nothing /\ loop = Nothing
    BY <2>1 DEF Mounts, Resting, Devices
  <2>3. /\ node' \subseteq Devices /\ media' = IF MountsNow(dev) THEN dev ELSE media
        /\ media' \in Devices \union {Nothing}
    BY <2>1, <2>2, Mounting
  <2>4. Types' /\ Stage2FindsMedium'
    BY <2>1, <2>3, Contents DEF Types, Facts, Stage2FindsMedium
  <2>5. Mounts'
    BY <2>1, <2>2, <2>3 DEF Mounts, Resting, Questions, OnPartition, InDirectory, FromList, OnDisc
  <2> QED BY <2>4, <2>5
<1> QED BY <1>1, <1>2, <1>3, <1>4, <1>5, <1>6 DEF Cdrom

-----------------------------------------------------------------------------
(* What the user answers. *)
LEMMA AnswersKeep == IInv /\ Answers => IInv'
<1> SUFFICES ASSUME IInv, Answers PROVE IInv'
  OBVIOUS
<1> USE DEF IInv
<1>1. ASSUME NEW m \in {"disk", "cdrom"}, SelectMethod(m) PROVE IInv'
  <2>1. /\ pc = "method" /\ pc' \in {"disk", "cdrom"} /\ image' = Nothing
        /\ UNCHANGED <<auto, dev, todo, tried, where, scan, found, node, disc, media, loop, env>>
    BY <1>1 DEF SelectMethod, place
  <2>2. Types' /\ Stage2FindsMedium'
    BY <2>1 DEF Types, Stage2FindsMedium
  <2> QED BY <2>1, <2>2 DEF Mounts, Resting, Questions, OnPartition, InDirectory, FromList, OnDisc
<1>2. ASSUME NEW p \in Partset, SelectPartition(p) PROVE IInv'
  <2>1. /\ pc = "partition" /\ MountMedia(p) /\ dev' = p
        /\ pc' = IF MountsNow(p) THEN "directory?" ELSE "partition"
        /\ UNCHANGED <<auto, todo, tried, where, scan, found, disc, loop, image, env>>
    BY <1>2 DEF SelectPartition
  <2>2. p \in Devices /\ media = Nothing /\ loop = Nothing
    BY <2>1 DEF Mounts, Resting, Questions, Devices
  <2>3. /\ node' \subseteq Devices /\ media' = IF MountsNow(p) THEN p ELSE media
        /\ media' \in Devices \union {Nothing}
    BY <2>1, <2>2, Mounting
  <2>4. Types' /\ Stage2FindsMedium'
    BY <2>1, <2>2, <2>3 DEF Types, Stage2FindsMedium
  <2> QED BY <2>1, <2>2, <2>3, <2>4 DEF Mounts, Resting, Questions, OnPartition, InDirectory, FromList, OnDisc
<1>3. ASSUME NEW x \in Paths, SelectDirectory(x) PROVE IInv'
  <2>1. /\ pc = "directory?"
        /\ UNCHANGED <<auto, dev, todo, tried, scan, found, node, disc, media, loop, image, env>>
        /\ \/ where' = x /\ pc' = "directory"
           \/ where' = where /\ pc' = pc
    <3>1. CASE <<media, x>> \in Exists
      BY <1>3, <3>1 DEF SelectDirectory, system
    <3>2. CASE <<media, x>> \notin Exists
      BY <1>3, <3>2 DEF SelectDirectory, system
    <3> QED BY <3>1, <3>2
  <2>2. Types' /\ Stage2FindsMedium'
    BY <2>1 DEF Types, Stage2FindsMedium
  <2> QED BY <2>1, <2>2 DEF Mounts, Resting, Questions, OnPartition, InDirectory, FromList, OnDisc
<1>4. ASSUME NEW x \in Paths, SelectIso(x) PROVE IInv'
  <2>1. /\ pc \in {"which", "auto which"} /\ where' = x
        /\ UNCHANGED <<auto, dev, todo, tried, scan, found, node, disc, media, loop, image, env>>
    BY <1>4 DEF SelectIso, system
  <2>2. pc' = IF pc = "which" THEN "locate" ELSE "auto locate"
    BY <1>4, <2>1 DEF SelectIso, Goto, ForAuto, AutoStep
  <2>3. Types' /\ Stage2FindsMedium'
    BY <2>1, <2>2 DEF Types, Stage2FindsMedium
  <2> QED BY <2>1, <2>2, <2>3 DEF Mounts, Resting, Questions, OnPartition, InDirectory, FromList, OnDisc
<1>5. CASE NoDirectory
  <2>1. /\ pc = "directory?" /\ pc' = "partition" /\ UmountMedia
        /\ UNCHANGED <<auto, dev, todo, tried, where, scan, found, node, disc, loop, image, env>>
    BY <1>5 DEF NoDirectory, place
  <2>2. media' = Nothing
    BY <2>1, Unmounting
  <2>3. Types' /\ Stage2FindsMedium'
    BY <2>1, <2>2 DEF Types, Stage2FindsMedium
  <2> QED BY <2>1, <2>2, <2>3 DEF Mounts, Resting, Questions, OnPartition, InDirectory, FromList, OnDisc
<1>6. CASE SelectDrive
  <2>1. /\ pc = "cdrom"
        /\ \/ dev' \in Driveset /\ pc' = "drive"
           \/ dev' = dev /\ pc' = "method"
        /\ UNCHANGED <<auto, todo, tried, where, scan, found, node, disc, media, loop, image, env>>
    BY <1>6 DEF SelectDrive, system
  <2>2. Types' /\ Stage2FindsMedium'
    BY <2>1 DEF Types, Stage2FindsMedium, Devices
  <2> QED BY <2>1, <2>2 DEF Mounts, Resting, Questions, OnPartition, InDirectory, FromList, OnDisc
<1> QED BY <1>1, <1>2, <1>3, <1>4, <1>5, <1>6, QuestionsKeep DEF Answers

LEMMA DiscKeeps ==
  ASSUME IInv, NEW d \in Driveset, ChangeDisc(d)
  PROVE  IInv'
<1> USE DEF IInv
<1>1. /\ pc = "retry?" /\ pc' = pc /\ \E x \in Discs : disc' = [disc EXCEPT ![d] = x]
      /\ UNCHANGED <<auto, dev, todo, tried, where, scan, found, node, media, loop, image, env>>
  BY DEF ChangeDisc, place
<1>2. Types' /\ Stage2FindsMedium'
  BY <1>1 DEF Types, Stage2FindsMedium
<1> QED BY <1>1, <1>2 DEF Mounts

LEMMA StepKeeps == IInv /\ [Next]_vars => IInv'
<1>1. CASE UNCHANGED vars
  <2>1. UNCHANGED <<auto, pc, dev, todo, tried, where, scan, found, node, disc, media, loop, image, env>>
    BY <1>1 DEF vars, place, system
  <2>2. Types => Types'
    BY <2>1 DEF Types
  <2>3. Mounts => Mounts'
    BY <2>1 DEF Mounts
  <2>4. Stage2FindsMedium => Stage2FindsMedium'
    BY <2>1 DEF Stage2FindsMedium, Holds
  <2> QED BY <2>2, <2>3, <2>4 DEF IInv
<1> QED BY <1>1, DiskKeeps, DirectoryKeeps, CdromKeeps, AnswersKeep, DiscKeeps DEF Next

LEMMA Invariance == Spec => []IInv
  BY InitInv, StepKeeps, PTL DEF Spec

-----------------------------------------------------------------------------
(* The state has its type, whatever devices there are and what they hold.  *)
THEOREM TypeCorrect == Spec => []TypeOK
<1>1. IInv => TypeOK
  <2> SUFFICES ASSUME IInv PROVE TypeOK
    OBVIOUS
  <2>1. ToSet(todo) \subseteq Devices
    BY ElementOfSeq, LenProperties DEF IInv, Types, ToSet
  <2>2. env.method \in Methods /\ env.isopath \in Isos \union {Nothing}
    BY DEF IInv, Types, Envs
  <2>3. pc \in Questions \union {"directory?", "directory", "isos", "which", "locate", "drive",
          "disc", "done", "auto disk", "auto umount", "auto directory", "auto isos", "auto which",
          "auto locate", "auto cdrom", "auto disc"}
    BY DEF IInv, Mounts, Resting, OnPartition, InDirectory, OnDisc
  <2> QED BY <2>1, <2>2, <2>3 DEF TypeOK, IInv, Types, Methods
<1> QED BY Invariance, <1>1, PTL

(* However the attempts before failed, and wherever, nothing of them is    *)
(* mounted when another device may be chosen.                              *)
THEOREM NothingLeftMountedHolds == Spec => []NothingLeftMounted
<1>1. IInv => NothingLeftMounted
  BY DEF IInv, Mounts, NothingLeftMounted, Resting, Questions, OnPartition, InDirectory
<1> QED BY Invariance, <1>1, PTL

(* The medium that stage2 works out from /tmp/env, the link and the mounts *)
(* is the one that is good, after any number of attempts on others.        *)
THEOREM Stage2FindsMediumHolds == Spec => []Stage2FindsMedium
<1>1. IInv => Stage2FindsMedium
  BY DEF IInv
<1> QED BY Invariance, <1>1, PTL
-----------------------------------------------------------------------------
(* The steps there may still be in automatic mode: for every device that   *)
(* is left, those of try_with_directory with each of its ISO files.        *)

AutoPlaces == FromList \union {"method", "disk", "cdrom", "auto cdrom", "auto disc", "done"}

Turn == Cardinality(Isos) + 6

InTurn ==
  CASE pc \in {"auto umount", "auto disc"} -> 1
    [] pc = "auto locate"    -> 2
    [] pc = "auto which"     -> 3
    [] pc = "auto isos"      -> Cardinality(scan) + 4
    [] pc = "auto directory" -> Cardinality(Isos) + 5
    [] OTHER                 -> 0

AutoLeft ==
  CASE pc = "done"   -> 0
    [] pc = "method" -> Len(Parts) * Turn + Len(Drives) * Turn + 2
    [] pc = "disk"   -> Len(Parts) * Turn + 1
    [] pc = "cdrom"  -> Len(Drives) * Turn + 1
    [] OTHER         -> Len(todo) * Turn + InTurn

(* In automatic mode nothing is asked but which ISO file to take.          *)
AutoStays == auto => pc \in AutoPlaces

(* Sets of ISO files, counted. *)
LEMMA CountsAre ==
  ASSUME IsFiniteSet(Isos), NEW S \in SUBSET Isos
  PROVE  /\ Cardinality(Isos) \in Nat /\ Turn \in Nat /\ Turn = Cardinality(Isos) + 6
         /\ Cardinality(S) \in 0 .. Cardinality(Isos)
         /\ \A i \in S : Cardinality(S \ {i}) = Cardinality(S) - 1
<1>1. IsFiniteSet(S) /\ Cardinality(S) <= Cardinality(Isos)
  BY FS_Subset
<1>2. Cardinality(Isos) \in Nat /\ Cardinality(S) \in Nat
  BY <1>1, FS_CardinalityType
<1>3. \A i \in S : Cardinality(S \ {i}) = Cardinality(S) - 1
  BY <1>1, FS_RemoveElement
<1> QED BY <1>1, <1>2, <1>3 DEF Turn

(* The devices that are left weigh more than the turn of one.              *)
LEMMA OneLess ==
  ASSUME NEW n \in Nat, NEW m \in Nat, NEW t \in Nat, n = m + 1
  PROVE  n * t \in Nat /\ m * t \in Nat /\ n * t = m * t + t
<1>1. (m + 1) * t = m * t + t
  OBVIOUS
<1>2. \A a, b \in Nat : a * b \in Nat
  OBVIOUS
<1> QED BY <1>1, <1>2

(* Where a turn ends, that of the next is not over yet.                    *)
LEMMA SumIsLess ==
  ASSUME NEW a \in Nat, NEW b \in Nat, NEW c \in Nat, NEW d \in Nat, a = b + c, d < c
  PROVE  b + d \in Nat /\ b + d < a + 0
OBVIOUS

Searching == FromList \union {"auto cdrom", "auto disc"}

(* A step in the turn of a device. *)
LEMMA TurnGoesOn ==
  ASSUME todo \in Seq(Devices), todo' = todo, Turn \in Nat,
         pc \in Searching, pc' \in Searching,
         InTurn \in Nat, InTurn' \in Nat, InTurn' < InTurn
  PROVE  AutoLeft' \in Nat /\ AutoLeft' < AutoLeft
<1>1. Len(todo) * Turn \in Nat
  <2>1. Len(todo) \in Nat
    BY LenProperties
  <2> QED BY <2>1, OneLess
<1>2. AutoLeft = Len(todo) * Turn + InTurn
  BY DEF AutoLeft, Searching, FromList
<1>3. AutoLeft' = Len(todo) * Turn + InTurn'
  BY DEF AutoLeft, Searching, FromList, Turn
<1> QED BY <1>1, <1>2, <1>3

(* A device less. *)
LEMMA TailIsShorter ==
  ASSUME NEW S, NEW s \in Seq(S), s # <<>>, NEW rest, rest = Tail(s)
  PROVE  Len(s) \in Nat /\ Len(rest) \in Nat /\ Len(s) = Len(rest) + 1
<1>1. Len(s) \in Nat \ {0}
  BY EmptySeq
<1>2. Len(rest) = Len(s) - 1
  BY HeadTailProperties
<1>3. \A a \in Nat \ {0} : \A b : b = a - 1 => a \in Nat /\ b \in Nat /\ a = b + 1
  OBVIOUS
<1> QED BY ONLY <1>1, <1>2, <1>3

(* The next device has its turn. *)
LEMMA TurnOfNext ==
  ASSUME NEW n \in Nat, NEW m \in Nat, n = m + 1, Len(todo) = n, Len(todo') = m, Turn \in Nat,
         pc \in {"auto disk", "auto cdrom"}, pc' \in Searching,
         InTurn' \in Nat, InTurn' < Turn
  PROVE  AutoLeft' \in Nat /\ AutoLeft' < AutoLeft
<1> DEFINE before == n * Turn
           after  == m * Turn
<1>1. before \in Nat /\ after \in Nat /\ before = after + Turn
  <2>1. \A t \in Nat : n * t \in Nat /\ m * t \in Nat /\ n * t = m * t + t
    BY ONLY n \in Nat, m \in Nat, n = m + 1, OneLess
  <2> QED BY <2>1
<1>2. AutoLeft = before + 0
  BY DEF AutoLeft, InTurn
<1>3. AutoLeft' = after + InTurn'
  BY DEF AutoLeft, Searching, FromList, Turn
<1> HIDE DEF before, after
<1>4. after + InTurn' \in Nat /\ after + InTurn' < before + 0
  BY ONLY <1>1, Turn \in Nat, InTurn' \in Nat, InTurn' < Turn, SumIsLess
<1> QED BY ONLY <1>2, <1>3, <1>4

(* A step in automatic mode. *)
LEMMA AutoStepIsLess ==
  ASSUME IsFiniteSet(Isos), IInv, AutoStays, Next, auto'
  PROVE  auto /\ AutoLeft' \in Nat /\ AutoLeft' < AutoLeft
<1> DEFINE Less == AutoLeft' \in Nat /\ AutoLeft' < AutoLeft
<1>1. /\ Types /\ Mounts /\ todo \in Seq(Devices) /\ scan \in SUBSET Isos
      /\ Drives \in Seq(Driveset) /\ Parts \in Seq(Partset)
  BY Contents DEF IInv, Types, Facts
<1>2. Turn \in Nat /\ Cardinality(Isos) \in Nat /\ Turn = Cardinality(Isos) + 6
  BY CountsAre
<1>3. Cardinality(scan) \in 0 .. Cardinality(Isos)
  BY <1>1, CountsAre
<1>4. ASSUME todo # <<>>, todo' = Tail(todo), pc \in {"auto disk", "auto cdrom"},
             pc' \in {"auto disk", "auto cdrom", "auto umount", "auto disc", "auto directory"}
      PROVE  Less
  <2>1. InTurn' \in Nat /\ InTurn' < Turn
    <3>1. InTurn' \in {0, 1, Cardinality(Isos) + 5}
      BY <1>4 DEF InTurn
    <3> QED BY ONLY <1>2, <3>1
  <2>2. Len(todo) \in Nat /\ Len(todo') \in Nat /\ Len(todo) = Len(todo') + 1
    BY <1>1, <1>4, TailIsShorter
  <2>3. pc' \in Searching
    BY <1>4 DEF Searching, FromList
  <2> QED BY ONLY <1>2, <1>4, <2>1, <2>2, <2>3, TurnOfNext
<1>5. ASSUME todo' = todo, pc \in Searching, pc' \in Searching,
             InTurn \in Nat, InTurn' \in Nat, InTurn' < InTurn
      PROVE  Less
  BY ONLY <1>1, <1>2, <1>5, TurnGoesOn
<1>6. /\ Len(Parts) * Turn \in Nat /\ Len(Drives) * Turn \in Nat
  <2>1. Len(Parts) \in Nat /\ Len(Drives) \in Nat
    BY ONLY <1>1, LenProperties
  <2>2. \A a, b \in Nat : a * b \in Nat
    OBVIOUS
  <2> QED BY ONLY <1>2, <2>1, <2>2
<1> HIDE DEF Less
<1>7. CASE Disk
  <2>1. CASE TryAllPartitions
    <3>1. AutoLeft = Len(Parts) * Turn + 1 /\ AutoLeft' = Len(Parts) * Turn + 0
      BY <2>1 DEF TryAllPartitions, AutoLeft, InTurn, Turn
    <3>2. auto
      BY <2>1 DEF TryAllPartitions
    <3> QED BY <1>6, <3>1, <3>2 DEF Less
  <2>2. CASE TryPartition
    <3>1. auto /\ todo # <<>> /\ todo' = Tail(todo) /\ pc = "auto disk"
          /\ pc' \in {"auto disk", "auto umount", "auto directory"}
      BY <2>2 DEF TryPartition
    <3> QED BY <1>4, <3>1 DEF Less
  <2>3. CASE UmountPartition
    <3>1. /\ auto /\ todo' = todo /\ pc \in Searching /\ pc' \in Searching
          /\ InTurn = 1 /\ InTurn' = 0
      BY <2>3 DEF UmountPartition, place, InTurn, Searching, FromList
    <3> QED BY <1>5, <3>1 DEF Less
  <2>4. CASE NoPartitions \/ NoPartitionGood
    BY <2>4 DEF NoPartitions, NoPartitionGood
  <2> QED BY <1>7, <2>1, <2>2, <2>3, <2>4 DEF Disk
<1>8. CASE Directory
  <2>1. CASE StartDirectory
    <3>1. auto /\ todo' = todo /\ pc = "auto directory" /\ pc' = "auto isos" /\ scan' \in SUBSET Isos
      BY <2>1 DEF StartDirectory, Goto, ForAuto, AutoStep, AutoStays, AutoPlaces, FromList
    <3>2. Cardinality(scan') \in 0 .. Cardinality(Isos)
      BY <3>1, CountsAre
    <3>3. InTurn = Cardinality(Isos) + 5 /\ InTurn' = Cardinality(scan') + 4
      BY <3>1 DEF InTurn
    <3>4. InTurn \in Nat /\ InTurn' \in Nat /\ InTurn' < InTurn
      BY ONLY <1>2, <3>2, <3>3
    <3> QED BY <1>5, <3>1, <3>4 DEF Less, Searching, FromList
  <2>2. ASSUME NEW i \in Isos, LookInto(i)
        PROVE  auto /\ AutoLeft' \in Nat /\ AutoLeft' < AutoLeft
    <3>1. /\ auto /\ todo' = todo /\ pc = "auto isos" /\ pc' = "auto isos"
          /\ i \in scan /\ scan' = scan \ {i}
      BY <2>2 DEF LookInto, AutoStays, AutoPlaces, FromList
    <3>2. Cardinality(scan') = Cardinality(scan) - 1
      BY <1>1, <3>1, CountsAre
    <3>3. Cardinality(scan') \in 0 .. Cardinality(Isos)
      BY <1>1, <3>1, CountsAre
    <3>4. InTurn = Cardinality(scan) + 4 /\ InTurn' = Cardinality(scan') + 4
      BY <3>1 DEF InTurn
    <3>5. InTurn \in Nat /\ InTurn' \in Nat /\ InTurn' < InTurn
      BY ONLY <1>2, <1>3, <3>2, <3>3, <3>4
    <3> QED BY <1>5, <3>1, <3>5 DEF Less, Searching, FromList
  <2>3. CASE ToLocate
    <3>1. /\ auto /\ todo' = todo /\ pc = "auto isos" /\ pc' \in {"auto locate", "auto which"}
      BY <2>3 DEF ToLocate, Goto, ForAuto, AutoStep, AutoStays, AutoPlaces, FromList, place
    <3>2. InTurn = Cardinality(scan) + 4 /\ InTurn' \in {2, 3}
      BY <3>1 DEF InTurn
    <3>3. InTurn \in Nat /\ InTurn' \in Nat /\ InTurn' < InTurn
      BY ONLY <1>2, <1>3, <3>2
    <3> QED BY <1>5, <3>1, <3>3 DEF Less, Searching, FromList
  <2>4. CASE Locate
    <3>1. auto /\ todo' = todo /\ pc = "auto locate" /\ pc' = "done"
      BY <2>4 DEF Locate, Located, Return, AutoStays, AutoPlaces, FromList, place
    <3>2. Len(todo) * Turn \in Nat
      <4>1. Len(todo) \in Nat
        BY ONLY <1>1, LenProperties
      <4>2. \A a, b \in Nat : a * b \in Nat
        OBVIOUS
      <4> QED BY ONLY <1>2, <4>1, <4>2
    <3>3. AutoLeft = Len(todo) * Turn + 2 /\ AutoLeft' = 0
      BY <3>1 DEF AutoLeft, InTurn
    <3>4. AutoLeft' \in Nat /\ AutoLeft' < AutoLeft
      BY ONLY <3>2, <3>3
    <3> QED BY <3>1, <3>4 DEF Less
  <2>5. CASE IsoNotMounted
    BY <2>5 DEF IsoNotMounted
  <2> QED BY <1>8, <2>1, <2>2, <2>3, <2>4, <2>5 DEF Directory
<1>9. CASE Cdrom
  <2>1. CASE TryAllDrives
    <3>1. AutoLeft = Len(Drives) * Turn + 1 /\ AutoLeft' = Len(Drives) * Turn + 0
      BY <2>1 DEF TryAllDrives, AutoLeft, InTurn, Turn
    <3>2. auto
      BY <2>1 DEF TryAllDrives
    <3> QED BY <1>6, <3>1, <3>2 DEF Less
  <2>2. CASE AlreadyTried \/ TryDrive
    <3>1. auto /\ todo # <<>> /\ todo' = Tail(todo) /\ pc = "auto cdrom"
          /\ pc' \in {"auto cdrom", "auto disc"}
      BY <2>2 DEF AlreadyTried, TryDrive
    <3> QED BY <1>4, <3>1 DEF Less
  <2>3. CASE AutoDisc
    <3>1. auto /\ todo' = todo /\ pc = "auto disc" /\ pc' \in {"auto cdrom", "done"}
      BY <2>3 DEF AutoDisc, place
    <3>2. InTurn = 1
      BY <3>1 DEF InTurn
    <3>3. CASE pc' = "auto cdrom"
      <4>1. InTurn' = 0
        BY <3>3 DEF InTurn
      <4>2. InTurn \in Nat /\ InTurn' \in Nat /\ InTurn' < InTurn
        BY ONLY <3>2, <4>1
      <4> QED BY <1>5, <3>1, <3>3, <4>2 DEF Less, Searching, FromList
    <3>4. CASE pc' = "done"
      <4>1. Len(todo) * Turn \in Nat
        <5>1. Len(todo) \in Nat
          BY ONLY <1>1, LenProperties
        <5>2. \A a, b \in Nat : a * b \in Nat
          OBVIOUS
        <5> QED BY ONLY <1>2, <5>1, <5>2
      <4>2. AutoLeft = Len(todo) * Turn + 1 /\ AutoLeft' = 0
        BY <3>1, <3>4 DEF AutoLeft, InTurn
      <4>3. AutoLeft' \in Nat /\ AutoLeft' < AutoLeft
        BY ONLY <4>1, <4>2
      <4> QED BY <3>1, <4>3 DEF Less
    <3> QED BY <3>1, <3>3, <3>4
  <2>4. CASE NoDriveGood \/ MountDrive \/ Disc
    BY <2>4 DEF NoDriveGood, MountDrive, Disc, AutoStays, AutoPlaces, FromList
  <2> QED BY <1>9, <2>1, <2>2, <2>3, <2>4 DEF Cdrom
<1>10. CASE Answers
  <2>1. ASSUME NEW m \in {"disk", "cdrom"}, SelectMethod(m)
        PROVE  auto /\ AutoLeft' \in Nat /\ AutoLeft' < AutoLeft
    <3>1. auto /\ pc = "method" /\ pc' = m
      BY <2>1 DEF SelectMethod
    <3>2. /\ AutoLeft = Len(Parts) * Turn + Len(Drives) * Turn + 2
          /\ AutoLeft' \in {Len(Parts) * Turn + 1, Len(Drives) * Turn + 1}
      BY <3>1 DEF AutoLeft, Turn
    <3>3. AutoLeft' \in Nat /\ AutoLeft' < AutoLeft
      BY ONLY <1>6, <3>2
    <3> QED BY <3>1, <3>3 DEF Less
  <2>2. CASE \E m \in {"disk", "cdrom"} : AskInsmod(m)
    BY <2>2 DEF AskInsmod
  <2>3. CASE \E x \in Paths : SelectIso(x)
    <3>1. auto /\ todo' = todo /\ pc = "auto which" /\ pc' = "auto locate"
      BY <2>3 DEF SelectIso, Goto, ForAuto, AutoStep, AutoStays, AutoPlaces, FromList
    <3>2. InTurn = 3 /\ InTurn' = 2
      BY <3>1 DEF InTurn
    <3>3. InTurn \in Nat /\ InTurn' \in Nat /\ InTurn' < InTurn
      BY ONLY <3>2
    <3> QED BY <1>5, <3>1, <3>3 DEF Less, Searching, FromList
  <2>4. CASE \/ SelectDisk \/ NoPartition \/ NoDirectory \/ SelectDrive \/ Retry
             \/ (\E p \in Partset : SelectPartition(p)) \/ (\E x \in Paths : SelectDirectory(x))
    BY <2>4 DEF SelectDisk, NoPartition, NoDirectory, SelectDrive, Retry, SelectPartition,
                SelectDirectory, AutoStays, AutoPlaces, FromList
  <2> QED BY <1>10, <2>1, <2>2, <2>3, <2>4 DEF Answers
<1>11. CASE \E d \in Driveset : ChangeDisc(d)
  BY <1>11 DEF ChangeDisc, AutoStays, AutoPlaces, FromList
<1> QED BY <1>7, <1>8, <1>9, <1>10, <1>11 DEF Next, Less

(* Whoever is in automatic mode has been all the time.                     *)
LEMMA AutoStaysKept == AutoStays /\ [Next]_vars => AutoStays'
<1> SUFFICES ASSUME AutoStays, [Next]_vars, auto' PROVE pc' \in AutoPlaces
  BY DEF AutoStays
<1> USE DEF AutoStays, AutoPlaces, FromList
<1>1. CASE Disk
  BY <1>1 DEF Disk, TryAllPartitions, TryPartition, UmountPartition, NoPartitions, NoPartitionGood
<1>2. CASE Directory
  BY <1>2 DEF Directory, StartDirectory, LookInto, ToLocate, Locate, Located, IsoNotMounted,
              Return, Goto, ForAuto, AutoStep
<1>3. CASE Cdrom
  BY <1>3 DEF Cdrom, TryAllDrives, AlreadyTried, TryDrive, AutoDisc, NoDriveGood, MountDrive, Disc
<1>4. CASE Answers
  BY <1>4 DEF Answers, SelectMethod, AskInsmod, SelectDisk, SelectPartition, NoPartition,
              SelectDirectory, SelectIso, NoDirectory, SelectDrive, Retry, Goto, ForAuto, AutoStep
<1>5. CASE \E d \in Driveset : ChangeDisc(d)
  BY <1>5 DEF ChangeDisc
<1>6. CASE UNCHANGED vars
  BY <1>6 DEF vars
<1> QED BY <1>1, <1>2, <1>3, <1>4, <1>5, <1>6 DEF Next

(* The automatic mode does not go round: every step in it leaves fewer, so *)
(* it installs, asks which ISO file to take, or ends, and never comes      *)
(* back.  Nothing else is asked in it.                                     *)
THEOREM AutomaticIsBounded ==
  ASSUME IsFiniteSet(Isos)
  PROVE  Spec => /\ []AutoStays
                 /\ [][auto' => auto /\ AutoLeft' \in Nat /\ AutoLeft' < AutoLeft]_vars
<1>1. Init => AutoStays
  BY DEF Init, AutoStays, AutoPlaces
<1>2. IInv /\ AutoStays /\ [Next]_vars =>
        [auto' => auto /\ AutoLeft' \in Nat /\ AutoLeft' < AutoLeft]_vars
  BY AutoStepIsLess
<1> QED BY <1>1, <1>2, AutoStaysKept, Invariance, PTL DEF Spec
=============================================================================
