----------------------------- MODULE DiskMethods -----------------------------
(***************************************************************************)
(* How stage1 finds the installation on a disk or a CD: the method loop of *)
(* stage1.cpp, disk.cpp, cdrom.cpp and directory.cpp, with the mounts and  *)
(* the loop device they leave, the link /tmp/image they make and what they *)
(* put in /tmp/env for stage2.                                             *)
(*                                                                         *)
(* The code runs alone; it branches on what the user answers, on what the  *)
(* devices hold, and, in automatic mode, on the keywords.                  *)
(***************************************************************************)
EXTENDS Integers, Sequences, FiniteSets, SequencesExt

CONSTANTS
  Drives,     \* CD drives as the buses are looked at: again if found by two
  Parts,      \* partitions, in the order they are listed
  DiskOf,     \* the disk of each partition
  Dirs, Root, \* directories, the top one
  Isos,       \* ISO files
  DirOf,      \* the directory of each
  Exists,     \* <<partition, path>>: what there is
  Trees,      \* those that hold the distribution
  Bare,       \* those that hold install/stage2 without the program
  Unreadable, \* partitions and ISO files that cannot be mounted
  LateNodes,  \* devices whose node is made after the module is loaded
  Nothing

Driveset == ToSet(Drives)
Partset  == ToSet(Parts)
Paths    == Dirs \union Isos
Devices  == Driveset \union Partset
Discs    == {"none", "other", "distribution"}

ASSUME ContentsAssumption ==
  /\ Drives \in Seq(Driveset) /\ Parts \in Seq(Partset)
  /\ Root \in Dirs /\ DirOf \in [Isos -> Dirs] /\ DOMAIN DiskOf = Partset
  /\ Exists \subseteq Partset \X Paths /\ Trees \union Bare \subseteq Exists
  /\ Unreadable \subseteq Partset \union Isos /\ LateNodes \subseteq Devices
  /\ Driveset \cap Partset = {} /\ {Nothing, "loop"} \cap (Devices \union Paths) = {}

VARIABLES
  auto,    \* IS_AUTOMATIC
  pc,      \* the question asked, or the function that runs
  dev,     \* its device
  todo,    \* the devices try_automatic has left
  tried,   \* already_tried, of cdrom.cpp
  where,   \* location_full
  scan,    \* the ISO files to look into
  found,   \* those with the program
  node,    \* devices that have their node
  disc,    \* the disc in each drive
  media,   \* what is mounted on MEDIA_LOCATION
  loop,    \* the ISO file mounted on LOOP_LOCATION
  image,   \* where IMAGE_LOCATION points to: a directory of media, or "loop"
  env      \* METHOD and ISOPATH in /tmp/env: the last ones count

place == <<dev, todo, tried, where, scan, found>>
system == <<node, disc, media, loop, image, env>>
vars == <<auto, pc, place, system>>

Init ==
  /\ auto \in BOOLEAN /\ pc = "method" /\ dev = Nothing /\ todo = <<>>
  /\ tried = {} /\ where = Nothing /\ scan = {} /\ found = {}
  /\ node = Devices \ LateNodes /\ disc \in [Driveset -> Discs]
  /\ media = Nothing /\ loop = Nothing /\ image = Nothing
  /\ env = [method |-> Nothing, isopath |-> Nothing]

-----------------------------------------------------------------------------
(* mount and umount *)

Mountable(d) == IF d \in Driveset THEN disc[d] # "none" ELSE d \notin Unreadable

(* my_mount of a device, with one type of file system for a drive and nine *)
(* for a partition.  ensure_dev_exists finds no node, waits for udev, and  *)
(* fails because there is one now: the first type of several is lost, or   *)
(* the only one.                                                           *)
MountsNow(d) == Mountable(d) /\ (d \in node \/ d \in Partset)

MountMedia(d) ==
  /\ node' = node \union {d}
  /\ media' = IF MountsNow(d) THEN d ELSE media

(* umount fails on a file system with a mounted ISO file. *)
UmountMedia == media' = IF loop = Nothing THEN Nothing ELSE media

Holds(set, l, i) ==
  IF i = "loop" THEN l # Nothing /\ <<media, l>> \in set
  ELSE IF media \in Driveset THEN i = Root /\ disc[media] = "distribution"
  ELSE <<media, i>> \in set

image_has_stage2(l, i) == Holds(Trees, l, i)

-----------------------------------------------------------------------------
(* method_select_and_prepare; the automatic mode reads the keyword, once. *)

SelectMethod(m) ==
  /\ pc = "method"
  /\ pc' = m
  /\ image' = Nothing
  /\ UNCHANGED <<auto, place, node, disc, media, loop, env>>

(* ask_insmod, when a device was not found to be good. *)
Insmod == [disk |-> "insmod disk", cdrom |-> "insmod cdrom"]

AskInsmod(m) ==
  /\ pc = Insmod[m]
  /\ pc' \in {"method", m}
  /\ auto' = FALSE
  /\ UNCHANGED <<place, system>>

-----------------------------------------------------------------------------
(* disk_prepare *)

TryAllPartitions ==
  /\ pc = "disk" /\ auto
  /\ pc' = "auto disk" /\ todo' = Parts
  /\ UNCHANGED <<auto, dev, tried, where, scan, found, system>>

(* try_automatic_with_partition; its try_with_directory is below. *)
TryPartition ==
  /\ pc = "auto disk" /\ todo # <<>>
  /\ dev' = Head(todo) /\ todo' = Tail(todo)
  /\ MountMedia(dev')
  /\ image' = IF MountsNow(dev') THEN Root ELSE image
  /\ IF MountsNow(dev') /\ <<dev', Root>> \in Trees
       THEN /\ where' = Root /\ pc' = "auto directory"
            /\ UNCHANGED <<tried, scan, found>>
       ELSE /\ pc' = IF MountsNow(dev') THEN "auto umount" ELSE "auto disk"
            /\ UNCHANGED <<tried, where, scan, found>>
  /\ UNCHANGED <<auto, disc, loop, env>>

UmountPartition ==
  /\ pc = "auto umount"
  /\ UmountMedia /\ pc' = "auto disk"
  /\ UNCHANGED <<auto, place, node, disc, loop, image, env>>

(* list_partitions fails for the disk that comes next: so much for its    *)
(* partitions, the first k.                                                *)
NextDisk == LET i == Len(Parts) - Len(todo) IN i > 0 => DiskOf[Parts[i]] # DiskOf[Head(todo)]

NoPartitions ==
  /\ pc = "auto disk" /\ todo # <<>> /\ NextDisk
  /\ auto' = FALSE
  /\ \E k \in DOMAIN todo :
       /\ \A i \in 1 .. k : DiskOf[todo[i]] = DiskOf[Head(todo)]
       /\ k < Len(todo) => DiskOf[todo[k + 1]] # DiskOf[Head(todo)]
       /\ todo' = SubSeq(todo, k + 1, Len(todo))
  /\ UNCHANGED <<pc, dev, tried, where, scan, found, system>>

NoPartitionGood ==
  /\ pc = "auto disk" /\ todo = <<>>
  /\ auto' = FALSE /\ pc' = "disk"
  /\ UNCHANGED <<place, system>>

(* The disk is chosen, then the partition; disk_prepare never comes here   *)
(* in automatic mode.                                                      *)
SelectDisk ==
  /\ pc = "disk" /\ ~auto
  /\ pc' \in {"partition", "insmod disk"}
       \union (IF Cardinality({DiskOf[p] : p \in Partset}) > 1 THEN {"method"} ELSE {})
  /\ UNCHANGED <<auto, place, system>>

SelectPartition(p) ==
  /\ pc = "partition"
  /\ MountMedia(p) /\ dev' = p
  /\ pc' = IF MountsNow(p) THEN "directory?" ELSE "partition"
  /\ UNCHANGED <<auto, todo, tried, where, scan, found, disc, loop, image, env>>

NoPartition ==
  /\ pc = "partition" /\ pc' = "method"
  /\ UNCHANGED <<auto, place, system>>

SelectDirectory(x) ==
  /\ pc = "directory?"
  /\ IF <<media, x>> \in Exists THEN where' = x /\ pc' = "directory"
                                ELSE UNCHANGED <<where, pc>>
  /\ UNCHANGED <<auto, dev, todo, tried, scan, found, system>>

NoDirectory ==
  /\ pc = "directory?"
  /\ UmountMedia /\ pc' = "partition"
  /\ UNCHANGED <<auto, place, node, disc, loop, image, env>>

-----------------------------------------------------------------------------
(* try_with_directory, of the automatic search and of a chosen directory.  *)

ForAuto == pc \in {"auto directory", "auto isos", "auto which", "auto locate"}
AutoStep == [isos |-> "auto isos", which |-> "auto which", locate |-> "auto locate"]
Goto(step) == pc' = IF ForAuto THEN AutoStep[step] ELSE step

StartDirectory ==
  /\ pc \in {"directory", "auto directory"}
  /\ image' = Nothing
  /\ scan' = {i \in Isos : where \in Dirs /\ DirOf[i] = where /\ <<media, i>> \in Exists}
  /\ found' = {}
  /\ Goto("isos")
  /\ UNCHANGED <<auto, dev, todo, tried, where, node, disc, media, loop, env>>

(* choose_iso_in_directory mounts each file, looks into it and lets it go. *)
LookInto(i) ==
  /\ pc \in {"isos", "auto isos"} /\ i \in scan
  /\ scan' = scan \ {i}
  /\ found' = IF i \notin Unreadable /\ image_has_stage2(i, "loop")
              THEN found \union {i} ELSE found
  /\ UNCHANGED <<auto, pc, dev, todo, tried, where, system>>

ToLocate ==
  /\ pc \in {"isos", "auto isos"} /\ scan = {}
  /\ Goto(IF found = {} THEN "locate" ELSE "which")
  /\ UNCHANGED <<auto, place, system>>

(* The user takes one, or the directory. *)
SelectIso(x) ==
  /\ pc \in {"which", "auto which"} /\ x \in found \union {where}
  /\ where' = x /\ Goto("locate")
  /\ UNCHANGED <<auto, dev, todo, tried, scan, found, system>>

(* What the caller does with the result. *)
Return(ok) == pc' = IF ok THEN "done" ELSE IF ForAuto THEN "auto umount" ELSE "directory?"

(* The rest of try_with_directory: the ISO file is mounted, or a link to   *)
(* the directory made; /tmp/env is written before what is there is looked  *)
(* at, and the ISO file unmounted if that is not good.                     *)
Target == IF where \in Isos THEN "loop" ELSE where
Good   == Holds(Trees \union Bare, where, Target)

Located(method, isopath, left) ==
  /\ pc \in {"locate", "auto locate"} /\ where \notin Unreadable
  /\ image' = Target /\ env' = [method |-> method, isopath |-> isopath]
  /\ loop' = left
  /\ auto' = (auto /\ Good) /\ Return(Good)
  /\ UNCHANGED <<place, node, disc, media>>

Method  == IF where \in Isos THEN "disk-iso" ELSE "disk"
IsoPath == IF where \in Isos THEN where ELSE env.isopath
IsoLeft == IF where \in Isos /\ Good THEN where ELSE Nothing

(* Wrong: the ISO file stays mounted when there is no program in it.       *)
LocateAndForget == Located(Method, IsoPath, IF where \in Isos THEN where ELSE loop)

(* Wrong: METHOD says "disk" for an ISO file as well. *)
LocateAsDisk == Located("disk", IsoPath, IsoLeft)

(* Wrong: ISOPATH is written for a directory as well. *)
LocateWithPath == Located(Method, where, IsoLeft)

Locate == Located(Method, IsoPath, IsoLeft)

IsoNotMounted ==
  /\ pc \in {"locate", "auto locate"} /\ where \in Unreadable
  /\ auto' = FALSE /\ Return(FALSE)
  /\ UNCHANGED <<place, system>>

-----------------------------------------------------------------------------
(* cdrom_prepare *)

TryAllDrives ==
  /\ pc = "cdrom" /\ auto
  /\ pc' = "auto cdrom" /\ todo' = Drives
  /\ UNCHANGED <<auto, dev, tried, where, scan, found, system>>

(* try_automatic; mount_that_cd_device makes the link whether or not the   *)
(* disc was mounted.                                                       *)
AlreadyTried ==
  /\ pc = "auto cdrom" /\ todo # <<>> /\ Head(todo) \in tried
  /\ todo' = Tail(todo)
  /\ UNCHANGED <<auto, pc, dev, tried, where, scan, found, system>>

TryDrive ==
  /\ pc = "auto cdrom" /\ todo # <<>> /\ Head(todo) \notin tried
  /\ dev' = Head(todo) /\ todo' = Tail(todo)
  /\ tried' = tried \union {dev'}
  /\ MountMedia(dev') /\ image' = Root
  /\ pc' = IF MountsNow(dev') THEN "auto disc" ELSE "auto cdrom"
  /\ UNCHANGED <<auto, where, scan, found, disc, loop, env>>

AutoDisc ==
  /\ pc = "auto disc"
  /\ IF image_has_stage2(loop, image)
       THEN /\ pc' = "done" /\ env' = [env EXCEPT !.method = "cdrom"]
            /\ UNCHANGED media
       ELSE /\ pc' = "auto cdrom" /\ UmountMedia /\ UNCHANGED env
  /\ UNCHANGED <<auto, place, node, disc, loop, image>>

(* Wrong: the automatic mode is kept when no drive is good. *)
NoDriveKeepsAuto ==
  /\ pc = "auto cdrom" /\ todo = <<>>
  /\ pc' = "cdrom"
  /\ UNCHANGED <<auto, place, system>>

NoDriveGood ==
  /\ pc = "auto cdrom" /\ todo = <<>>
  /\ auto' = FALSE /\ pc' = "cdrom"
  /\ UNCHANGED <<place, system>>

SelectDrive ==
  /\ pc = "cdrom" /\ ~auto
  /\ \/ dev' \in Driveset /\ pc' = "drive"
     \/ Cardinality(Driveset) > 1 /\ pc' = "method" /\ UNCHANGED dev
  /\ UNCHANGED <<auto, todo, tried, where, scan, found, system>>

(* try_with_device, do_with_device *)
MountDrive ==
  /\ pc = "drive"
  /\ MountMedia(dev) /\ image' = Root
  /\ pc' = IF MountsNow(dev) THEN "disc" ELSE "retry?"
  /\ UNCHANGED <<auto, place, disc, loop, env>>

Disc ==
  /\ pc = "disc"
  /\ IF image_has_stage2(loop, image)
       THEN /\ pc' = "done" /\ env' = [env EXCEPT !.method = "cdrom"]
            /\ UNCHANGED media
       ELSE /\ pc' = "retry?" /\ UmountMedia /\ UNCHANGED env
  /\ UNCHANGED <<auto, place, node, disc, loop, image>>

(* With several drives, BACK is the list of them again. *)
Retry ==
  /\ pc = "retry?"
  /\ pc' \in {"drive", "insmod cdrom"}
       \union (IF Cardinality(Driveset) > 1 THEN {"cdrom"} ELSE {})
  /\ UNCHANGED <<auto, place, system>>

(* The user puts another disc in. *)
ChangeDisc(d) ==
  /\ pc = "retry?" /\ dev = d
  /\ disc' \in {[disc EXCEPT ![d] = x] : x \in Discs}
  /\ UNCHANGED <<auto, pc, place, node, media, loop, image, env>>

-----------------------------------------------------------------------------
(* What runs without an answer of the user. *)
Disk == \/ TryAllPartitions \/ TryPartition \/ UmountPartition \/ NoPartitions
        \/ NoPartitionGood
Directory == StartDirectory \/ (\E i \in Isos : LookInto(i)) \/ ToLocate
             \/ Locate \/ IsoNotMounted
Cdrom == \/ TryAllDrives \/ AlreadyTried \/ TryDrive \/ AutoDisc \/ NoDriveGood
         \/ MountDrive \/ Disc

(* What the user answers. *)
Answers == \/ \E m \in {"disk", "cdrom"} : SelectMethod(m) \/ AskInsmod(m)
           \/ SelectDisk \/ (\E p \in Partset : SelectPartition(p)) \/ NoPartition
           \/ (\E x \in Paths : SelectDirectory(x) \/ SelectIso(x)) \/ NoDirectory
           \/ SelectDrive \/ Retry

Next == Disk \/ Directory \/ Cdrom \/ Answers \/ \E d \in Driveset : ChangeDisc(d)

Spec == Init /\ [][Next]_vars

(* The code goes on by itself, and answers for the user in automatic mode. *)
AutoMethod == auto /\ \E m \in {"disk", "cdrom"} : SelectMethod(m)
FairSpec == Spec /\ WF_vars(Disk) /\ WF_vars(Directory) /\ WF_vars(Cdrom) /\ WF_vars(AutoMethod)

-----------------------------------------------------------------------------
(* Properties. *)

Questions == {"method", "disk", "cdrom", "partition", "retry?", "insmod disk", "insmod cdrom"}

(* The state of each variable. *)
TypeOK ==
  /\ auto \in BOOLEAN
  /\ pc \in Questions \union {"directory?", "directory", "isos", "which", "locate", "drive",
       "disc", "done", "auto disk", "auto umount", "auto directory", "auto isos", "auto which",
       "auto locate", "auto cdrom", "auto disc"}
  /\ dev \in Devices \union {Nothing} /\ where \in Paths \union {Nothing}
  /\ tried \subseteq Driveset /\ node \subseteq Devices
  /\ ToSet(todo) \subseteq Devices /\ scan \subseteq Isos /\ found \subseteq Isos
  /\ disc \in [Driveset -> Discs]
  /\ media \in Devices \union {Nothing} /\ loop \in Isos \union {Nothing}
  /\ image \in Dirs \union {"loop", Nothing}
  /\ env.method \in {"disk", "disk-iso", "cdrom", Nothing}
  /\ env.isopath \in Isos \union {Nothing}

(* Whatever was tried before and however it went wrong, nothing of it is   *)
(* mounted when another device may be chosen, so that a mount never hides  *)
(* another: every failure of try_with_directory and its callers unmounts   *)
(* the ISO file, and before its partition.                                 *)
NothingLeftMounted ==
  /\ pc \in Questions \union {"auto disk", "auto cdrom"} => media = Nothing /\ loop = Nothing
  /\ pc = "directory?" => media = dev /\ loop = Nothing

(* stage2_phys_medium (perl-install/install/media.pm) works out the medium *)
(* from METHOD, ISOPATH and where /tmp/image points to: after any number   *)
(* of attempts that failed they must be those of the last one, and the     *)
(* directory install/stage2 be there.                                      *)
Stage2FindsMedium ==
  pc = "done" =>
    /\ media = dev
    /\ (image = "loop") <=> (env.method = "disk-iso")
    /\ env.method = "disk-iso" => loop = env.isopath
    /\ (env.method = "cdrom") <=> (media \in Driveset)
    /\ Holds(Trees \union Bare, loop, image)

(* The automatic mode finds the distribution or leaves it to the user: it  *)
(* does not try the same devices for ever.  It asks which of several ISO   *)
(* files to use even before it has given up.                               *)
AutomaticSettles == []<>(auto => pc \in {"done", "auto which"})
=============================================================================
