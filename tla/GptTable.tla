------------------------------ MODULE GptTable ------------------------------
(***************************************************************************)
(* One GPT disk as DrakX edits it: the table held in memory ($hd), the     *)
(* list of pending operations ($hd->{will_tell_kernel}), the table on the  *)
(* medium, and the partitions the kernel knows.                            *)
(*                                                                         *)
(* perl-install/partition_table.pm edits the memory table and queues one   *)
(* entry per change; perl-install/partition_table/gpt.pm replays the queue *)
(* on a libparted copy of the medium and commits the copy.  libparted      *)
(* numbers a new partition itself, with the lowest number that is free,    *)
(* while partition_table.pm numbers it by its slot.  The user actions are  *)
(* those of perl-install/diskdrake/interactive.pm.                         *)
(***************************************************************************)
EXTENDS Integers, Sequences, FiniteSets

CONSTANTS
  NSlots,       \* entries of the table (127 in gpt.pm)
  FirstUsable,  \* first_usable_sector
  LastUsable,   \* last_usable_sector, the first sector past the usable ones
  Align,        \* sectors in the alignment unit, MB(1)
  Cylinder,     \* cylinder_size: smaller holes are not offered
  MinSize,      \* min_partition_size
  Kinds,        \* partition types told apart, "data" among them
  Labels,       \* what the medium may hold at start: "gpt", "none"
  Layouts,      \* tables the medium may hold at start when it is a GPT one
  Uses,         \* what the partitions found at start may be used for
  Readonly,     \* values $hd->{readonly} may have
  Operations,   \* operations the user performs
  MaxQueue      \* bound: pending operations before the user writes

VARIABLES
  slots,        \* $hd->{primary}{raw}
  queue,        \* $hd->{will_tell_kernel}
  isDirty,      \* $hd->{isDirty}
  readonly,     \* $hd->{readonly}
  rebootNeeded, \* $hd->{rebootNeeded}
  growing,      \* slot whose Resize waits for the write to finish, 0 if none
  oldsize,      \* size to go back to when that Resize fails
  label,        \* the medium: which kind of table it holds
  disk,         \* the medium: its partitions
  kernel,       \* the kernel's partitions, by device number
  busy,         \* device numbers that are mounted
  phase,        \* where partition_table::write is
  ped,          \* the PedDisk gpt::write works on
  killed,       \* $partitions_killed
  pos           \* entry of the queue gpt::write replays next

memVars  == <<slots, queue, isDirty, readonly, rebootNeeded>>
growVars == <<growing, oldsize>>
diskVars == <<label, disk>>
kernVars == <<kernel, busy>>
writeVars == <<phase, ped, killed, pos>>
vars == <<memVars, growVars, diskVars, kernVars, writeVars>>

-----------------------------------------------------------------------------
(* Partitions.  A free entry has size 0. *)

Nums    == 1 .. NSlots
Sectors == 0 .. LastUsable + MinSize

Extent  == [start : Sectors, size : Sectors]
Stored  == [start : Sectors, size : Sectors, kind : Kinds]
Part    == [start : Sectors, size : Sectors, kind : Kinds,
            use : {"blank", "fs", "mounted", "magic"}]

FreeExtent == [start |-> 0, size |-> 0]
FreeStored == [start |-> 0, size |-> 0, kind |-> "data"]
FreePart   == [start |-> 0, size |-> 0, kind |-> "data", use |-> "blank"]

ExtentOf(p) == [start |-> p.start, size |-> p.size]

(* The layout of a table: the extent each number stands for. *)
LayoutOf(table) == [n \in Nums |-> ExtentOf(table[n])]

End(p) == p.start + p.size

(* !verifyNotOverlap *)
Overlap(p, q) ==
  p.size > 0 /\ q.size > 0 /\ p.start < End(q) /\ q.start < End(p)

(* Wrong: any free number would do. *)
IsAnyFree(table, n) == table[n].size = 0

(* The lowest number no partition has: raw_add, and libparted. *)
IsLowestFree(table, n) ==
  table[n].size = 0 /\ \A k \in Nums : k < n => table[k].size > 0

Table == [Nums -> Stored]

ASSUME GptAssumption ==
  /\ NSlots \in Nat \ {0}
  /\ FirstUsable \in Nat \ {0}
  /\ LastUsable \in Nat /\ FirstUsable < LastUsable
  /\ Align \in Nat \ {0}
  /\ MinSize \in Nat /\ MinSize >= Align
  /\ Cylinder \in 1 .. MinSize
  /\ "data" \in Kinds
  /\ Labels \subseteq {"gpt", "none"}
  /\ Uses \subseteq {"blank", "fs", "mounted", "magic"}
  /\ Readonly \subseteq BOOLEAN
  /\ MaxQueue \in Nat

(* A table a GPT disk can hold: its partitions are apart from each other.  *)
ASSUME LayoutsAssumption ==
  \A t \in Layouts :
    /\ t \in Table
    /\ \A n \in Nums :
         \/ t[n] = FreeStored
         \/ t[n].size > 0 /\ FirstUsable <= t[n].start /\ End(t[n]) <= LastUsable
    /\ \A m, n \in Nums : m # n => ~Overlap(t[m], t[n])

-----------------------------------------------------------------------------
(* The pending operations. *)

Op(o, n, e) == [op |-> o, num |-> n, ext |-> e]

Entry == [op : {"add", "del", "init"}, num : 0 .. NSlots, ext : Extent]

(* will_tell_kernel: the entry is queued and the table is dirty.           *)
WillTell(q) == queue' = q /\ isDirty' = TRUE

Queued(k) == Len(queue) + k <= MaxQueue

Editing == phase = "edit"

(* round_up(start, MB(1)) *)
RoundsUpTo(start, a) == a \in start .. start + Align - 1 /\ a % Align = 0

(* Wrong: the next partition is the one that starts after this sector. *)
NextStartPast(from, next) ==
  LET later == {s \in {slots[n].start : n \in {m \in Nums : slots[m].size > 0}} : s > from}
  IN  IF later = {} THEN next = LastUsable
      ELSE next \in later /\ \A s \in later : next <= s

(* partition_table::next_start: where the first partition that starts at   *)
(* or after a sector starts, or the end of the usable sectors.             *)
Used == {n \in Nums : slots[n].size > 0}

Later(from) == {s \in {slots[n].start : n \in Used} : s >= from}

NextStart(from, next) ==
  IF Later(from) = {} THEN next = LastUsable
  ELSE next \in Later(from) /\ \A s \in Later(from) : next <= s

(* get_normal_parts_and_holes: before the first partition and after each,  *)
(* up to the next one.  Of several that overlap and start together any may *)
(* be the last.                                                            *)
Holes ==
  {h \in [start : {FirstUsable} \union {End(slots[n]) : n \in Used},
          end : {LastUsable} \union Later(0)] :
     /\ \/ h.start = FirstUsable /\ NextStart(0, h.end)
        \/ \E n \in Used : h.start = End(slots[n]) /\ NextStart(slots[n].start + 1, h.end)
     /\ h.end - h.start >= Cylinder}

(* A start and a size Create accepts: from_Mb returns its min even when    *)
(* the hole is smaller than that.                                          *)
Accepted(hole, start, size) ==
  \/ hole.start <= start /\ MinSize <= size /\ start + size <= hole.end
  \/ start = hole.start /\ size = MinSize /\ hole.end - hole.start < MinSize

(* verifyParts: no two partitions overlap, or the caller dies.             *)
VerifyParts(table) ==
  \A m, n \in Nums : m # n => ~Overlap(table[m], table[n])

-----------------------------------------------------------------------------
(* What the user does between two writes. *)

(* Create: partition_table::add of a request in a hole, whose start is     *)
(* moved up to a multiple of Align.  No other partition is looked at.      *)
CreateIn(hole) ==
  /\ Editing /\ ~readonly /\ "add" \in Operations /\ Queued(1)
  /\ \E start \in Sectors, size \in Sectors :
       /\ Accepted(hole, start, size)
       /\ \E a \in Sectors, kind \in Kinds, n \in Nums :
            LET new == [start |-> a, size |-> start + size - a,
                        kind |-> kind, use |-> "blank"]
            IN  /\ RoundsUpTo(start, a) /\ IsLowestFree(slots, n)
                /\ slots' = [slots EXCEPT ![n] = new]
                /\ WillTell(Append(queue, Op("add", n, ExtentOf(new))))
  /\ UNCHANGED <<readonly, rebootNeeded, growVars, diskVars, kernVars, writeVars>>

Create == \E hole \in Holes : CreateIn(hole)

(* isBusy: the partition is mounted.                                       *)
NotBusy(n) == slots[n].size > 0 /\ slots[n].use \in {"blank", "fs"}

(* Delete: partition_table::remove, which leaves the slot free and does    *)
(* not renumber the others.                                                *)
Delete(n) ==
  /\ Editing /\ ~readonly /\ "remove" \in Operations /\ Queued(1)
  /\ NotBusy(n)
  /\ slots' = [slots EXCEPT ![n] = FreePart]
  /\ WillTell(Append(queue, Op("del", n, FreeExtent)))
  /\ UNCHANGED <<readonly, rebootNeeded, growVars, diskVars, kernVars, writeVars>>

(* Clear_all: partition_table::initialize; the pending operations are      *)
(* dropped.  It is not refused for mounted partitions.  That it also sets  *)
(* readonly to 0 matters for tables of partition_table/readonly.pm only.   *)
ClearAll ==
  /\ Editing /\ ~readonly /\ "init" \in Operations
  /\ slots' = [n \in Nums |-> FreePart]
  /\ WillTell(<<Op("init", 0, FreeExtent)>>)
  /\ UNCHANGED <<readonly, rebootNeeded, growVars, diskVars, kernVars, writeVars>>

(* Type: fsedit::change_type.  On a read-only disk only the file system    *)
(* type of a plain partition can change, which the table does not hold.    *)
Type(n) ==
  /\ Editing /\ "type" \in Operations
  /\ NotBusy(n)
  /\ \E kind \in Kinds :
       /\ readonly => slots[n].kind = "data" /\ kind = "data"
       /\ slots' = [slots EXCEPT ![n].kind = kind, ![n].use = "blank"]
  /\ isDirty' = TRUE
  /\ UNCHANGED <<queue, readonly, rebootNeeded, growVars, diskVars, kernVars, writeVars>>

(* will_tell_kernel(resize), which is a del and an add.                    *)
TellResize(n, new) ==
  WillTell(queue \o <<Op("del", n, FreeExtent), Op("add", n, ExtentOf(new))>>)

(* A size Resize accepts for it: from min_partition_size, and a cylinder   *)
(* more when there may be a file system, to max_partition_resize; from_Mb  *)
(* returns the former when it is the larger.                               *)
MinResize(n) == IF slots[n].use = "blank" THEN MinSize ELSE MinSize + Cylinder

Resizable(n, size) ==
  \E next \in Sectors :
    /\ NextStart(End(slots[n]), next)
    /\ \/ MinResize(n) <= size /\ slots[n].start + size <= next
       \/ /\ slots[n].use = "blank" /\ size = MinSize
          /\ next - slots[n].start < MinSize

(* Resize of a partition whose file system, if any, is lost: the table is  *)
(* not written.  verifyParts comes after the operations were queued; when  *)
(* it dies the partition gets its size back (before_leaving).              *)
ResizeBlank(n) ==
  /\ Editing /\ ~readonly /\ "resize" \in Operations /\ Queued(2) /\ NotBusy(n)
  /\ \E size \in Sectors :
       LET new == [slots[n] EXCEPT !.size = size, !.use = "blank"]
           resized == [slots EXCEPT ![n] = new]
       IN  /\ size # slots[n].size /\ Resizable(n, size)
           /\ slots' = IF VerifyParts(resized) THEN resized
                       ELSE [slots EXCEPT ![n].use = "blank"]
           /\ TellResize(n, new)
  /\ UNCHANGED <<readonly, rebootNeeded, growVars, diskVars, kernVars, writeVars>>

(* Wrong: a reread that failed is not looked at. *)
NotDirty == ~isDirty

(* Wrong: the pending operations are not written first. *)
NotRebootNeeded == ~rebootNeeded

(* write_partitions ran and returned true: nothing is left to write.       *)
Written == ~isDirty /\ ~rebootNeeded

(* The new size of a partition whose file system is resized with it, from  *)
(* a cylinder more than the file system needs.                             *)
SizeOfFs(n, size) ==
  /\ Editing /\ ~readonly /\ "resize" \in Operations /\ Queued(2)
  /\ slots[n].size > 0 /\ slots[n].use = "fs" /\ Written
  /\ size > Cylinder
  /\ \E next \in Sectors : NextStart(End(slots[n]), next) /\ slots[n].start + size <= next
  /\ slots' = [slots EXCEPT ![n].size = size]
  /\ TellResize(n, [slots[n] EXCEPT !.size = size])

(* Resize to a smaller size, once the file system was shrunk; when that    *)
(* fails nothing has changed.                                              *)
ShrinkFs(n) ==
  /\ \E size \in Sectors : size < slots[n].size /\ SizeOfFs(n, size)
  /\ UNCHANGED <<readonly, rebootNeeded, growVars, diskVars, kernVars, writeVars>>

(* Wrong: the first entry has index 0. *)
StartReplayAtZero ==
  /\ phase' = "replay" /\ pos' = 0
  /\ killed' = (label # "gpt")
  /\ ped' = IF label = "gpt" THEN disk ELSE [n \in Nums |-> FreeStored]

(* gpt::write starts: it works on a copy of the table on the medium, or on *)
(* a new one when the medium holds no GPT.                                 *)
StartReplay ==
  /\ phase' = "replay" /\ pos' = 1
  /\ killed' = (label # "gpt")
  /\ ped' = IF label = "gpt" THEN disk ELSE [n \in Nums |-> FreeStored]

(* Resize to a larger size: the table is written first, if the user agrees *)
(* to that.                                                                *)
GrowFs(n) ==
  /\ \E size \in Sectors : size > slots[n].size /\ SizeOfFs(n, size)
  /\ \/ /\ growing' = n /\ oldsize' = slots[n].size
        /\ StartReplay
     \/ UNCHANGED <<growVars, writeVars>>
  /\ UNCHANGED <<readonly, rebootNeeded, diskVars, kernVars>>

(* Mount, of a partition that has a file system and that the kernel knows. *)
Mount(n) ==
  /\ Editing /\ "mount" \in Operations
  /\ slots[n].size > 0 /\ slots[n].use = "fs" /\ Written
  /\ kernel[n].size > 0
  /\ slots' = [slots EXCEPT ![n].use = "mounted"]
  /\ busy' = busy \union {n}
  /\ UNCHANGED <<queue, isDirty, readonly, rebootNeeded, growVars, diskVars, kernel, writeVars>>

Unmount(n) ==
  /\ Editing /\ slots[n].size > 0 /\ slots[n].use = "mounted"
  /\ slots' = [slots EXCEPT ![n].use = "fs"]
  /\ busy' = busy \ {n}
  /\ UNCHANGED <<queue, isDirty, readonly, rebootNeeded, growVars, diskVars, kernel, writeVars>>

(* Format, of a partition that is not mounted.  Formatting one that has a  *)
(* file system already changes nothing the model has.                      *)
Format(n) ==
  /\ Editing /\ ~readonly /\ "mount" \in Operations
  /\ slots[n].size > 0 /\ slots[n].use = "blank" /\ Written
  /\ kernel[n].size > 0 /\ n \notin busy
  /\ slots' = [slots EXCEPT ![n].use = "fs"]
  /\ UNCHANGED <<queue, isDirty, readonly, rebootNeeded, growVars, diskVars, kernVars, writeVars>>

-----------------------------------------------------------------------------
(* Wrong: the last verification is left out. *)
StartWriteUnverified ==
  /\ Editing /\ isDirty /\ ~readonly
  /\ StartReplay
  /\ UNCHANGED <<memVars, growVars, diskVars, kernVars>>

(* partition_table::write, which refuses a read-only table (internal_error) *)
(* and one whose partitions overlap.                                       *)
StartWrite ==
  /\ Editing /\ isDirty /\ ~readonly /\ VerifyParts(slots)
  /\ StartReplay
  /\ UNCHANGED <<memVars, growVars, diskVars, kernVars>>

Replaying == phase = "replay" /\ pos <= Len(queue)
Current   == queue[pos]

(* The type flag gpt::write sets for an added extent: that of the part of  *)
(* the table that has this extent when the table is written, if any.       *)
KindFor(ext) ==
  IF \E n \in Nums : slots[n].size > 0 /\ ExtentOf(slots[n]) = ext
  THEN slots[CHOOSE n \in Nums : slots[n].size > 0 /\ ExtentOf(slots[n]) = ext].kind
  ELSE "data"

(* The extent fits in the PedDisk; libparted clips or refuses another.     *)
Fits(table, ext) ==
  /\ ext.size > 0 /\ FirstUsable <= ext.start /\ End(ext) <= LastUsable
  /\ \A n \in Nums : ~Overlap(ext, table[n])

Within(e, ext) == ext.start <= e.start /\ End(e) <= End(ext)

Placed(table, ext, e) ==
  Fits(table, e) /\ IF Fits(table, ext) THEN e = ext ELSE Within(e, ext)

(* disk_add_partition gives the extent number m; the flag then goes to the *)
(* number the memory table has for it.                                     *)
Added(table, m, e) ==
  [table EXCEPT ![m] = [start |-> e.start, size |-> e.size, kind |-> "data"]]

Flagged(table, n, kind) == [table EXCEPT ![n].kind = kind]

WriteGoesOn ==
  /\ pos' = pos + 1
  /\ UNCHANGED <<memVars, growVars, diskVars, kernVars, phase, killed>>

ReplayAdd ==
  /\ Replaying /\ Current.op = "add"
  /\ \E m \in Nums, e \in Extent :
       LET added == Added(ped, m, e)
           kind  == KindFor(Current.ext)
       IN  /\ IsLowestFree(ped, m) /\ Placed(ped, Current.ext, e)
           /\ IF kind = "data" THEN ped' = added
              ELSE added[Current.num].size > 0 /\ ped' = Flagged(added, Current.num, kind)
  /\ WriteGoesOn

(* Entries that delete are skipped on a table made anew. *)
ReplayDel ==
  /\ Replaying /\ Current.op = "del"
  /\ \/ killed /\ UNCHANGED ped
     \/ /\ ~killed /\ ped[Current.num].size > 0
        /\ ped' = [ped EXCEPT ![Current.num] = FreeStored]
  /\ WriteGoesOn

(* Wrong: the partitions of a GPT medium are not deleted. *)
ReplayInitSkipped ==
  /\ Replaying /\ Current.op = "init"
  /\ UNCHANGED ped
  /\ WriteGoesOn

ReplayInit ==
  /\ Replaying /\ Current.op = "init"
  /\ ped' = IF killed THEN ped ELSE [n \in Nums |-> FreeStored]
  /\ WriteGoesOn

(* The entry is sure to be replayed: libparted finds the partition or has  *)
(* room for it, and the number that is flagged is taken by then.           *)
Applies(e) ==
  \/ e.op = "init"
  \/ e.op = "del" /\ (killed \/ ped[e.num].size > 0)
  \/ /\ e.op = "add" /\ Fits(ped, e.ext)
     /\ \E m \in Nums :
          /\ IsLowestFree(ped, m)
          /\ KindFor(e.ext) = "data" \/ m = e.num \/ ped[e.num].size > 0

(* The end of the write: its local variables go out of scope.              *)
WriteLeft(table) == pos' = 1 /\ killed' = FALSE /\ ped' = table

(* Resize's before_leaving: on an error the partition gets its size back.  *)
SizeRestored ==
  /\ slots' = IF growing = 0 THEN slots ELSE [slots EXCEPT ![growing].size = oldsize]
  /\ growing' = 0 /\ oldsize' = 0

(* One entry fails: gpt::write dies before it commits anything. *)
ReplayFails ==
  /\ Replaying /\ ~Applies(Current)
  /\ phase' = "edit" /\ WriteLeft(disk) /\ SizeRestored
  /\ UNCHANGED <<queue, isDirty, readonly, rebootNeeded, diskVars, kernVars>>

(* libparted tells the kernel the difference between the partitions it has *)
(* and those of a table; it fails when one that is in use would change,    *)
(* and may fail otherwise; some of the others may then have been told.     *)
KernelTold(table, inUse) ==
  /\ \A n \in inUse : kernel[n] = ExtentOf(table[n])
  /\ kernel' = LayoutOf(table)

KernelNotTold(table, inUse) ==
  \E told \in SUBSET (Nums \ inUse) :
    kernel' = [n \in Nums |-> IF n \in told THEN ExtentOf(table[n]) ELSE kernel[n]]

Replayed == phase = "replay" /\ pos > Len(queue)

(* Wrong: the table is no longer dirty when the write failed. *)
CommitFailsClean ==
  /\ Replayed
  /\ isDirty' = FALSE /\ queue' = <<>> /\ rebootNeeded' = TRUE
  /\ phase' = "edit" /\ WriteLeft(disk) /\ SizeRestored
  /\ UNCHANGED <<readonly, diskVars, kernVars>>

(* disk_commit returns 0: nothing was written; write dies. *)
CommitFails ==
  /\ Replayed
  /\ rebootNeeded' = TRUE
  /\ phase' = "edit" /\ WriteLeft(disk) /\ SizeRestored
  /\ UNCHANGED <<queue, isDirty, readonly, diskVars, kernVars>>

(* The write is over: back to the user, or to the Resize that asked for it. *)
AfterWrite == IF growing = 0 THEN "edit" ELSE "fsresize"

(* Wrong: the commit level is compared with 1. *)
CommitToOsIgnored ==
  /\ KernelTold(ped, busy) \/ KernelNotTold(ped, busy)
  /\ UNCHANGED rebootNeeded

(* disk_commit returns 2 if the kernel was told, 1 otherwise.              *)
CommitToOs ==
  \/ KernelTold(ped, busy) /\ UNCHANGED rebootNeeded
  \/ KernelNotTold(ped, busy) /\ rebootNeeded' = TRUE

(* disk_commit returns 1 or 2: the medium is written.  The kernel is told  *)
(* again if there was a queue and need_to_tell_kernel, rebootNeeded, holds. *)
Commit ==
  /\ Replayed
  /\ disk' = ped /\ label' = "gpt"
  /\ isDirty' = FALSE /\ queue' = <<>>
  /\ CommitToOs
  /\ phase' = IF rebootNeeded' /\ queue # <<>> THEN "tell" ELSE AfterWrite
  /\ WriteLeft(ped)
  /\ UNCHANGED <<slots, readonly, growVars, busy>>

(* tell_kernel always asks for a reread, since rebootNeeded holds.  It     *)
(* first unmounts what was mounted before DrakX started, as far as that is *)
(* possible; the mount call made afterwards lacks an argument and fails.   *)
MagicParts == {n \in Nums : slots[n].use = "magic"}

TellKernel ==
  /\ phase = "tell"
  /\ \E gone \in SUBSET MagicParts :
       /\ busy' = busy \ gone
       /\ \/ /\ KernelTold(disk, busy')
             /\ rebootNeeded' = FALSE /\ phase' = AfterWrite
             /\ UNCHANGED <<slots, growVars>>
          \/ /\ KernelNotTold(disk, busy')
             /\ rebootNeeded' = TRUE /\ phase' = "edit"
             /\ SizeRestored
  /\ UNCHANGED <<queue, isDirty, readonly, diskVars, ped, killed, pos>>

(* The rest of a Resize to a larger size: the file system is resized.      *)
FsResized ==
  /\ phase = "fsresize"
  /\ growing' = 0 /\ oldsize' = 0 /\ phase' = "edit"
  /\ UNCHANGED <<memVars, diskVars, kernVars, ped, killed, pos>>

FsResizeFails ==
  /\ phase = "fsresize"
  /\ SizeRestored /\ phase' = "edit"
  /\ UNCHANGED <<queue, isDirty, readonly, rebootNeeded, diskVars, kernVars, ped, killed, pos>>

-----------------------------------------------------------------------------
(* Reading the disk: partition_table::read gives the memory table what the *)
(* medium holds; a blank medium is initialised at once, which is pending.  *)
FoundAs(table, use) ==
  [n \in Nums |-> IF table[n].size = 0 THEN FreePart
                  ELSE [start |-> table[n].start, size |-> table[n].size,
                        kind |-> table[n].kind, use |-> use[n]]]

Init ==
  /\ label \in Labels /\ readonly \in Readonly
  /\ IF label = "gpt"
       THEN disk \in Layouts /\ queue = <<>> /\ isDirty = FALSE
       ELSE /\ disk = [n \in Nums |-> FreeStored]
            /\ queue = <<Op("init", 0, FreeExtent)>> /\ isDirty = TRUE
  /\ \E use \in [Nums -> Uses] : slots = FoundAs(disk, use)
  /\ kernel = LayoutOf(disk)
  /\ busy = {n \in Nums : slots[n].use \in {"mounted", "magic"}}
  /\ rebootNeeded = FALSE /\ growing = 0 /\ oldsize = 0
  /\ phase = "edit" /\ ped = disk /\ killed = FALSE /\ pos = 1

EditSlot(n) ==
  \/ Delete(n) \/ Type(n) \/ ResizeBlank(n) \/ ShrinkFs(n) \/ GrowFs(n)
  \/ Mount(n) \/ Unmount(n) \/ Format(n)

WriteStep ==
  \/ ReplayAdd \/ ReplayDel \/ ReplayInit \/ ReplayFails
  \/ CommitFails \/ Commit \/ TellKernel \/ FsResized \/ FsResizeFails

Next ==
  \/ Create \/ ClearAll \/ StartWrite \/ WriteStep
  \/ \E n \in Nums : EditSlot(n)

Spec == Init /\ [][Next]_vars

-----------------------------------------------------------------------------
(* Properties. *)

(* Every variable has its type. *)
TypeOK ==
  /\ slots \in [Nums -> Part]
  /\ queue \in Seq(Entry)
  /\ isDirty \in BOOLEAN /\ readonly \in BOOLEAN /\ rebootNeeded \in BOOLEAN
  /\ growing \in 0 .. NSlots /\ oldsize \in Sectors
  /\ label \in {"gpt", "none"} /\ disk \in Table
  /\ kernel \in [Nums -> Extent] /\ busy \subseteq Nums
  /\ phase \in {"edit", "replay", "tell", "fsresize"}
  /\ ped \in Table /\ killed \in BOOLEAN /\ pos \in Nat \ {0}

(* No step makes partitions of the memory table overlap, but a creation in *)
(* a hole that is smaller than the smallest partition, for which from_Mb   *)
(* returns its min: not one in another hole, a resize bounded by the next  *)
(* partition, nor a size put back after a resize that failed anywhere.     *)
NoOverlap  == VerifyParts(slots)
Tiny(hole) == hole.end - hole.start < MinSize

OnlyTinyHolesOverlap ==
  [][NoOverlap => NoOverlap' \/ \E hole \in Holes : Tiny(hole) /\ CreateIn(hole)]_vars

(* Partitions that overlap are never written: a table that is not dirty    *)
(* has none, also in the middle and after the failure of a write.          *)
WrittenIsApart == ~isDirty => NoOverlap

(* When no reboot is asked for, the kernel has the partitions of the       *)
(* medium, whatever was refused, failed or was only told in part before.   *)
KernelKnowsDisk == ~rebootNeeded => kernel = LayoutOf(disk)

(* A write never changes on the medium a partition that the memory table   *)
(* says is mounted: not by a delete, a resize or a renumbering.            *)
MountedKept ==
  [][\A n \in Nums : slots[n].use \in {"mounted", "magic"} =>
       ExtentOf(disk'[n]) = ExtentOf(disk[n])]_vars

(* What that depends on.  Every hole that is offered has room for the      *)
(* smallest partition.                                                     *)
NoTinyHole == \A hole \in Holes : ~Tiny(hole)

(* After the del of a resize libparted gives its add this number again:    *)
(* the lower ones are taken.                                               *)
InOrder(n) == \A k \in Nums : k < n => slots[k].size > 0

(* The smallest size Resize offers is not larger than the room there is.   *)
HasRoom(n) ==
  \A next \in Sectors :
    slots[n].use = "blank" /\ NextStart(End(slots[n]), next) =>
      slots[n].start + MinSize <= next

(* Nothing that a table made anew would skip is queued, a resize keeps its *)
(* number, and the size of one that waits for its write is not put back.   *)
Orderly ==
  /\ \A n \in Nums :
       /\ Delete(n) => label = "gpt"
       /\ ResizeBlank(n) \/ ShrinkFs(n) \/ GrowFs(n) =>
            label = "gpt" /\ InOrder(n) /\ HasRoom(n)
  /\ growing # 0 => slots' = slots

OrderlySpec == Init /\ [][Next /\ NoTinyHole /\ Orderly]_vars

(* A memory table that is not dirty is the table on the medium: the same   *)
(* extents under the same numbers, on which every /dev/sdXn depends.       *)
CleanMeansWritten ==
  Editing /\ ~isDirty => LayoutOf(slots) = LayoutOf(disk)

(* gpt::write never meets an entry it cannot replay: a delete finds its    *)
(* partition and an add its room, after any series of operations.          *)
QueueReplays == Replaying => Applies(Current)

(* What is formatted or mounted is the extent the user chose: the device   *)
(* /dev/sdXn the tools are given is, for the kernel, that partition.       *)
RightDevice ==
  [][\A n \in Nums : Format(n) \/ Mount(n) => kernel[n] = ExtentOf(slots[n])]_vars

(* The edits and writes implement an editor with a save: the medium is     *)
(* only changed as a whole, to what the memory table holds.                *)
Saved ==
  INSTANCE SavedTable WITH
    Tables <- [Nums -> Extent], memory <- LayoutOf(slots),
    medium <- LayoutOf(disk), dirty <- isDirty

ImplementsSavedTable == Saved!Spec
=============================================================================
