--------------------------- MODULE GptTable_proofs ---------------------------
(***************************************************************************)
(* Proofs about GptTable for any number of entries and sectors, any tables *)
(* on the medium, any alignment and any length of the queue.               *)
(***************************************************************************)
EXTENDS GptTable, SequenceTheorems, TLAPS

-----------------------------------------------------------------------------
(* Types. *)

LEMMA FreeTyped ==
  /\ FreeExtent \in Extent /\ FreeStored \in Stored /\ FreePart \in Part
  /\ 0 \in Sectors /\ Sectors \subseteq Nat /\ Nums \subseteq Nat
BY GptAssumption
   DEF FreeExtent, FreeStored, FreePart, Extent, Stored, Part, Sectors, Nums

LEMMA ExtentTyped ==
  /\ \A p \in Part : ExtentOf(p) \in Extent
  /\ \A p \in Stored : ExtentOf(p) \in Extent
  /\ \A t \in Table : LayoutOf(t) \in [Nums -> Extent]
  /\ \A t \in [Nums -> Part] : LayoutOf(t) \in [Nums -> Extent]
BY DEF ExtentOf, Extent, Part, Stored, Table, LayoutOf

LEMMA OpTyped ==
  /\ Op("init", 0, FreeExtent) \in Entry
  /\ \A n \in Nums : Op("del", n, FreeExtent) \in Entry
  /\ \A n \in Nums, e \in Extent : Op("add", n, e) \in Entry
<1>1. 0 \in 0 .. NSlots /\ Nums \subseteq 0 .. NSlots
  BY GptAssumption DEF Nums
<1> QED
  BY <1>1, FreeTyped DEF Op, Entry

(* The initial states have their types. *)
LEMMA InitTyped == Init => TypeOK
<1> SUFFICES ASSUME Init PROVE TypeOK
  OBVIOUS
<1>1. label \in {"gpt", "none"} /\ readonly \in BOOLEAN
  BY GptAssumption DEF Init
<1>2. disk \in Table
  <2>1. disk \in Layouts \/ disk = [n \in Nums |-> FreeStored]
    BY DEF Init
  <2>2. [n \in Nums |-> FreeStored] \in Table
    BY FreeTyped DEF Table
  <2>3. Layouts \subseteq Table
    BY LayoutsAssumption
  <2> QED
    BY <2>1, <2>2, <2>3
<1>3. queue \in Seq(Entry) /\ isDirty \in BOOLEAN
  <2>1. \/ queue = <<>> /\ isDirty = FALSE
        \/ queue = <<Op("init", 0, FreeExtent)>> /\ isDirty = TRUE
    BY DEF Init
  <2> HIDE DEF Entry
  <2>2. <<Op("init", 0, FreeExtent)>> \in Seq(Entry)
    BY OpTyped
  <2>3. <<>> \in Seq(Entry)
    OBVIOUS
  <2> QED
    BY <2>1, <2>2, <2>3
<1>4. slots \in [Nums -> Part]
  <2>1. PICK use \in [Nums -> Uses] : slots = FoundAs(disk, use)
    BY DEF Init
  <2>2. ASSUME NEW n \in Nums PROVE slots[n] \in Part
    <3>1. disk[n] \in Stored /\ use[n] \in {"blank", "fs", "mounted", "magic"}
      BY <1>2, GptAssumption DEF Table
    <3> QED
      BY <2>1, <3>1, FreeTyped DEF FoundAs, Part, Stored
  <2> QED
    BY <2>1, <2>2 DEF FoundAs
<1>5. kernel \in [Nums -> Extent] /\ busy \subseteq Nums
  BY <1>2, ExtentTyped DEF Init
<1>6. growing \in 0 .. NSlots /\ oldsize \in Sectors
  BY GptAssumption, FreeTyped DEF Init
<1>7. /\ rebootNeeded \in BOOLEAN /\ phase \in {"edit", "replay", "tell", "fsresize"}
      /\ ped \in Table /\ killed \in BOOLEAN /\ pos \in Nat \ {0}
  <2>1. rebootNeeded = FALSE /\ killed = FALSE
    BY DEF Init
  <2>2. phase = "edit" /\ ped = disk /\ pos = 1
    BY DEF Init
  <2>3. rebootNeeded \in BOOLEAN /\ killed \in BOOLEAN
    BY <2>1
  <2> QED
    BY <1>2, <2>2, <2>3
<1> QED
  BY <1>1, <1>2, <1>3, <1>4, <1>5, <1>6, <1>7 DEF TypeOK

(* What the user does keeps the types. *)
LEMMA EditTyped ==
  ASSUME TypeOK, Create \/ ClearAll \/ StartWrite \/ \E n \in Nums : EditSlot(n)
  PROVE  TypeOK'
<1> USE GptAssumption, FreeTyped
<1>1. CASE Create
  <2>1. PICK hole \in Holes, start \in Sectors, size \in Sectors :
           /\ Accepted(hole, start, size)
           /\ \E a \in Sectors, kind \in Kinds, n \in Nums :
                LET new == [start |-> a, size |-> start + size - a,
                            kind |-> kind, use |-> "blank"]
                IN  /\ RoundsUpTo(start, a) /\ IsLowestFree(slots, n)
                    /\ slots' = [slots EXCEPT ![n] = new]
                    /\ WillTell(Append(queue, Op("add", n, ExtentOf(new))))
    BY <1>1 DEF Create, CreateIn
  <2>2. PICK a \in Sectors, kind \in Kinds, n \in Nums :
           LET new == [start |-> a, size |-> start + size - a,
                       kind |-> kind, use |-> "blank"]
           IN  /\ RoundsUpTo(start, a)
               /\ slots' = [slots EXCEPT ![n] = new]
               /\ WillTell(Append(queue, Op("add", n, ExtentOf(new))))
    BY <2>1
  <2> DEFINE new == [start |-> a, size |-> start + size - a, kind |-> kind, use |-> "blank"]
  <2>3. size >= MinSize
    BY <2>1 DEF Accepted
  <2>4. start + size - a \in Sectors
    BY <2>2, <2>3 DEF RoundsUpTo, Sectors
  <2>5. new \in Part
    BY <2>4 DEF Part
  <2>6. Op("add", n, ExtentOf(new)) \in Entry
    BY <2>5, ExtentTyped, OpTyped
  <2>7. /\ slots' = [slots EXCEPT ![n] = new]
        /\ queue' = Append(queue, Op("add", n, ExtentOf(new))) /\ isDirty' = TRUE
    BY <2>2 DEF WillTell
  <2>8. slots' \in [Nums -> Part] /\ queue' \in Seq(Entry)
    BY <2>5, <2>6, <2>7 DEF TypeOK
  <2> QED
    BY <1>1, <2>7, <2>8 DEF Create, CreateIn, TypeOK, growVars, diskVars, kernVars, writeVars
<1>2. CASE ClearAll
  <2>1. slots' \in [Nums -> Part] /\ queue' \in Seq(Entry) /\ isDirty' \in BOOLEAN
    BY <1>2, OpTyped DEF ClearAll, WillTell
  <2> QED
    BY <1>2, <2>1 DEF ClearAll, TypeOK, growVars, diskVars, kernVars, writeVars
<1>3. CASE StartWrite
  BY <1>3 DEF StartWrite, StartReplay, TypeOK, Table, memVars, growVars, diskVars, kernVars
<1>4. ASSUME NEW n \in Nums, EditSlot(n) PROVE TypeOK'
  <2>1. slots[n] \in Part /\ n \in 0 .. NSlots
    BY DEF TypeOK, Nums
  <2>2. Op("del", n, FreeExtent) \in Entry
    BY OpTyped
  <2>3. ASSUME NEW size \in Sectors, NEW use \in {"blank", "fs"}
        PROVE  /\ [slots[n] EXCEPT !.size = size] \in Part
               /\ [slots[n] EXCEPT !.size = size, !.use = use] \in Part
    BY <2>1 DEF Part
  <2>11. ASSUME NEW new \in Part, TellResize(n, new)
         PROVE  queue' \in Seq(Entry) /\ isDirty' \in BOOLEAN
    <3>1. Op("add", n, ExtentOf(new)) \in Entry
      BY ExtentTyped, OpTyped
    <3>2. <<Op("del", n, FreeExtent), Op("add", n, ExtentOf(new))>> \in Seq(Entry)
      BY <2>2, <3>1
    <3> HIDE DEF Entry
    <3> QED
      BY <2>11, <3>2 DEF TellResize, WillTell, TypeOK
  <2>4. CASE Delete(n)
    <3>1. slots' \in [Nums -> Part] /\ queue' \in Seq(Entry)
      BY <2>2, <2>4 DEF Delete, WillTell, TypeOK
    <3>2. isDirty' = TRUE
      BY <2>4 DEF Delete, WillTell
    <3> QED
      BY <2>4, <3>1, <3>2 DEF Delete, TypeOK, growVars, diskVars, kernVars, writeVars
  <2>5. CASE Type(n)
    <3>1. slots' \in [Nums -> Part]
      <4>1. PICK kind \in Kinds :
               slots' = [slots EXCEPT ![n].kind = kind, ![n].use = "blank"]
        BY <2>5 DEF Type
      <4>2. [slots[n] EXCEPT !.kind = kind, !.use = "blank"] \in Part
        BY <2>1 DEF Part
      <4>3. slots' = [slots EXCEPT ![n] = [slots[n] EXCEPT !.kind = kind, !.use = "blank"]]
        BY <4>1 DEF TypeOK
      <4> QED
        BY <4>2, <4>3 DEF TypeOK
    <3> QED
      BY <2>5, <3>1 DEF Type, TypeOK, growVars, diskVars, kernVars, writeVars
  <2>6. CASE ResizeBlank(n)
    <3>1. PICK size \in Sectors :
             LET new == [slots[n] EXCEPT !.size = size, !.use = "blank"]
                 resized == [slots EXCEPT ![n] = new]
             IN  /\ slots' = IF VerifyParts(resized) THEN resized
                             ELSE [slots EXCEPT ![n].use = "blank"]
                 /\ TellResize(n, new)
      BY <2>6 DEF ResizeBlank
    <3>2. [slots[n] EXCEPT !.size = size, !.use = "blank"] \in Part
      BY <2>3
    <3>3. slots' \in [Nums -> Part]
      <4>1. [slots[n] EXCEPT !.use = "blank"] \in Part
        BY <2>1 DEF Part
      <4>2. slots' \in {[slots EXCEPT ![n] = p] : p \in Part}
        BY <3>1, <3>2, <4>1
      <4> QED
        BY <4>2 DEF TypeOK
    <3>4. queue' \in Seq(Entry) /\ isDirty' \in BOOLEAN
      BY <3>1, <3>2, <2>11
    <3> QED
      BY <2>6, <3>3, <3>4 DEF ResizeBlank, TypeOK, growVars, diskVars, kernVars, writeVars
  <2>7. ASSUME NEW size \in Sectors, SizeOfFs(n, size)
        PROVE  slots' \in [Nums -> Part] /\ queue' \in Seq(Entry) /\ isDirty' \in BOOLEAN
    <3>1. [slots[n] EXCEPT !.size = size] \in Part
      BY <2>3
    <3>2. slots' = [slots EXCEPT ![n] = [slots[n] EXCEPT !.size = size]]
      BY <2>7 DEF SizeOfFs
    <3> QED
      BY <2>7, <3>1, <3>2, <2>11 DEF SizeOfFs, TypeOK
  <2>8. CASE ShrinkFs(n)
    BY <2>7, <2>8 DEF ShrinkFs, TypeOK, growVars, diskVars, kernVars, writeVars
  <2>9. CASE GrowFs(n)
    <3>1. slots' \in [Nums -> Part] /\ queue' \in Seq(Entry) /\ isDirty' \in BOOLEAN
      BY <2>7, <2>9 DEF GrowFs
    <3>2. growing' \in 0 .. NSlots /\ oldsize' \in Sectors
      BY <2>1, <2>9 DEF GrowFs, TypeOK, growVars, Part
    <3>3. /\ ped' \in Table /\ killed' \in BOOLEAN /\ pos' \in Nat \ {0}
          /\ phase' \in {"edit", "replay", "tell", "fsresize"}
      <4>1. CASE UNCHANGED writeVars
        BY <4>1 DEF TypeOK, writeVars
      <4>2. CASE StartReplay
        <5>1. ped' \in Table
          BY <4>2 DEF StartReplay, TypeOK, Table
        <5>2. killed' \in BOOLEAN
          BY <4>2 DEF StartReplay
        <5> QED
          BY <4>2, <5>1, <5>2 DEF StartReplay
      <4> QED
        BY <2>9, <4>1, <4>2 DEF GrowFs
    <3> QED
      BY <2>9, <3>1, <3>2, <3>3 DEF GrowFs, TypeOK, diskVars, kernVars
  <2>10. CASE Mount(n) \/ Unmount(n) \/ Format(n)
    <3>1. slots' \in [Nums -> Part] /\ busy' \subseteq Nums
      <4>1. PICK use \in {"fs", "mounted"} : slots' = [slots EXCEPT ![n].use = use]
        BY <2>10 DEF Mount, Unmount, Format
      <4>2. [slots[n] EXCEPT !.use = use] \in Part
        BY <2>1 DEF Part
      <4>3. busy' \subseteq Nums
        BY <2>10 DEF Mount, Unmount, Format, TypeOK, kernVars
      <4> QED
        BY <4>1, <4>2, <4>3 DEF TypeOK
    <3>2. UNCHANGED <<queue, isDirty, readonly, rebootNeeded, growVars, diskVars, kernel, writeVars>>
      BY <2>10 DEF Mount, Unmount, Format, kernVars
    <3> QED
      BY <3>1, <3>2 DEF TypeOK, growVars, diskVars, writeVars
  <2> QED
    BY <1>4, <2>4, <2>5, <2>6, <2>8, <2>9, <2>10 DEF EditSlot
<1> QED
  BY <1>1, <1>2, <1>3, <1>4

LEMMA RestoredTyped ==
  ASSUME TypeOK, SizeRestored
  PROVE  slots' \in [Nums -> Part] /\ growing' \in 0 .. NSlots /\ oldsize' \in Sectors
<1>1. growing' \in 0 .. NSlots /\ oldsize' \in Sectors
  BY GptAssumption, FreeTyped DEF SizeRestored
<1>2. CASE growing = 0
  BY <1>1, <1>2 DEF SizeRestored, TypeOK
<1>3. CASE growing # 0
  <2>1. growing \in Nums /\ oldsize \in Sectors
    BY <1>3, GptAssumption DEF TypeOK, Nums
  <2>2. [slots[growing] EXCEPT !.size = oldsize] \in Part
    BY <2>1 DEF TypeOK, Part
  <2>3. slots' = [slots EXCEPT ![growing].size = oldsize]
    BY <1>3 DEF SizeRestored
  <2> QED
    BY <1>1, <2>1, <2>2, <2>3 DEF TypeOK
<1> QED
  BY <1>2, <1>3

LEMMA KernelTyped ==
  ASSUME NEW table \in Table, NEW inUse, kernel \in [Nums -> Extent],
         KernelTold(table, inUse) \/ KernelNotTold(table, inUse)
  PROVE  kernel' \in [Nums -> Extent]
<1>1. CASE KernelTold(table, inUse)
  BY <1>1, ExtentTyped DEF KernelTold
<1>2. CASE KernelNotTold(table, inUse)
  BY <1>2, ExtentTyped DEF KernelNotTold, Table
<1> QED
  BY <1>1, <1>2

(* The steps of a write keep the types. *)
LEMMA WriteTyped ==
  ASSUME TypeOK, WriteStep
  PROVE  TypeOK'
<1> USE GptAssumption, FreeTyped
<1>1. ASSUME NEW table \in Table, WriteLeft(table)
      PROVE  ped' \in Table /\ killed' \in BOOLEAN /\ pos' \in Nat \ {0}
  <2>1. killed' \in BOOLEAN
    BY <1>1 DEF WriteLeft
  <2> QED
    BY <1>1, <2>1 DEF WriteLeft
<1>2. ASSUME WriteGoesOn, ped' \in Table PROVE TypeOK'
  BY <1>2 DEF WriteGoesOn, TypeOK, memVars, growVars, diskVars, kernVars
<1>3. disk \in Table /\ ped \in Table
  BY DEF TypeOK
<1>4. CASE ReplayAdd
  <2>1. PICK m \in Nums, e \in Extent :
          LET added == Added(ped, m, e)
              kind  == KindFor(Current.ext)
          IN  IF kind = "data" THEN ped' = added
              ELSE added[Current.num].size > 0 /\ ped' = Flagged(added, Current.num, kind)
    BY <1>4 DEF ReplayAdd
  <2> DEFINE added == Added(ped, m, e)
  <2>2. added \in Table
    BY <1>3 DEF Added, Table, Stored, Extent
  <2>3. KindFor(Current.ext) \in Kinds
    <3>1. ASSUME NEW n \in Nums PROVE slots[n].kind \in Kinds
      BY DEF TypeOK, Part
    <3> DEFINE Is(n) == slots[n].size > 0 /\ ExtentOf(slots[n]) = Current.ext
    <3>2. CASE \E n \in Nums : Is(n)
      <4>1. (CHOOSE n \in Nums : Is(n)) \in Nums
        BY <3>2
      <4> QED
        BY <3>1, <3>2, <4>1 DEF KindFor
    <3>3. CASE ~ \E n \in Nums : Is(n)
      BY <3>3 DEF KindFor
    <3> QED
      BY <3>2, <3>3
  <2>4. Flagged(added, Current.num, KindFor(Current.ext)) \in Table
    <3>1. CASE Current.num \in Nums
      <4>1. [added[Current.num] EXCEPT !.kind = KindFor(Current.ext)] \in Stored
        BY <2>2, <2>3, <3>1 DEF Table, Stored
      <4> QED
        BY <2>2, <3>1, <4>1 DEF Flagged, Table
    <3>2. CASE Current.num \notin Nums
      <4>1. Flagged(added, Current.num, KindFor(Current.ext)) = added
        BY <2>2, <3>2 DEF Flagged, Table
      <4> QED
        BY <2>2, <4>1
    <3> QED
      BY <3>1, <3>2
  <2>5. ped' \in Table
    BY <2>1, <2>2, <2>4
  <2> QED
    BY <1>2, <1>4, <2>5 DEF ReplayAdd
<1>5. CASE ReplayDel
  <2>1. ped' \in Table
    BY <1>3, <1>5 DEF ReplayDel, Table
  <2> QED
    BY <1>2, <1>5, <2>1 DEF ReplayDel
<1>6. CASE ReplayInit
  <2>1. ped' \in Table
    BY <1>3, <1>6 DEF ReplayInit, Table
  <2> QED
    BY <1>2, <1>6, <2>1 DEF ReplayInit
<1>7. CASE ReplayFails
  BY <1>1, <1>3, <1>7, RestoredTyped DEF ReplayFails, TypeOK, diskVars, kernVars
<1>8. CASE CommitFails
  <2>1. rebootNeeded' \in BOOLEAN
    BY <1>8 DEF CommitFails
  <2> QED
    BY <1>1, <1>3, <1>8, <2>1, RestoredTyped DEF CommitFails, TypeOK, diskVars, kernVars
<1>9. CASE Commit
  <2>1. kernel' \in [Nums -> Extent]
    BY <1>3, <1>9, KernelTyped DEF Commit, CommitToOs, TypeOK
  <2>2. rebootNeeded' \in BOOLEAN
    BY <1>9 DEF Commit, CommitToOs, TypeOK
  <2>3. isDirty' \in BOOLEAN /\ queue' \in Seq(Entry)
    <3>1. isDirty' = FALSE /\ queue' = <<>>
      BY <1>9 DEF Commit
    <3>2. isDirty' \in BOOLEAN
      BY <3>1
    <3>3. queue' \in Seq(Entry)
      BY <3>1
    <3> QED
      BY <3>2, <3>3
  <2>4. ped' \in Table /\ killed' \in BOOLEAN /\ pos' \in Nat \ {0}
    BY <1>1, <1>3, <1>9 DEF Commit
  <2>5. phase' \in {"edit", "replay", "tell", "fsresize"}
    BY <1>9 DEF Commit, AfterWrite
  <2> QED
    BY <1>3, <1>9, <2>1, <2>2, <2>3, <2>4, <2>5 DEF Commit, TypeOK, growVars
<1>10. CASE TellKernel
  <2>1. busy' \subseteq Nums
    BY <1>10 DEF TellKernel, TypeOK
  <2>2. kernel' \in [Nums -> Extent]
    BY <1>3, <1>10, KernelTyped DEF TellKernel, TypeOK
  <2>3. rebootNeeded' \in BOOLEAN /\ phase' \in {"edit", "replay", "tell", "fsresize"}
    <3>1. rebootNeeded' = TRUE \/ rebootNeeded' = FALSE
      BY <1>10 DEF TellKernel
    <3>2. phase' \in {"edit", "replay", "tell", "fsresize"}
      BY <1>10 DEF TellKernel, AfterWrite
    <3> QED
      BY <3>1, <3>2
  <2>4. slots' \in [Nums -> Part] /\ growing' \in 0 .. NSlots /\ oldsize' \in Sectors
    <3>1. (UNCHANGED <<slots, growVars>>) \/ SizeRestored
      BY <1>10 DEF TellKernel
    <3> QED
      BY <3>1, RestoredTyped DEF TypeOK, growVars
  <2> QED
    BY <1>10, <2>1, <2>2, <2>3, <2>4 DEF TellKernel, TypeOK, diskVars
<1>11. CASE FsResized
  BY <1>11 DEF FsResized, TypeOK, memVars, diskVars, kernVars
<1>12. CASE FsResizeFails
  BY <1>12, RestoredTyped DEF FsResizeFails, TypeOK, diskVars, kernVars
<1> QED
  BY <1>4, <1>5, <1>6, <1>7, <1>8, <1>9, <1>10, <1>11, <1>12 DEF WriteStep

LEMMA NextTyped == TypeOK /\ [Next]_vars => TypeOK'
<1>1. CASE UNCHANGED vars
  BY <1>1 DEF TypeOK, vars, memVars, growVars, diskVars, kernVars, writeVars
<1> QED
  BY <1>1, EditTyped, WriteTyped DEF Next

(* Every reachable state has its type, whatever the bounds. *)
THEOREM TypeCorrect == Spec => []TypeOK
BY InitTyped, NextTyped, PTL DEF Spec
-----------------------------------------------------------------------------
(* The kernel's partitions. *)

(* A step leaves the kernel and the medium alone, tells the kernel all of  *)
(* the medium's table, or asks for a reboot.                               *)
LEMMA KernelStep ==
  KernelKnowsDisk /\ [Next]_vars => KernelKnowsDisk'
<1> SUFFICES ASSUME KernelKnowsDisk, [Next]_vars PROVE KernelKnowsDisk'
  OBVIOUS
<1> USE DEF KernelKnowsDisk, diskVars, kernVars
<1>1. CASE UNCHANGED vars
  BY <1>1 DEF vars, memVars
<1>2. CASE Create \/ ClearAll \/ StartWrite
  BY <1>2 DEF Create, CreateIn, ClearAll, StartWrite, memVars
<1>3. ASSUME NEW n \in Nums, EditSlot(n) PROVE KernelKnowsDisk'
  <2>1. CASE Delete(n) \/ Type(n) \/ ResizeBlank(n) \/ ShrinkFs(n) \/ GrowFs(n)
    BY <2>1 DEF Delete, Type, ResizeBlank, ShrinkFs, GrowFs
  <2>2. CASE Mount(n) \/ Unmount(n) \/ Format(n)
    BY <2>2 DEF Mount, Unmount, Format
  <2> QED
    BY <1>3, <2>1, <2>2 DEF EditSlot
<1>4. CASE ReplayAdd \/ ReplayDel \/ ReplayInit
  BY <1>4 DEF ReplayAdd, ReplayDel, ReplayInit, WriteGoesOn, memVars
<1>5. CASE ReplayFails \/ CommitFails
  BY <1>5 DEF ReplayFails, CommitFails
<1>6. CASE Commit
  BY <1>6 DEF Commit, CommitToOs, KernelTold
<1>7. CASE TellKernel
  BY <1>7 DEF TellKernel, KernelTold
<1>8. CASE FsResized \/ FsResizeFails
  BY <1>8 DEF FsResized, FsResizeFails, memVars
<1> QED
  BY <1>1, <1>2, <1>3, <1>4, <1>5, <1>6, <1>7, <1>8 DEF Next, WriteStep

(* Unless a reboot is asked for, the kernel has the medium's partitions.   *)
THEOREM KernelFollows == Spec => []KernelKnowsDisk
<1>1. Init => KernelKnowsDisk
  BY DEF Init, KernelKnowsDisk
<1> QED
  BY <1>1, KernelStep, PTL DEF Spec

-----------------------------------------------------------------------------
(* Overlaps. *)

(* While a Resize waits for a write, the partition has at least the size   *)
(* that it goes back to if it fails.                                       *)
GrowthPending ==
  growing = 0 \/ (phase # "edit" /\ growing \in Nums /\ slots[growing].size >= oldsize)

(* A partition that gets smaller overlaps no other.                        *)
LEMMA SmallerKeepsApart ==
  ASSUME NEW table \in [Nums -> Part], VerifyParts(table),
         NEW n \in Nums, NEW size \in Sectors, size <= table[n].size
  PROVE  VerifyParts([table EXCEPT ![n].size = size])
<1> DEFINE new == [table EXCEPT ![n].size = size]
<1>1. ASSUME NEW k \in Nums
      PROVE  /\ new[k].start = table[k].start /\ new[k].size <= table[k].size
             /\ new[k].size \in Nat /\ table[k].size \in Nat /\ table[k].start \in Nat
  BY FreeTyped DEF Part
<1>2. ASSUME NEW k \in Nums, NEW m \in Nums, k # m PROVE ~Overlap(new[k], new[m])
  <2>1. ~Overlap(table[k], table[m])
    BY <1>2 DEF VerifyParts
  <2> QED
    BY <1>1, <2>1 DEF Overlap, End
<1> QED
  BY <1>2 DEF VerifyParts

(* A partition that replaces the one in slot n, and that no other overlaps. *)
LEMMA OneKeepsApart ==
  ASSUME NEW table \in [Nums -> Part], VerifyParts(table),
         NEW n \in Nums, NEW p \in Part,
         \A k \in Nums \ {n} : ~Overlap(p, table[k])
  PROVE  VerifyParts([table EXCEPT ![n] = p])
<1> DEFINE new == [table EXCEPT ![n] = p]
<1>1. ASSUME NEW k \in Nums, NEW m \in Nums, k # m PROVE ~Overlap(new[k], new[m])
  <2>1. ~Overlap(table[k], table[m])
    BY <1>1 DEF VerifyParts
  <2>2. \A q, r : Overlap(q, r) => Overlap(r, q)
    BY DEF Overlap
  <2> QED
    BY <1>1, <2>1, <2>2
<1> QED
  BY <1>1 DEF VerifyParts

(* The start and size of an entry do not depend on its use.                *)
LEMMA UseKeepsApart ==
  ASSUME NEW table \in [Nums -> Part], NEW other \in [Nums -> Part], VerifyParts(table),
         \A n \in Nums : other[n].start = table[n].start /\ other[n].size = table[n].size
  PROVE  VerifyParts(other)
BY DEF VerifyParts, Overlap, End

(* What lies in a hole overlaps no partition.                              *)
LEMMA HoleIsFree ==
  ASSUME TypeOK, NoOverlap, NEW hole \in Holes, NEW p \in Part,
         hole.start <= p.start, End(p) <= hole.end
  PROVE  \A k \in Nums : ~Overlap(p, slots[k])
<1> SUFFICES ASSUME NEW k \in Nums, slots[k].size > 0 PROVE ~Overlap(p, slots[k])
  BY DEF Overlap
<1>1. \A n \in Nums : slots[n].start \in Nat /\ slots[n].size \in Nat
  BY FreeTyped DEF TypeOK, Part
<1>2. p.start \in Nat /\ p.size \in Nat
  BY FreeTyped DEF Part
<1>3. ASSUME NEW from \in Nat, NextStart(from, hole.end), from <= slots[k].start
      PROVE  hole.end <= slots[k].start
  <2>1. slots[k].start \in Later(from)
    BY <1>3 DEF Later, Used
  <2> QED
    BY <1>3, <2>1 DEF NextStart
<1>4. CASE NextStart(0, hole.end)
  BY <1>1, <1>2, <1>3, <1>4, GptAssumption DEF Overlap, End, Holes, Later, Used
<1>5. ASSUME NEW n \in Used, hole.start = End(slots[n]), NextStart(slots[n].start + 1, hole.end)
      PROVE  ~Overlap(p, slots[k])
  <2>1. n \in Nums /\ slots[n].size > 0
    BY DEF Used
  <2>2. hole.end \in Int
    BY <1>1, GptAssumption DEF Holes, Later, Used
  <2>3. CASE slots[k].start > slots[n].start
    <3>1. slots[n].start + 1 \in Nat /\ slots[n].start + 1 <= slots[k].start
      BY <1>1, <2>1, <2>3
    <3>2. hole.end <= slots[k].start
      BY <1>3, <1>5, <3>1
    <3> QED
      BY <1>1, <1>2, <2>2, <3>2 DEF Overlap, End
  <2>4. CASE slots[k].start <= slots[n].start
    <3>1. End(slots[k]) <= End(slots[n])
      <4>1. CASE k = n
        BY <4>1, <1>1 DEF End
      <4>2. CASE k # n
        <5>1. ~Overlap(slots[k], slots[n])
          BY <2>1, <4>2 DEF NoOverlap, VerifyParts
        <5> QED
          BY <1>1, <2>1, <2>4, <5>1 DEF Overlap, End
      <4> QED
        BY <4>1, <4>2
    <3> QED
      BY <1>1, <1>2, <1>5, <2>1, <3>1 DEF Overlap, End
  <2> QED
    BY <1>1, <2>1, <2>3, <2>4
<1> QED
  BY <1>4, <1>5 DEF Holes

(* A partition that grows up to the next one overlaps no other.            *)
LEMMA GrowthIsFree ==
  ASSUME TypeOK, NoOverlap, NEW n \in Nums, slots[n].size > 0,
         NEW size \in Sectors, NEW next \in Sectors,
         NextStart(End(slots[n]), next), slots[n].start + size <= next
  PROVE  VerifyParts([slots EXCEPT ![n].size = size])
<1> DEFINE p == [slots[n] EXCEPT !.size = size]
<1>1. \A k \in Nums : slots[k].start \in Nat /\ slots[k].size \in Nat
  BY FreeTyped DEF TypeOK, Part
<1>2. p \in Part /\ size \in Nat /\ next \in Nat
  BY FreeTyped DEF TypeOK, Part
<1>3. ASSUME NEW k \in Nums \ {n}, slots[k].size > 0 PROVE ~Overlap(p, slots[k])
  <2>1. CASE slots[k].start >= End(slots[n])
    <3>1. slots[k].start \in Later(End(slots[n]))
      BY <1>3, <2>1 DEF Later, Used
    <3>2. next <= slots[k].start
      BY <3>1 DEF NextStart
    <3> QED
      BY <1>1, <1>2, <3>2 DEF Overlap, End, TypeOK, Part
  <2>2. CASE slots[k].start < End(slots[n])
    <3>1. ~Overlap(slots[k], slots[n])
      BY <1>3 DEF NoOverlap, VerifyParts
    <3> QED
      BY <1>1, <1>2, <1>3, <2>2, <3>1 DEF Overlap, End, TypeOK, Part
  <2> QED
    BY <1>1, <2>1, <2>2 DEF End
<1>4. \A k \in Nums \ {n} : ~Overlap(p, slots[k])
  BY <1>3 DEF Overlap
<1>5. VerifyParts([slots EXCEPT ![n] = p])
  BY <1>2, <1>4, OneKeepsApart DEF NoOverlap, TypeOK
<1>6. [slots EXCEPT ![n] = p] = [slots EXCEPT ![n].size = size]
  BY DEF TypeOK
<1> QED
  BY <1>5, <1>6

ApartInv == TypeOK /\ NoOverlap /\ GrowthPending

LEMMA InitApart == Init => NoOverlap /\ GrowthPending
<1> SUFFICES ASSUME Init PROVE NoOverlap /\ GrowthPending
  OBVIOUS
<1>1. GrowthPending
  BY DEF Init, GrowthPending
<1>2. ASSUME NEW m \in Nums, NEW n \in Nums, m # n PROVE ~Overlap(disk[m], disk[n])
  <2>1. CASE disk \in Layouts
    BY <1>2, <2>1, LayoutsAssumption
  <2>2. CASE disk = [k \in Nums |-> FreeStored]
    BY <2>2 DEF Overlap, FreeStored
  <2> QED
    BY <2>1, <2>2 DEF Init
<1>3. ASSUME NEW n \in Nums, slots[n].size > 0
      PROVE  slots[n].start = disk[n].start /\ slots[n].size = disk[n].size
  BY <1>3 DEF Init, FoundAs, FreePart
<1>4. NoOverlap
  BY <1>2, <1>3 DEF NoOverlap, VerifyParts, Overlap, End
<1> QED
  BY <1>1, <1>4

(* A size put back after a failed Resize is not larger than the new one.   *)
LEMMA RestoredApart ==
  ASSUME ApartInv, SizeRestored
  PROVE  VerifyParts(slots') /\ growing' = 0
<1>1. CASE growing = 0
  BY <1>1 DEF SizeRestored, ApartInv, NoOverlap
<1>2. CASE growing # 0
  <2>1. growing \in Nums /\ oldsize <= slots[growing].size /\ oldsize \in Sectors
    <3>1. growing \in Nums /\ slots[growing].size >= oldsize /\ oldsize \in Sectors
      BY <1>2 DEF ApartInv, GrowthPending, TypeOK
    <3>2. slots[growing].size \in Nat /\ oldsize \in Nat
      BY <3>1, FreeTyped DEF ApartInv, TypeOK, Part
    <3> QED
      BY <3>1, <3>2
  <2> QED
    BY <1>2, <2>1, SmallerKeepsApart DEF SizeRestored, ApartInv, NoOverlap, TypeOK
<1> QED
  BY <1>1, <1>2

LEMMA CreateApart ==
  ASSUME ApartInv, NEW hole \in Holes, ~Tiny(hole), CreateIn(hole)
  PROVE  VerifyParts(slots')
<1> USE GptAssumption, FreeTyped
<1>1. PICK start \in Sectors, size \in Sectors,
           a \in Sectors, kind \in Kinds, n \in Nums :
        LET new == [start |-> a, size |-> start + size - a, kind |-> kind, use |-> "blank"]
        IN  /\ Accepted(hole, start, size) /\ RoundsUpTo(start, a)
            /\ slots' = [slots EXCEPT ![n] = new]
  <2>1. PICK start \in Sectors, size \in Sectors :
          /\ Accepted(hole, start, size)
          /\ \E a \in Sectors, kind \in Kinds, n \in Nums :
               LET new == [start |-> a, size |-> start + size - a,
                           kind |-> kind, use |-> "blank"]
               IN  RoundsUpTo(start, a) /\ slots' = [slots EXCEPT ![n] = new]
    BY DEF CreateIn
  <2>2. PICK a \in Sectors, kind \in Kinds, n \in Nums :
          LET new == [start |-> a, size |-> start + size - a,
                      kind |-> kind, use |-> "blank"]
          IN  RoundsUpTo(start, a) /\ slots' = [slots EXCEPT ![n] = new]
    BY <2>1
  <2> QED
    BY <2>1, <2>2
<1> DEFINE new == [start |-> a, size |-> start + size - a, kind |-> kind, use |-> "blank"]
<1>2. hole.end \in Int /\ hole.start \in Int
  <2>1. \A k \in Nums : slots[k].start \in Nat /\ slots[k].size \in Nat
    BY DEF ApartInv, TypeOK, Part
  <2>2. /\ hole.start \in {FirstUsable} \union {End(slots[k]) : k \in Used}
        /\ hole.end \in {LastUsable} \union Later(0)
    BY DEF Holes
  <2> QED
    BY <2>1, <2>2 DEF Later, Used, End
<1>3. hole.start <= start /\ size >= MinSize /\ start + size <= hole.end
  BY <1>1, <1>2 DEF Accepted, Tiny
<1>4. new \in Part /\ hole.start <= new.start /\ End(new) <= hole.end
  <2>1. start <= a /\ a <= start + size
    BY <1>1, <1>3 DEF RoundsUpTo
  <2>2. start + size - a \in Sectors
    BY <1>1, <2>1, <1>3 DEF RoundsUpTo, Sectors
  <2> QED
    BY <1>2, <1>3, <2>1, <2>2 DEF Part, End
<1>5. \A k \in Nums : ~Overlap(new, slots[k])
  BY <1>4, HoleIsFree DEF ApartInv
<1> QED
  BY <1>1, <1>4, <1>5, OneKeepsApart DEF ApartInv, NoOverlap, TypeOK

LEMMA EditSlotApart ==
  ASSUME ApartInv, NEW n \in Nums, EditSlot(n)
  PROVE  VerifyParts(slots') /\ GrowthPending'
<1>1. slots \in [Nums -> Part] /\ VerifyParts(slots)
  BY DEF ApartInv, TypeOK, NoOverlap
<1>2. phase = "edit" /\ growing = 0
  BY DEF EditSlot, Delete, Type, ResizeBlank, ShrinkFs, GrowFs, SizeOfFs, Mount,
         Unmount, Format, Editing, ApartInv, GrowthPending
<1>3. ASSUME UNCHANGED growVars PROVE GrowthPending'
  BY <1>2, <1>3 DEF GrowthPending, growVars
<1>4. CASE Delete(n)
  <2>1. slots' = [slots EXCEPT ![n] = FreePart]
    BY <1>4 DEF Delete
  <2>2. \A k \in Nums : ~Overlap(FreePart, slots[k])
    BY DEF Overlap, FreePart
  <2> QED
    BY <1>1, <1>3, <1>4, <2>1, <2>2, FreeTyped, OneKeepsApart DEF Delete
<1>5. CASE Type(n) \/ Mount(n) \/ Unmount(n) \/ Format(n)
  <2>1. \A k \in Nums : slots'[k].start = slots[k].start /\ slots'[k].size = slots[k].size
    <3>1. CASE Type(n)
      <4>1. PICK kind \in Kinds :
               slots' = [slots EXCEPT ![n].kind = kind, ![n].use = "blank"]
        BY <3>1 DEF Type
      <4>2. slots' = [slots EXCEPT ![n] = [slots[n] EXCEPT !.kind = kind, !.use = "blank"]]
        BY <1>1, <4>1
      <4> QED
        BY <1>1, <4>2 DEF Part
    <3>2. CASE Mount(n) \/ Unmount(n) \/ Format(n)
      <4>1. PICK use \in {"fs", "mounted"} : slots' = [slots EXCEPT ![n].use = use]
        BY <3>2 DEF Mount, Unmount, Format
      <4> QED
        BY <1>1, <4>1 DEF Part
    <3> QED
      BY <1>5, <3>1, <3>2
  <2>2. slots' \in [Nums -> Part]
    BY EditTyped DEF ApartInv, TypeOK
  <2>3. UNCHANGED growVars
    BY <1>5 DEF Type, Mount, Unmount, Format
  <2> QED
    BY <1>1, <1>3, <2>1, <2>2, <2>3, UseKeepsApart
<1>6. CASE ResizeBlank(n)
  <2>1. \/ VerifyParts(slots')
        \/ slots' = [slots EXCEPT ![n].use = "blank"]
    BY <1>6 DEF ResizeBlank
  <2>2. CASE slots' = [slots EXCEPT ![n].use = "blank"]
    <3>1. \A k \in Nums : slots'[k].start = slots[k].start /\ slots'[k].size = slots[k].size
      BY <1>1, <2>2
    <3>2. slots' \in [Nums -> Part]
      BY EditTyped DEF ApartInv, TypeOK
    <3> QED
      BY <1>1, <1>3, <1>6, <3>1, <3>2, UseKeepsApart DEF ResizeBlank
  <2> QED
    BY <1>3, <1>6, <2>1, <2>2 DEF ResizeBlank
<1>7. ASSUME NEW size \in Sectors, SizeOfFs(n, size)
      PROVE  VerifyParts(slots') /\ slots'[n].size = size
  <2>1. PICK next \in Sectors : NextStart(End(slots[n]), next) /\ slots[n].start + size <= next
    BY <1>7 DEF SizeOfFs
  <2>2. VerifyParts([slots EXCEPT ![n].size = size])
    BY <1>7, <2>1, GrowthIsFree DEF SizeOfFs, ApartInv
  <2> QED
    BY <1>1, <1>7, <2>2 DEF SizeOfFs
<1>8. CASE ShrinkFs(n)
  BY <1>3, <1>7, <1>8 DEF ShrinkFs
<1>9. CASE GrowFs(n)
  <2>1. PICK size \in Sectors : size > slots[n].size /\ SizeOfFs(n, size)
    BY <1>9 DEF GrowFs
  <2>2. VerifyParts(slots') /\ slots'[n].size = size
    BY <1>7, <2>1
  <2>3. CASE UNCHANGED growVars
    BY <1>3, <2>2, <2>3
  <2>4. CASE growing' = n /\ oldsize' = slots[n].size /\ StartReplay
    <3>1. slots[n].size \in Nat /\ size \in Nat
      BY <1>1, FreeTyped DEF Part
    <3> QED
      BY <2>1, <2>2, <2>4, <3>1 DEF GrowthPending, StartReplay
  <2> QED
    BY <1>9, <2>3, <2>4 DEF GrowFs
<1> QED
  BY <1>4, <1>5, <1>6, <1>8, <1>9 DEF EditSlot

LEMMA WriteApart ==
  ASSUME ApartInv, WriteStep
  PROVE  VerifyParts(slots') /\ GrowthPending'
<1>1. ASSUME UNCHANGED <<slots, growVars, phase>> PROVE VerifyParts(slots') /\ GrowthPending'
  BY <1>1 DEF ApartInv, NoOverlap, GrowthPending, growVars
<1>2. ASSUME SizeRestored PROVE VerifyParts(slots') /\ GrowthPending'
  BY <1>2, RestoredApart DEF GrowthPending
<1>3. ASSUME UNCHANGED <<slots, growVars>>, phase' \in {"tell", AfterWrite}
      PROVE  VerifyParts(slots') /\ GrowthPending'
  BY <1>3 DEF ApartInv, NoOverlap, GrowthPending, growVars, AfterWrite
<1>4. CASE ReplayAdd \/ ReplayDel \/ ReplayInit
  BY <1>1, <1>4 DEF ReplayAdd, ReplayDel, ReplayInit, WriteGoesOn, memVars
<1>5. CASE ReplayFails \/ CommitFails \/ FsResizeFails
  BY <1>2, <1>5 DEF ReplayFails, CommitFails, FsResizeFails
<1>6. CASE Commit
  BY <1>3, <1>6 DEF Commit
<1>7. CASE TellKernel
  BY <1>2, <1>3, <1>7 DEF TellKernel
<1>8. CASE FsResized
  BY <1>8 DEF FsResized, memVars, ApartInv, NoOverlap, GrowthPending
<1> QED
  BY <1>4, <1>5, <1>6, <1>7, <1>8 DEF WriteStep

(* Only a creation in a hole that is too small makes partitions overlap.   *)
LEMMA NextApartOrTiny ==
  ASSUME ApartInv, [Next]_vars
  PROVE  /\ GrowthPending'
         /\ NoOverlap' \/ \E hole \in Holes : Tiny(hole) /\ CreateIn(hole)
<1>1. CASE UNCHANGED vars
  BY <1>1 DEF vars, memVars, growVars, writeVars, ApartInv, NoOverlap, GrowthPending, VerifyParts
<1>2. CASE Create
  <2>1. PICK hole \in Holes : CreateIn(hole)
    BY <1>2 DEF Create
  <2>2. GrowthPending'
    BY <2>1 DEF CreateIn, ApartInv, GrowthPending, Editing, growVars
  <2> QED
    BY <2>1, <2>2, CreateApart DEF NoOverlap, VerifyParts
<1>3. CASE ClearAll
  <2>1. VerifyParts(slots')
    BY <1>3 DEF ClearAll, VerifyParts, Overlap, FreePart
  <2> QED
    BY <1>3, <2>1 DEF ClearAll, ApartInv, GrowthPending, Editing, growVars, NoOverlap, VerifyParts
<1>4. CASE StartWrite
  BY <1>4 DEF StartWrite, memVars, growVars, ApartInv, NoOverlap, VerifyParts, GrowthPending, Editing
<1>5. CASE WriteStep
  BY <1>5, WriteApart DEF NoOverlap, VerifyParts
<1>6. CASE \E n \in Nums : EditSlot(n)
  BY <1>6, EditSlotApart DEF NoOverlap, VerifyParts
<1> QED
  BY <1>1, <1>2, <1>3, <1>4, <1>5, <1>6 DEF Next

LEMMA NextApart == ApartInv /\ NoTinyHole /\ [Next]_vars => ApartInv'
BY NextTyped, NextApartOrTiny DEF ApartInv, NoTinyHole

(* Partitions that overlap are edited, and the table is dirty: no write    *)
(* begins with them, and what needs a written table is refused.            *)
WrittenInv == TypeOK /\ GrowthPending /\ (NoOverlap \/ (Editing /\ isDirty))

LEMMA OverlapStaysDirty ==
  ASSUME WrittenInv, ~NoOverlap, [Next]_vars
  PROVE  (Editing /\ isDirty)' /\ UNCHANGED growVars
<1>1. Editing /\ isDirty /\ phase = "edit" /\ isDirty \in BOOLEAN
  BY DEF WrittenInv, Editing, TypeOK
<1>2. CASE UNCHANGED vars
  BY <1>1, <1>2 DEF vars, memVars, writeVars, Editing
<1>3. CASE Create
  BY <1>1, <1>3 DEF Create, CreateIn, WillTell, writeVars, Editing
<1>4. CASE ClearAll
  BY <1>1, <1>4 DEF ClearAll, WillTell, writeVars, Editing
<1>5. CASE StartWrite
  BY <1>5 DEF StartWrite, NoOverlap
<1>6. CASE WriteStep
  BY <1>1, <1>6 DEF WriteStep, ReplayAdd, ReplayDel, ReplayInit, ReplayFails, CommitFails,
                    Commit, TellKernel, FsResized, FsResizeFails, Replaying, Replayed
<1>7. ASSUME NEW n \in Nums, EditSlot(n)
      PROVE  (Editing /\ isDirty)' /\ UNCHANGED growVars
  <2>1. CASE Delete(n)
    BY <1>1, <2>1 DEF Delete, WillTell, writeVars, Editing
  <2>2. CASE Type(n)
    BY <1>1, <2>2 DEF Type, writeVars, Editing
  <2>3. CASE ResizeBlank(n)
    BY <1>1, <2>3 DEF ResizeBlank, TellResize, WillTell, writeVars, Editing
  <2>4. CASE ShrinkFs(n) \/ GrowFs(n) \/ Mount(n) \/ Format(n)
    BY <1>1, <2>4 DEF ShrinkFs, GrowFs, SizeOfFs, Mount, Format, Written
  <2>5. CASE Unmount(n)
    BY <1>1, <2>5 DEF Unmount, writeVars, Editing
  <2> QED
    BY <1>7, <2>1, <2>2, <2>3, <2>4, <2>5 DEF EditSlot
<1> QED
  BY <1>2, <1>3, <1>4, <1>5, <1>6, <1>7 DEF Next

LEMMA NextWritten == WrittenInv /\ [Next]_vars => WrittenInv'
<1> SUFFICES ASSUME WrittenInv, [Next]_vars PROVE WrittenInv'
  OBVIOUS
<1>1. TypeOK'
  BY NextTyped DEF WrittenInv
<1>2. CASE NoOverlap
  <2>1. ApartInv
    BY <1>2 DEF WrittenInv, ApartInv
  <2>2. GrowthPending' /\ (NoOverlap' \/ \E hole \in Holes : CreateIn(hole))
    BY <2>1, NextApartOrTiny
  <2>3. ASSUME NEW hole \in Holes, CreateIn(hole) PROVE (Editing /\ isDirty)'
    BY <2>3 DEF CreateIn, WillTell, writeVars, Editing
  <2> QED
    BY <1>1, <2>2, <2>3 DEF WrittenInv
<1>3. CASE ~NoOverlap
  <2>1. growing = 0
    BY <1>3 DEF WrittenInv, GrowthPending, Editing
  <2> QED
    BY <1>1, <1>3, <2>1, OverlapStaysDirty DEF WrittenInv, GrowthPending, growVars
<1> QED
  BY <1>2, <1>3

LEMMA InitWritten == Init => WrittenInv
BY InitTyped, InitApart DEF WrittenInv

(* Only a creation in a hole smaller than the smallest partition, where    *)
(* from_Mb returns its min, makes partitions of the table overlap: no      *)
(* other creation, resize, or size put back by before_leaving does.        *)
THEOREM OnlyTinyHolesOverlapHolds == Spec => OnlyTinyHolesOverlap
<1>1. WrittenInv /\ [Next]_vars
        => [NoOverlap => NoOverlap' \/ \E hole \in Holes : Tiny(hole) /\ CreateIn(hole)]_vars
  BY NextApartOrTiny DEF WrittenInv, ApartInv
<1> QED
  BY <1>1, InitWritten, NextWritten, PTL DEF Spec, OnlyTinyHolesOverlap

(* A table that is not dirty has no partitions that overlap: verifyParts   *)
(* comes before each write, and what was written is changed by no          *)
(* operation that leaves it written, whatever fails.                       *)
THEOREM WrittenIsApartHolds == Spec => []WrittenIsApart
<1>1. WrittenInv => WrittenIsApart
  BY DEF WrittenInv, WrittenIsApart
<1> QED
  BY <1>1, InitWritten, NextWritten, PTL DEF Spec

(* The partitions in memory never overlap as long as no hole is offered    *)
(* that is smaller than the smallest partition: cylinder_size, the limit   *)
(* of get_normal_parts_and_holes, is below min_partition_size.             *)
THEOREM PartsStayApart == Spec /\ []NoTinyHole => []NoOverlap
<1>1. Init => ApartInv
  BY InitTyped, InitApart DEF ApartInv
<1>2. ApartInv => NoOverlap
  BY DEF ApartInv
<1> QED
  BY <1>1, <1>2, NextApart, PTL DEF Spec

-----------------------------------------------------------------------------
(* Mounted partitions. *)

InUse(n) == slots[n].use \in {"mounted", "magic"}

(* A partition in use is on the medium, no pending operation is about it,  *)
(* and what a write has replayed so far has not moved it.                  *)
SafeInUse(n) ==
  /\ disk[n].size > 0
  /\ phase = "replay" => ~killed /\ ExtentOf(ped[n]) = ExtentOf(disk[n])
  /\ \A i \in 1 .. Len(queue) : queue[i].op # "init" /\ queue[i].num # n

CleanIsEmpty == ~isDirty => queue = <<>>
OnGpt == \A n \in Nums : disk[n].size > 0 => label = "gpt"
AllSafe == \A n \in Nums : InUse(n) => SafeInUse(n)

MountedInv == TypeOK /\ KernelKnowsDisk /\ CleanIsEmpty /\ OnGpt /\ AllSafe

LEMMA OneAppended ==
  ASSUME NEW S, NEW q \in Seq(S), NEW e \in S, NEW i \in 1 .. Len(Append(q, e))
  PROVE  \/ Append(q, e)[i] = e
         \/ i \in 1 .. Len(q) /\ Append(q, e)[i] = q[i]
OBVIOUS

LEMMA TwoAppended ==
  ASSUME NEW S, NEW q \in Seq(S), NEW d \in S, NEW e \in S,
         NEW i \in 1 .. Len(q \o <<d, e>>)
  PROVE  \/ (q \o <<d, e>>)[i] \in {d, e}
         \/ i \in 1 .. Len(q) /\ (q \o <<d, e>>)[i] = q[i]
<1>1. PICK two \in Seq(S) : two = <<d, e>> /\ Len(two) = 2 /\ two[1] = d /\ two[2] = e
  <2>1. <<d, e>> \in Seq(S) /\ Len(<<d, e>>) = 2 /\ <<d, e>>[1] = d /\ <<d, e>>[2] = e
    OBVIOUS
  <2> QED
    BY <2>1, Zenon
<1>2. /\ Len(q \o two) = Len(q) + 2
      /\ \A k \in 1 .. Len(q) + 2 : (q \o two)[k] = IF k <= Len(q) THEN q[k] ELSE two[k - Len(q)]
  BY <1>1, ConcatProperties
<1>3. i \in 1 .. Len(q) + 2 /\ Len(q) \in Nat
  BY <1>1, <1>2
<1>4. CASE i <= Len(q)
  BY <1>1, <1>2, <1>3, <1>4
<1>5. CASE i > Len(q)
  <2>1. i - Len(q) \in {1, 2} /\ (q \o two)[i] = two[i - Len(q)]
    BY <1>2, <1>3, <1>5
  <2> QED
    BY <1>1, <2>1
<1> QED
  BY <1>3, <1>4, <1>5

LEMMA InitMounted == Init => MountedInv
<1> SUFFICES ASSUME Init PROVE MountedInv
  OBVIOUS
<1>1. TypeOK /\ KernelKnowsDisk
  BY InitTyped DEF Init, KernelKnowsDisk
<1>2. CleanIsEmpty /\ OnGpt
  BY DEF Init, CleanIsEmpty, OnGpt, FreeStored
<1>3. ASSUME NEW n \in Nums, InUse(n) PROVE SafeInUse(n)
  <2>1. disk[n].size > 0 /\ disk[n].size # 0
    <3>1. PICK use \in [Nums -> Uses] : slots = FoundAs(disk, use)
      BY DEF Init
    <3>2. disk[n].size \in Nat
      BY <1>1, FreeTyped DEF TypeOK, Table, Stored
    <3>3. disk[n].size # 0
      BY <1>3, <3>1 DEF FoundAs, FreePart, InUse
    <3> QED
      BY <3>2, <3>3
  <2>2. label = "gpt" /\ queue = <<>>
    BY <1>2, <2>1 DEF OnGpt, Init
  <2> QED
    BY <2>1, <2>2 DEF SafeInUse, Init
<1> QED
  BY <1>1, <1>2, <1>3 DEF MountedInv, AllSafe

(* Steps that neither replay nor queue anything keep the partitions in use *)
(* safe, if they put none in use.                                          *)
LEMMA QuietKeepsSafe ==
  ASSUME AllSafe, \A n \in Nums : InUse(n)' => InUse(n),
         disk' = disk, queue' \in {queue, <<>>}, phase' # "replay"
  PROVE  AllSafe'
BY DEF AllSafe, SafeInUse, InUse

LEMMA RestoredUse ==
  ASSUME TypeOK, SizeRestored
  PROVE  \A n \in Nums : slots'[n].use = slots[n].use
<1>1. slots' = slots \/ slots' = [slots EXCEPT ![growing] = [slots[growing] EXCEPT !.size = oldsize]]
  BY DEF SizeRestored, TypeOK
<1> QED
  BY <1>1 DEF TypeOK, Part

LEMMA StartReplaySafe ==
  ASSUME OnGpt, \A n \in Nums : InUse(n)' => /\ disk'[n].size > 0
                                             /\ \A i \in 1 .. Len(queue') :
                                                  queue'[i].op # "init" /\ queue'[i].num # n,
         UNCHANGED diskVars, StartReplay
  PROVE  AllSafe'
BY DEF OnGpt, AllSafe, SafeInUse, StartReplay, diskVars

(* What the user does.                                                     *)
LEMMA EditSafe ==
  ASSUME MountedInv, Create \/ ClearAll \/ StartWrite \/ \E n \in Nums : EditSlot(n)
  PROVE  CleanIsEmpty' /\ OnGpt' /\ AllSafe'
<1>0. queue \in Seq(Entry) /\ slots \in [Nums -> Part] /\ AllSafe /\ OnGpt /\ CleanIsEmpty
  BY DEF MountedInv, TypeOK
<1>1. ASSUME UNCHANGED diskVars PROVE OnGpt'
  BY <1>0, <1>1 DEF OnGpt, diskVars
<1>2. ASSUME NEW n \in Nums, NEW e \in Entry, e.op # "init", e.num = n,
             NEW p, p.use = "blank", slots' = [slots EXCEPT ![n] = p],
             WillTell(Append(queue, e)), UNCHANGED <<diskVars, writeVars>>, phase = "edit"
      PROVE  CleanIsEmpty' /\ OnGpt' /\ AllSafe'
  <2>1. ASSUME NEW k \in Nums, InUse(k)' PROVE k # n /\ InUse(k)
    BY <1>0, <1>2, <2>1 DEF InUse
  <2>2. ASSUME NEW k \in Nums, InUse(k)', NEW i \in 1 .. Len(queue')
        PROVE  queue'[i].op # "init" /\ queue'[i].num # k
    <3>1. queue' = Append(queue, e)
      BY <1>2 DEF WillTell
    <3>2. \/ queue'[i] = e
          \/ i \in 1 .. Len(queue) /\ queue'[i] = queue[i]
      BY <1>0, <3>1, OneAppended
    <3> QED
      BY <1>0, <1>2, <2>1, <2>2, <3>2 DEF AllSafe, SafeInUse
  <2>3. AllSafe'
    BY <1>0, <1>2, <2>1, <2>2 DEF AllSafe, SafeInUse, diskVars, writeVars
  <2> QED
    BY <1>1, <1>2, <2>3 DEF WillTell, CleanIsEmpty
<1>3. CASE Create
  <2>1. PICK hole \in Holes, start \in Sectors, size \in Sectors :
           \E a \in Sectors, kind \in Kinds, n \in Nums :
             LET new == [start |-> a, size |-> start + size - a,
                         kind |-> kind, use |-> "blank"]
             IN  /\ slots' = [slots EXCEPT ![n] = new]
                 /\ WillTell(Append(queue, Op("add", n, ExtentOf(new))))
    BY <1>3 DEF Create, CreateIn
  <2>2. PICK a \in Sectors, kind \in Kinds, n \in Nums :
             LET new == [start |-> a, size |-> start + size - a,
                         kind |-> kind, use |-> "blank"]
             IN  /\ slots' = [slots EXCEPT ![n] = new]
                 /\ WillTell(Append(queue, Op("add", n, ExtentOf(new))))
    BY <2>1
  <2> DEFINE new == [start |-> a, size |-> start + size - a, kind |-> kind, use |-> "blank"]
             e == Op("add", n, ExtentOf(new))
  <2>3. queue' \in Seq(Entry) /\ slots'[n] \in Part
    BY <1>3, EditTyped DEF MountedInv, TypeOK
  <2>4. slots'[n] = new
    BY <1>0, <2>2
  <2>5. e \in Entry
    BY <2>3, <2>4, ExtentTyped, OpTyped
  <2>6. e.op # "init" /\ e.num = n
    BY DEF Op
  <2>7. new.use = "blank"
    OBVIOUS
  <2>8. slots' = [slots EXCEPT ![n] = new] /\ WillTell(Append(queue, e))
    BY <2>2
  <2>9. UNCHANGED <<diskVars, writeVars>> /\ phase = "edit"
    BY <1>3 DEF Create, CreateIn, Editing
  <2> HIDE DEF new, e
  <2> QED
    BY <1>2, <2>5, <2>6, <2>7, <2>8, <2>9
<1>4. CASE ClearAll
  BY <1>1, <1>4 DEF ClearAll, WillTell, CleanIsEmpty, AllSafe, InUse, FreePart
<1>5. CASE StartWrite
  <2>1. UNCHANGED <<memVars, diskVars>> /\ StartReplay
    BY <1>5 DEF StartWrite
  <2>2. AllSafe'
    BY <1>0, <2>1, StartReplaySafe DEF AllSafe, SafeInUse, InUse, memVars, diskVars
  <2> QED
    BY <1>0, <1>1, <2>1, <2>2 DEF CleanIsEmpty, memVars
<1>6. ASSUME NEW n \in Nums, EditSlot(n) PROVE CleanIsEmpty' /\ OnGpt' /\ AllSafe'
  <2>1. CASE Delete(n)
    <3> DEFINE e == Op("del", n, FreeExtent)
    <3>1. e \in Entry /\ e.op # "init" /\ e.num = n /\ FreePart.use = "blank"
      BY OpTyped DEF Op, FreePart
    <3>2. /\ slots' = [slots EXCEPT ![n] = FreePart] /\ WillTell(Append(queue, e))
          /\ UNCHANGED <<diskVars, writeVars>> /\ phase = "edit"
      BY <2>1 DEF Delete, Editing
    <3> HIDE DEF e
    <3> QED
      BY <1>2, <3>1, <3>2
  <2>2. ASSUME NEW new \in Part, TellResize(n, new),
               \A k \in Nums : InUse(k)' => k # n /\ InUse(k),
               UNCHANGED diskVars, phase = "edit"
        PROVE  /\ CleanIsEmpty' /\ OnGpt'
               /\ \A k \in Nums : InUse(k)' =>
                    /\ disk'[k].size > 0
                    /\ \A i \in 1 .. Len(queue') : queue'[i].op # "init" /\ queue'[i].num # k
    <3> DEFINE d == Op("del", n, FreeExtent)
               e == Op("add", n, ExtentOf(new))
    <3>1. /\ d \in Entry /\ d.op # "init" /\ d.num = n
          /\ e \in Entry /\ e.op # "init" /\ e.num = n
      BY OpTyped, ExtentTyped DEF Op
    <3>2. queue' = queue \o <<d, e>> /\ isDirty' = TRUE
      BY <2>2 DEF TellResize, WillTell
    <3> HIDE DEF d, e
    <3>3. ASSUME NEW k \in Nums, InUse(k)', NEW i \in 1 .. Len(queue')
          PROVE  queue'[i].op # "init" /\ queue'[i].num # k
      <4>1. \/ queue'[i] \in {d, e}
            \/ i \in 1 .. Len(queue) /\ queue'[i] = queue[i]
        BY <1>0, <3>1, <3>2, TwoAppended
      <4> QED
        BY <1>0, <2>2, <3>1, <3>3, <4>1 DEF AllSafe, SafeInUse
    <3> QED
      BY <1>0, <1>1, <2>2, <3>2, <3>3 DEF CleanIsEmpty, AllSafe, SafeInUse, diskVars
  <2>3. ASSUME NEW size \in Sectors, NEW use \in {slots[n].use, "blank"}
        PROVE  [slots[n] EXCEPT !.size = size, !.use = use] \in Part
    BY <1>0 DEF Part
  <2>4. CASE ResizeBlank(n)
    <3>1. PICK size \in Sectors :
             LET new == [slots[n] EXCEPT !.size = size, !.use = "blank"]
                 resized == [slots EXCEPT ![n] = new]
             IN  /\ slots' = IF VerifyParts(resized) THEN resized
                             ELSE [slots EXCEPT ![n].use = "blank"]
                 /\ TellResize(n, new)
      BY <2>4 DEF ResizeBlank
    <3>2. PICK new \in Part :
            new = [slots[n] EXCEPT !.size = size, !.use = "blank"] /\ new.use = "blank"
      BY <1>0, <2>3 DEF Part
    <3>3. PICK p \in {new, [slots[n] EXCEPT !.use = "blank"]} : slots' = [slots EXCEPT ![n] = p]
      BY <1>0, <3>1, <3>2
    <3>4. p.use = "blank"
      BY <1>0, <3>2, <3>3 DEF Part
    <3>5. \A k \in Nums : InUse(k)' => k # n /\ InUse(k)
      BY <1>0, <3>3, <3>4 DEF InUse
    <3>6. UNCHANGED diskVars /\ UNCHANGED writeVars /\ phase = "edit"
      BY <2>4 DEF ResizeBlank, Editing
    <3>7. TellResize(n, new)
      BY <3>1, <3>2
    <3> QED
      BY <2>2, <3>2, <3>5, <3>6, <3>7 DEF AllSafe, SafeInUse, writeVars
  <2>5. ASSUME NEW size \in Sectors, SizeOfFs(n, size), UNCHANGED diskVars
        PROVE  /\ CleanIsEmpty' /\ OnGpt'
               /\ \A k \in Nums : InUse(k)' =>
                    /\ disk'[k].size > 0
                    /\ \A i \in 1 .. Len(queue') : queue'[i].op # "init" /\ queue'[i].num # k
    <3>1. PICK new \in Part : new = [slots[n] EXCEPT !.size = size] /\ new.use = "fs"
      BY <1>0, <2>5 DEF Part, SizeOfFs
    <3>2. slots' = [slots EXCEPT ![n] = new]
      BY <1>0, <2>5, <3>1 DEF SizeOfFs
    <3>3. phase = "edit" /\ \A k \in Nums : InUse(k)' => k # n /\ InUse(k)
      BY <1>0, <2>5, <3>1, <3>2 DEF SizeOfFs, InUse, Editing
    <3>4. TellResize(n, new)
      BY <2>5, <3>1 DEF SizeOfFs
    <3> QED
      BY <2>2, <2>5, <3>3, <3>4
  <2>6. CASE ShrinkFs(n)
    <3>1. PICK size \in Sectors : SizeOfFs(n, size)
      BY <2>6 DEF ShrinkFs
    <3> QED
      BY <2>5, <2>6, <3>1 DEF ShrinkFs, SizeOfFs, Editing, AllSafe, SafeInUse, writeVars
  <2>7. CASE GrowFs(n)
    <3>1. PICK size \in Sectors : SizeOfFs(n, size)
      BY <2>7 DEF GrowFs
    <3>2. UNCHANGED diskVars /\ (StartReplay \/ UNCHANGED writeVars) /\ phase = "edit"
      BY <2>7 DEF GrowFs, SizeOfFs, Editing
    <3>3. CASE StartReplay
      BY <1>0, <2>5, <3>1, <3>2, <3>3, StartReplaySafe
    <3>4. CASE UNCHANGED writeVars
      BY <2>5, <3>1, <3>2, <3>4 DEF AllSafe, SafeInUse, writeVars
    <3> QED
      BY <3>2, <3>3, <3>4
  <2>8. CASE Type(n)
    <3>1. PICK kind \in Kinds :
             slots' = [slots EXCEPT ![n].kind = kind, ![n].use = "blank"]
      BY <2>8 DEF Type
    <3>2. slots' = [slots EXCEPT ![n] = [slots[n] EXCEPT !.kind = kind, !.use = "blank"]]
      BY <1>0, <3>1
    <3>3. \A k \in Nums : InUse(k)' => InUse(k)
      BY <1>0, <3>2 DEF InUse, Part
    <3>4. UNCHANGED <<queue, diskVars, writeVars>> /\ phase = "edit" /\ isDirty' = TRUE
      BY <2>8 DEF Type, Editing
    <3> QED
      BY <1>0, <1>1, <3>3, <3>4, QuietKeepsSafe DEF CleanIsEmpty, diskVars, writeVars
  <2>9. CASE Unmount(n) \/ Format(n)
    <3>1. slots' = [slots EXCEPT ![n].use = "fs"]
      BY <2>9 DEF Unmount, Format
    <3>2. \A k \in Nums : InUse(k)' => InUse(k)
      BY <1>0, <3>1 DEF InUse, Part
    <3>3. UNCHANGED <<queue, isDirty, diskVars, writeVars>> /\ phase = "edit"
      BY <2>9 DEF Unmount, Format, Editing
    <3> QED
      BY <1>0, <1>1, <3>2, <3>3, QuietKeepsSafe DEF CleanIsEmpty, diskVars, writeVars
  <2>10. CASE Mount(n)
    <3>1. /\ queue = <<>> /\ UNCHANGED <<queue, isDirty, diskVars, writeVars>> /\ phase = "edit"
          /\ slots' = [slots EXCEPT ![n].use = "mounted"]
      BY <1>0, <2>10 DEF Mount, Editing, Written, CleanIsEmpty
    <3>2. disk[n].size > 0
      <4>1. kernel = LayoutOf(disk) /\ kernel[n].size > 0
        BY <2>10 DEF Mount, Written, MountedInv, KernelKnowsDisk
      <4> QED
        BY <4>1 DEF LayoutOf, ExtentOf
    <3>3. ASSUME NEW k \in Nums, InUse(k)' PROVE SafeInUse(k)'
      <4>1. disk[k].size > 0
        BY <1>0, <3>1, <3>2, <3>3 DEF InUse, AllSafe, SafeInUse, Part
      <4> QED
        BY <3>1, <4>1 DEF SafeInUse, diskVars, writeVars
    <3> QED
      BY <1>0, <1>1, <3>1, <3>3 DEF AllSafe, CleanIsEmpty
  <2> QED
    BY <1>6, <2>1, <2>4, <2>6, <2>7, <2>8, <2>9, <2>10 DEF EditSlot
<1> QED
  BY <1>3, <1>4, <1>5, <1>6

(* The steps of a write.                                                   *)
LEMMA WriteSafe ==
  ASSUME MountedInv, WriteStep
  PROVE  /\ CleanIsEmpty' /\ OnGpt' /\ AllSafe'
         /\ \A n \in Nums : InUse(n) => ExtentOf(disk'[n]) = ExtentOf(disk[n])
<1>0. /\ queue \in Seq(Entry) /\ ped \in Table /\ disk \in Table
      /\ AllSafe /\ OnGpt /\ CleanIsEmpty
  BY DEF MountedInv, TypeOK
<1>1. ASSUME WriteGoesOn, phase = "replay",
             \A n \in Nums : InUse(n) => ExtentOf(ped'[n]) = ExtentOf(ped[n])
      PROVE  /\ CleanIsEmpty' /\ OnGpt' /\ AllSafe'
             /\ \A n \in Nums : InUse(n) => ExtentOf(disk'[n]) = ExtentOf(disk[n])
  BY <1>0, <1>1 DEF WriteGoesOn, memVars, diskVars, CleanIsEmpty, OnGpt, AllSafe, SafeInUse, InUse
<1>2. ASSUME \A n \in Nums : slots'[n].use = slots[n].use,
             UNCHANGED <<queue, isDirty, diskVars>>, phase' # "replay"
      PROVE  /\ CleanIsEmpty' /\ OnGpt' /\ AllSafe'
             /\ \A n \in Nums : InUse(n) => ExtentOf(disk'[n]) = ExtentOf(disk[n])
  BY <1>0, <1>2 DEF diskVars, CleanIsEmpty, OnGpt, AllSafe, SafeInUse, InUse
<1>3. ASSUME Replaying, NEW n \in Nums, InUse(n)
      PROVE  /\ ~killed /\ ped[n].size > 0 /\ ExtentOf(ped[n]) = ExtentOf(disk[n])
             /\ Current.op # "init" /\ Current.num # n
  <2>1. pos \in 1 .. Len(queue)
    BY <1>0, <1>3 DEF Replaying, MountedInv, TypeOK
  <2>2. SafeInUse(n) /\ phase = "replay"
    BY <1>0, <1>3 DEF AllSafe, Replaying
  <2> QED
    BY <2>1, <2>2 DEF SafeInUse, Current, ExtentOf
<1>4. CASE ReplayAdd
  <2>1. PICK m \in Nums, e \in Extent :
          LET added == Added(ped, m, e)
              kind  == KindFor(Current.ext)
          IN  /\ IsLowestFree(ped, m)
              /\ \/ ped' = added
                 \/ ped' = Flagged(added, Current.num, kind)
    BY <1>4 DEF ReplayAdd
  <2> DEFINE added == Added(ped, m, e)
  <2>2. ASSUME NEW n \in Nums, InUse(n) PROVE ExtentOf(ped'[n]) = ExtentOf(ped[n])
    <3>1. n # m
      BY <1>3, <1>4, <2>1, <2>2 DEF ReplayAdd, IsLowestFree
    <3>2. added[n] = ped[n] /\ added \in [Nums -> Stored] /\ n \in Nums
      BY <1>0, <3>1, GptAssumption DEF Added, Table, Stored, Extent
    <3>3. \A k, kind : ExtentOf(Flagged(added, k, kind)[n]) = ExtentOf(added[n])
      BY <3>2 DEF Flagged, ExtentOf, Stored
    <3> QED
      BY <2>1, <3>2, <3>3
  <2> QED
    BY <1>1, <1>4, <2>2 DEF ReplayAdd, Replaying
<1>5. CASE ReplayDel
  <2>1. ASSUME NEW n \in Nums, InUse(n) PROVE ExtentOf(ped'[n]) = ExtentOf(ped[n])
    BY <1>0, <1>3, <1>5, <2>1 DEF ReplayDel, Table
  <2> QED
    BY <1>1, <1>5, <2>1 DEF ReplayDel, Replaying
<1>6. CASE ReplayInit
  <2>1. \A n \in Nums : ~InUse(n)
    BY <1>3, <1>6 DEF ReplayInit
  <2> QED
    BY <1>1, <1>6, <2>1 DEF ReplayInit, Replaying
<1>7. CASE ReplayFails \/ CommitFails \/ FsResizeFails
  <2>1. SizeRestored /\ phase' = "edit" /\ UNCHANGED <<queue, isDirty, diskVars>>
    BY <1>7 DEF ReplayFails, CommitFails, FsResizeFails
  <2> QED
    BY <1>2, <2>1, RestoredUse DEF MountedInv
<1>8. CASE TellKernel
  <2>1. (UNCHANGED slots) \/ SizeRestored
    BY <1>8 DEF TellKernel
  <2>2. phase' # "replay" /\ UNCHANGED <<queue, isDirty, diskVars>>
    BY <1>8 DEF TellKernel, AfterWrite
  <2> QED
    BY <1>2, <2>1, <2>2, RestoredUse DEF MountedInv
<1>9. CASE FsResized
  BY <1>2, <1>9 DEF FsResized, memVars
<1>10. CASE Commit
  <2>1. /\ disk' = ped /\ label' = "gpt" /\ queue' = <<>> /\ slots' = slots
        /\ phase' # "replay" /\ phase = "replay"
    BY <1>10 DEF Commit, AfterWrite, Replayed
  <2>2. ASSUME NEW n \in Nums, InUse(n)
        PROVE  disk'[n].size > 0 /\ ExtentOf(disk'[n]) = ExtentOf(disk[n])
    BY <1>0, <2>1, <2>2 DEF AllSafe, SafeInUse, ExtentOf
  <2> QED
    BY <2>1, <2>2 DEF CleanIsEmpty, OnGpt, AllSafe, SafeInUse, InUse
<1> QED
  BY <1>4, <1>5, <1>6, <1>7, <1>8, <1>9, <1>10 DEF WriteStep

LEMMA NextMounted ==
  MountedInv /\ [Next]_vars =>
    MountedInv' /\ \A n \in Nums : InUse(n) => ExtentOf(disk'[n]) = ExtentOf(disk[n])
<1> SUFFICES ASSUME MountedInv, [Next]_vars
             PROVE  /\ CleanIsEmpty' /\ OnGpt' /\ AllSafe'
                    /\ \A n \in Nums : InUse(n) => ExtentOf(disk'[n]) = ExtentOf(disk[n])
  BY NextTyped, KernelStep DEF MountedInv
<1>1. CASE UNCHANGED vars
  BY <1>1 DEF vars, memVars, diskVars, writeVars, MountedInv, CleanIsEmpty, OnGpt,
              AllSafe, SafeInUse, InUse
<1>2. CASE Create \/ ClearAll \/ StartWrite \/ \E n \in Nums : EditSlot(n)
  <2>1. UNCHANGED disk
    BY <1>2 DEF Create, CreateIn, ClearAll, StartWrite, EditSlot, Delete, Type, ResizeBlank,
         ShrinkFs, GrowFs, Mount, Unmount, Format, diskVars
  <2> QED
    BY <1>2, <2>1, EditSafe
<1>3. CASE WriteStep
  BY <1>3, WriteSafe
<1> QED
  BY <1>1, <1>2, <1>3 DEF Next

(* No write moves, resizes or deletes on the medium a partition that the   *)
(* memory table says is mounted.                                           *)
THEOREM MountedStays == Spec => MountedKept
<1>1. MountedInv /\ [Next]_vars =>
        [\A n \in Nums : slots[n].use \in {"mounted", "magic"} =>
           ExtentOf(disk'[n]) = ExtentOf(disk[n])]_vars
  BY NextMounted DEF InUse
<1> QED
  BY <1>1, InitMounted, NextMounted, PTL DEF Spec, MountedKept

-----------------------------------------------------------------------------
(***************************************************************************)
(* A disk that is used in order implements SavedTable: the queue, replayed *)
(* with libparted's numbers, takes the medium to exactly the table in      *)
(* memory.                                                                 *)
(***************************************************************************)

Layout == [Nums -> Extent]

FreeLayout == [n \in Nums |-> FreeExtent]

(* Replaying the entry e on a medium of layout b gives the layout a: an    *)
(* add gets the number it was queued with because it is the lowest free.   *)
Replays(b, e, a) ==
  \/ /\ e.op = "add" /\ e.num \in Nums
     /\ IsLowestFree(b, e.num) /\ Fits(b, e.ext)
     /\ a = [b EXCEPT ![e.num] = e.ext]
  \/ /\ e.op = "del" /\ e.num \in Nums
     /\ b[e.num].size > 0
     /\ a = [b EXCEPT ![e.num] = FreeExtent]
  \/ e.op = "init" /\ a = FreeLayout

(* The layouts the medium goes through from what it holds to the table in  *)
(* memory, one entry of the queue after the other.                         *)
Course(v) ==
  /\ v \in [1 .. Len(queue) + 1 -> Layout]
  /\ v[1] = LayoutOf(disk) /\ v[Len(queue) + 1] = LayoutOf(slots)
  /\ \A i \in 1 .. Len(queue) : Replays(v[i], queue[i], v[i + 1])
  /\ phase = "replay" => v[pos] = LayoutOf(ped)

(* Used entries lie in the usable sectors. *)
Usable ==
  \A n \in Nums : slots[n].size > 0 =>
    FirstUsable <= slots[n].start /\ End(slots[n]) <= LastUsable

(* A write works on a table made anew when the medium holds no GPT, and is *)
(* only begun for a table that is dirty.                                   *)
Writing ==
  phase = "replay" => killed = (label # "gpt") /\ isDirty /\ pos <= Len(queue) + 1

(* A medium without a GPT has no partitions.                               *)
BlankMedium == label # "gpt" => LayoutOf(disk) = FreeLayout

(* What the replay on a table made anew passes over is not in the queue: a *)
(* del, or an init after partitions were added.                            *)
Plain ==
  \A i \in 1 .. Len(queue) :
    (queue[i].op = "init" => i = 1) /\ (queue[i].op = "del" => label = "gpt")

SaveInv ==
  ApartInv /\ CleanIsEmpty /\ Usable /\ Writing /\ BlankMedium /\ Plain /\ \E v : Course(v)

-----------------------------------------------------------------------------
(* Layouts. *)

LEMMA LayoutFacts ==
  ASSUME NEW t, NEW e
  PROVE  /\ \A n \in Nums : LayoutOf(t)[n].size = t[n].size
         /\ \A n \in Nums : LayoutOf(t)[n] = ExtentOf(t[n])
         /\ \A n \in Nums : IsLowestFree(LayoutOf(t), n) <=> IsLowestFree(t, n)
         /\ Fits(LayoutOf(t), e) <=> Fits(t, e)
BY DEF LayoutOf, ExtentOf, IsLowestFree, Fits, Overlap, End

(* There is at most one lowest free number.                                *)
LEMMA OneLowestFree ==
  ASSUME NEW t, NEW m \in Nums, NEW n \in Nums, IsLowestFree(t, m), IsLowestFree(t, n)
  PROVE  m = n
BY FreeTyped DEF IsLowestFree, Nums

LEMMA FreeIsFree ==
  /\ ExtentOf(FreePart) = FreeExtent /\ ExtentOf(FreeStored) = FreeExtent
  /\ LayoutOf([n \in Nums |-> FreePart]) = FreeLayout
  /\ LayoutOf([n \in Nums |-> FreeStored]) = FreeLayout
BY DEF ExtentOf, FreePart, FreeStored, FreeExtent, LayoutOf, FreeLayout

(* The course gets one layout longer when one entry is queued.             *)
LEMMA CourseAppended ==
  ASSUME TypeOK, NEW v, Course(v), NEW e \in Entry, queue' = Append(queue, e),
         disk' = disk, phase' = "edit", LayoutOf(slots') \in Layout,
         Replays(LayoutOf(slots), e, LayoutOf(slots')), Plain,
         e.op # "init", e.op = "del" => label = "gpt", label' = label
  PROVE  (\E w : Course(w))' /\ Plain'
<1>1. queue \in Seq(Entry) /\ Len(queue) \in Nat
  BY DEF TypeOK
<1> HIDE DEF Entry
<1>2. /\ Len(queue') = Len(queue) + 1 /\ queue'[Len(queue) + 1] = e
      /\ \A i \in 1 .. Len(queue) : queue'[i] = queue[i]
  BY <1>1
<1> DEFINE w == [i \in 1 .. Len(queue) + 2 |-> IF i <= Len(queue) + 1 THEN v[i] ELSE LayoutOf(slots')]
<1>3. w \in [1 .. Len(queue') + 1 -> Layout]
  BY <1>1, <1>2 DEF Course
<1>4. w[1] = LayoutOf(disk') /\ w[Len(queue') + 1] = LayoutOf(slots')
  BY <1>1, <1>2 DEF Course
<1>5. ASSUME NEW i \in 1 .. Len(queue') PROVE Replays(w[i], queue'[i], w[i + 1])
  <2>1. CASE i <= Len(queue)
    BY <1>1, <1>2, <2>1 DEF Course
  <2>2. CASE i = Len(queue) + 1
    BY <1>1, <1>2, <2>2 DEF Course
  <2> QED
    BY <1>1, <1>2, <2>1, <2>2
<1> HIDE DEF w
<1>6. PICK u : u = w
  OBVIOUS
<1>7. Course(u)'
  BY <1>3, <1>4, <1>5, <1>6 DEF Course
<1>8. Plain'
  <2> SUFFICES ASSUME NEW i \in 1 .. Len(queue')
               PROVE  /\ queue'[i].op = "init" => i = 1
                      /\ queue'[i].op = "del" => label' = "gpt"
    BY DEF Plain
  <2>1. CASE i \in 1 .. Len(queue)
    BY <1>2, <2>1 DEF Plain
  <2>2. CASE i = Len(queue) + 1
    BY <1>2, <2>2
  <2> QED
    BY <1>1, <1>2, <2>1, <2>2
<1> QED
  BY <1>7, <1>8

(* It gets two layouts longer when a resize is queued, its del and its add. *)
LEMMA CourseResized ==
  ASSUME TypeOK, NEW v, Course(v), NEW d \in Entry, NEW e \in Entry,
         queue' = queue \o <<d, e>>, disk' = disk,
         phase' = "replay" => ped' = disk /\ pos' = 1,
         NEW mid \in Layout, LayoutOf(slots') \in Layout,
         Replays(LayoutOf(slots), d, mid), Replays(mid, e, LayoutOf(slots')), Plain,
         d.op = "del", e.op = "add", label' = "gpt", label = "gpt"
  PROVE  (\E w : Course(w))' /\ Plain'
<1>1. queue \in Seq(Entry) /\ Len(queue) \in Nat
  BY DEF TypeOK
<1> HIDE DEF Entry
<1>2. /\ Len(queue') = Len(queue) + 2
      /\ queue'[Len(queue) + 1] = d /\ queue'[Len(queue) + 2] = e
      /\ \A i \in 1 .. Len(queue) : queue'[i] = queue[i]
  <2>1. PICK two \in Seq(Entry) : two = <<d, e>> /\ Len(two) = 2 /\ two[1] = d /\ two[2] = e
    <3>1. <<d, e>> \in Seq(Entry) /\ Len(<<d, e>>) = 2 /\ <<d, e>>[1] = d /\ <<d, e>>[2] = e
      OBVIOUS
    <3> QED
      BY <3>1, Zenon
  <2>2. /\ Len(queue \o two) = Len(queue) + 2
        /\ \A k \in 1 .. Len(queue) + 2 :
             (queue \o two)[k] = IF k <= Len(queue) THEN queue[k] ELSE two[k - Len(queue)]
    BY <1>1, <2>1, ConcatProperties
  <2>3. queue' = queue \o two
    BY <2>1
  <2> QED
    BY <1>1, <2>1, <2>2, <2>3
<1> DEFINE w == [i \in 1 .. Len(queue) + 3 |->
                   IF i <= Len(queue) + 1 THEN v[i]
                   ELSE IF i = Len(queue) + 2 THEN mid ELSE LayoutOf(slots')]
<1>3. w \in [1 .. Len(queue') + 1 -> Layout]
  BY <1>1, <1>2 DEF Course
<1>4. w[1] = LayoutOf(disk') /\ w[Len(queue') + 1] = LayoutOf(slots')
  BY <1>1, <1>2 DEF Course
<1>5. ASSUME NEW i \in 1 .. Len(queue') PROVE Replays(w[i], queue'[i], w[i + 1])
  <2>1. CASE i <= Len(queue)
    BY <1>1, <1>2, <2>1 DEF Course
  <2>2. CASE i = Len(queue) + 1
    <3>1. w[i] = LayoutOf(slots) /\ w[i + 1] = mid
      BY <1>1, <2>2 DEF Course
    <3> QED
      BY <1>2, <2>2, <3>1
  <2>3. CASE i = Len(queue) + 2
    <3>1. w[i] = mid /\ w[i + 1] = LayoutOf(slots')
      BY <1>1, <2>3
    <3> QED
      BY <1>2, <2>3, <3>1
  <2> QED
    BY <1>1, <1>2, <2>1, <2>2, <2>3
<1> HIDE DEF w
<1>6. PICK u : u = w
  OBVIOUS
<1>7. Course(u)'
  BY <1>3, <1>4, <1>5, <1>6 DEF Course
<1>8. Plain'
  <2> SUFFICES ASSUME NEW i \in 1 .. Len(queue')
               PROVE  queue'[i].op = "init" => i = 1
    BY DEF Plain
  <2>1. CASE i \in 1 .. Len(queue)
    BY <1>2, <2>1 DEF Plain
  <2>2. CASE i = Len(queue) + 1 \/ i = Len(queue) + 2
    BY <1>2, <2>2
  <2> QED
    BY <1>1, <1>2, <2>1, <2>2
<1> QED
  BY <1>7, <1>8

(* With nothing pending the course is a single layout.                     *)
LEMMA EmptyCourse ==
  ASSUME queue = <<>>, LayoutOf(disk) = LayoutOf(slots), LayoutOf(disk) \in Layout,
         phase # "replay"
  PROVE  \E v : Course(v)
<1> DEFINE v == [i \in 1 .. 1 |-> LayoutOf(disk)]
<1>1. Len(queue) = 0
  OBVIOUS
<1>2. v \in [1 .. Len(queue) + 1 -> Layout] /\ v[1] = LayoutOf(disk)
  BY <1>1
<1> HIDE DEF v
<1>3. Course(v)
  BY <1>1, <1>2 DEF Course
<1> QED
  BY <1>3

-----------------------------------------------------------------------------
(* The invariant. *)

LEMMA InitSaved == Init => SaveInv
<1> SUFFICES ASSUME Init PROVE SaveInv
  OBVIOUS
<1>1. ApartInv
  BY InitTyped, InitApart DEF ApartInv
<1>2. phase = "edit" /\ label \in Labels /\ label \in {"gpt", "none"}
  BY GptAssumption DEF Init
<1>3. PICK use \in [Nums -> Uses] : slots = FoundAs(disk, use)
  BY DEF Init
<1>4. CASE label = "gpt"
  <2>1. disk \in Layouts /\ queue = <<>>
    BY <1>4 DEF Init
  <2>2. ASSUME NEW n \in Nums
        PROVE  /\ ExtentOf(slots[n]) = ExtentOf(disk[n])
               /\ slots[n].size > 0 =>
                    FirstUsable <= slots[n].start /\ End(slots[n]) <= LastUsable
    <3>1. \/ disk[n] = FreeStored
          \/ disk[n].size > 0 /\ FirstUsable <= disk[n].start /\ End(disk[n]) <= LastUsable
      BY <2>1, LayoutsAssumption
    <3>2. CASE disk[n] = FreeStored
      BY <1>3, <3>2 DEF FoundAs, FreeStored, FreePart, ExtentOf
    <3>3. CASE disk[n].size > 0 /\ FirstUsable <= disk[n].start /\ End(disk[n]) <= LastUsable
      <4>1. disk[n].size # 0
        BY <3>3
      <4> QED
        BY <1>3, <3>3, <4>1 DEF FoundAs, ExtentOf, End
    <3> QED
      BY <3>1, <3>2, <3>3
  <2>3. LayoutOf(disk) = LayoutOf(slots) /\ LayoutOf(disk) \in Layout
    BY <1>1, <2>2, ExtentTyped DEF LayoutOf, ApartInv, TypeOK, Layout
  <2>4. \E v : Course(v)
    BY <1>2, <2>1, <2>3, EmptyCourse
  <2>5. Len(queue) = 0
    BY <2>1
  <2> QED
    BY <1>1, <1>2, <1>4, <2>1, <2>2, <2>4, <2>5
       DEF SaveInv, CleanIsEmpty, Usable, Writing, BlankMedium, Plain
<1>5. CASE label # "gpt"
  <2> DEFINE e == Op("init", 0, FreeExtent)
  <2>1. disk = [n \in Nums |-> FreeStored] /\ queue = <<e>> /\ isDirty
    BY <1>5 DEF Init
  <2>2. Len(queue) = 1 /\ queue[1] = e /\ e.op = "init"
    BY <2>1 DEF Op
  <2>3. slots = [n \in Nums |-> FreePart]
    BY <1>3, <2>1 DEF FoundAs, FreeStored
  <2>4. /\ LayoutOf(disk) = FreeLayout /\ LayoutOf(slots) = FreeLayout
        /\ FreeLayout \in Layout
    BY <2>1, <2>3, FreeIsFree, FreeTyped DEF FreeLayout, Layout
  <2> DEFINE w == [i \in 1 .. 2 |-> FreeLayout]
  <2> HIDE DEF e
  <2>5. /\ w \in [1 .. Len(queue) + 1 -> Layout]
        /\ w[1] = LayoutOf(disk) /\ w[Len(queue) + 1] = LayoutOf(slots)
        /\ \A i \in 1 .. Len(queue) : Replays(w[i], queue[i], w[i + 1])
    BY <2>2, <2>4 DEF Replays
  <2> HIDE DEF w
  <2>6. Course(w)
    BY <1>2, <2>5 DEF Course
  <2>7. Usable
    BY <2>3 DEF Usable, FreePart
  <2>8. Plain
    BY <2>2 DEF Plain
  <2> QED
    BY <1>1, <1>2, <2>1, <2>4, <2>6, <2>7, <2>8
       DEF SaveInv, CleanIsEmpty, Writing, BlankMedium
<1> QED
  BY <1>4, <1>5

(* What is created lies in the usable sectors.                             *)
LEMMA HoleUsable ==
  ASSUME TypeOK, Usable, NEW hole \in Holes
  PROVE  /\ hole.start \in Int /\ hole.end \in Int
         /\ FirstUsable <= hole.start /\ hole.end <= LastUsable
<1>1. \A k \in Nums : slots[k].start \in Nat /\ slots[k].size \in Nat
  BY FreeTyped DEF TypeOK, Part
<1>2. /\ hole.start \in {FirstUsable} \union {End(slots[k]) : k \in Used}
      /\ hole.end \in {LastUsable} \union {slots[k].start : k \in Used}
  BY DEF Holes, Later
<1>3. \A k \in Used :
        /\ slots[k].start \in Nat /\ End(slots[k]) \in Nat
        /\ FirstUsable <= End(slots[k]) /\ slots[k].start <= LastUsable
  BY <1>1, GptAssumption DEF Used, Usable, End
<1> QED
  BY <1>2, <1>3, GptAssumption

LEMMA CreateSaved ==
  ASSUME SaveInv, Create, NoTinyHole
  PROVE  Usable' /\ Plain' /\ (\E v : Course(v))'
<1> USE GptAssumption, FreeTyped
<1>1. PICK hole \in Holes, start \in Sectors, size \in Sectors :
        /\ Accepted(hole, start, size)
        /\ \E a \in Sectors, kind \in Kinds, n \in Nums :
             LET new == [start |-> a, size |-> start + size - a,
                         kind |-> kind, use |-> "blank"]
             IN  /\ RoundsUpTo(start, a) /\ IsLowestFree(slots, n)
                 /\ slots' = [slots EXCEPT ![n] = new]
                 /\ WillTell(Append(queue, Op("add", n, ExtentOf(new))))
  BY DEF Create, CreateIn
<1>2. PICK a \in Sectors, kind \in Kinds, n \in Nums :
        LET new == [start |-> a, size |-> start + size - a,
                    kind |-> kind, use |-> "blank"]
        IN  /\ RoundsUpTo(start, a) /\ IsLowestFree(slots, n)
            /\ slots' = [slots EXCEPT ![n] = new]
            /\ WillTell(Append(queue, Op("add", n, ExtentOf(new))))
  BY <1>1
<1> DEFINE new == [start |-> a, size |-> start + size - a, kind |-> kind, use |-> "blank"]
           ext == [start |-> a, size |-> start + size - a]
           e   == Op("add", n, ext)
<1>3. TypeOK /\ ApartInv /\ Usable
  BY DEF SaveInv, ApartInv
<1>4. /\ hole.start \in Int /\ hole.end \in Int
      /\ FirstUsable <= hole.start /\ hole.end <= LastUsable
  BY <1>3, HoleUsable
<1>5. hole.start <= start /\ size >= MinSize /\ start + size <= hole.end
  BY <1>1, <1>4 DEF Accepted, NoTinyHole, Tiny
<1>6. hole.start <= a /\ start + size - a > 0 /\ a + (start + size - a) <= hole.end
  BY <1>2, <1>4, <1>5 DEF RoundsUpTo
<1>7. new \in Part /\ ext \in Extent
  BY <1>4, <1>6 DEF Part, Extent, Sectors
<1>8. \A k \in Nums : ~Overlap(new, slots[k])
  BY <1>3, <1>6, <1>7, HoleIsFree DEF ApartInv, End
<1>9. \A k \in Nums : ~Overlap(ext, slots[k])
  BY <1>8 DEF Overlap, End
<1>10. Fits(slots, ext)
  BY <1>4, <1>6, <1>9 DEF Fits, End
<1>11. ExtentOf(new) = ext
  BY DEF ExtentOf
<1>12. slots' = [slots EXCEPT ![n] = new] /\ IsLowestFree(slots, n) /\ queue' = Append(queue, e)
  BY <1>2, <1>11 DEF WillTell
<1>14. Usable'
  BY <1>3, <1>4, <1>6, <1>12 DEF Usable, End, TypeOK
<1>15. e \in Entry /\ e.op = "add" /\ e.num = n /\ e.ext = ext
  BY <1>7, OpTyped DEF Op
<1> HIDE DEF e, ext, new
<1>13. LayoutOf(slots') = [LayoutOf(slots) EXCEPT ![n] = ext]
  <2>1. slots \in [Nums -> Part]
    BY <1>3 DEF TypeOK
  <2>2. LayoutOf([slots EXCEPT ![n] = new]) = [LayoutOf(slots) EXCEPT ![n] = ExtentOf(new)]
    BY <2>1 DEF LayoutOf
  <2> QED
    BY <1>11, <1>12, <2>2
<1>16. Replays(LayoutOf(slots), e, LayoutOf(slots'))
  <2>1. IsLowestFree(LayoutOf(slots), n) /\ Fits(LayoutOf(slots), ext)
    BY <1>10, <1>12, LayoutFacts
  <2> QED
    BY <1>13, <1>15, <2>1 DEF Replays
<1>17. LayoutOf(slots') \in Layout
  BY <1>3, <1>7, <1>13, ExtentTyped DEF Layout, TypeOK
<1>18. disk' = disk /\ label' = label /\ phase' = "edit" /\ Plain
  BY DEF Create, CreateIn, Editing, diskVars, writeVars, SaveInv
<1>19. PICK v : Course(v)
  BY DEF SaveInv
<1>20. e.op # "init" /\ (e.op = "del" => label = "gpt")
  BY <1>15
<1>21. Plain' /\ (\E u : Course(u))'
  BY ONLY <1>3, <1>12, <1>15, <1>16, <1>17, <1>18, <1>19, <1>20, CourseAppended
<1> QED
  BY <1>14, <1>21

LEMMA DeleteSaved ==
  ASSUME SaveInv, NEW n \in Nums, Delete(n), label = "gpt"
  PROVE  Usable' /\ Plain' /\ (\E v : Course(v))'
<1> DEFINE e == Op("del", n, FreeExtent)
<1>1. TypeOK /\ Usable
  BY DEF SaveInv, ApartInv
<1>2. /\ slots' = [slots EXCEPT ![n] = FreePart] /\ queue' = Append(queue, e)
      /\ slots[n].size > 0 /\ disk' = disk /\ label' = label /\ phase' = "edit" /\ Plain
  BY DEF Delete, NotBusy, WillTell, Editing, diskVars, writeVars, SaveInv
<1>3. LayoutOf(slots') = [LayoutOf(slots) EXCEPT ![n] = FreeExtent]
  <2>1. slots \in [Nums -> Part] /\ FreePart \in Part /\ ExtentOf(FreePart) = FreeExtent
    BY <1>1, FreeTyped, FreeIsFree DEF TypeOK
  <2>2. LayoutOf([slots EXCEPT ![n] = FreePart]) = [LayoutOf(slots) EXCEPT ![n] = ExtentOf(FreePart)]
    BY <2>1 DEF LayoutOf
  <2> QED
    BY <1>2, <2>1, <2>2
<1>4. e \in Entry /\ e.op = "del" /\ e.num = n
  BY OpTyped DEF Op
<1> HIDE DEF e
<1>5. Replays(LayoutOf(slots), e, LayoutOf(slots'))
  <2>1. LayoutOf(slots)[n].size > 0
    BY <1>2, LayoutFacts
  <2> QED
    BY <1>3, <1>4, <2>1 DEF Replays
<1>6. LayoutOf(slots') \in Layout
  BY <1>1, <1>3, ExtentTyped, FreeTyped DEF Layout, TypeOK
<1>7. Usable'
  BY <1>1, <1>2 DEF Usable, FreePart, TypeOK
<1>8. PICK v : Course(v)
  BY DEF SaveInv
<1>9. Plain' /\ (\E u : Course(u))'
  BY <1>1, <1>2, <1>4, <1>5, <1>6, <1>8, CourseAppended
<1> QED
  BY <1>7, <1>9

(* The slot of a resize gets the size that is queued; it has room there.   *)
LEMMA ResizeFacts ==
  ASSUME ApartInv, NEW n \in Nums, ResizeBlank(n) \/ ShrinkFs(n) \/ GrowFs(n), HasRoom(n)
  PROVE  \E size \in Sectors :
           /\ size > 0 /\ slots[n].size > 0
           /\ \E next \in Sectors :
                NextStart(End(slots[n]), next) /\ slots[n].start + size <= next
           /\ \E use \in {"blank", slots[n].use} :
                slots' = [slots EXCEPT ![n] = [slots[n] EXCEPT !.size = size, !.use = use]]
           /\ TellResize(n, [slots[n] EXCEPT !.size = size])
<1>1. /\ slots \in [Nums -> Part] /\ slots[n] \in Part
      /\ MinSize \in Nat /\ Cylinder \in Nat /\ MinSize > 0 /\ Cylinder > 0
  BY GptAssumption DEF ApartInv, TypeOK
<1>2. slots[n].size \in Nat /\ slots[n].start \in Nat /\ Sectors \subseteq Nat
  BY <1>1, FreeTyped DEF Part
<1>3. CASE ResizeBlank(n)
  <2>1. PICK size \in Sectors :
          LET new == [slots[n] EXCEPT !.size = size, !.use = "blank"]
              resized == [slots EXCEPT ![n] = new]
          IN  /\ size # slots[n].size /\ Resizable(n, size)
              /\ slots' = IF VerifyParts(resized) THEN resized
                          ELSE [slots EXCEPT ![n].use = "blank"]
              /\ TellResize(n, new)
    BY <1>3 DEF ResizeBlank
  <2>2. slots[n].size > 0
    BY <1>3 DEF ResizeBlank, NotBusy
  <2>3. size > 0 /\ \E next \in Sectors :
          NextStart(End(slots[n]), next) /\ slots[n].start + size <= next
    <3>1. PICK next \in Sectors :
            /\ NextStart(End(slots[n]), next)
            /\ \/ MinResize(n) <= size /\ slots[n].start + size <= next
               \/ /\ slots[n].use = "blank" /\ size = MinSize
                  /\ next - slots[n].start < MinSize
      BY <2>1 DEF Resizable
    <3>2. MinResize(n) \in Nat /\ MinResize(n) > 0
      BY <1>1, <1>2 DEF MinResize
    <3>3. CASE MinResize(n) <= size /\ slots[n].start + size <= next
      BY <1>2, <3>1, <3>2, <3>3
    <3>4. CASE slots[n].use = "blank" /\ size = MinSize
      BY <1>1, <3>1, <3>4 DEF HasRoom
    <3> QED
      BY <3>1, <3>3, <3>4
  <2>4. VerifyParts([slots EXCEPT ![n] = [slots[n] EXCEPT !.size = size, !.use = "blank"]])
    <3>1. VerifyParts([slots EXCEPT ![n].size = size])
      BY <2>2, <2>3, GrowthIsFree DEF ApartInv
    <3>2. /\ [slots EXCEPT ![n].size = size] \in [Nums -> Part]
          /\ [slots EXCEPT ![n] = [slots[n] EXCEPT !.size = size, !.use = "blank"]] \in [Nums -> Part]
      BY <1>1 DEF Part
    <3>3. \A k \in Nums :
            /\ [slots EXCEPT ![n] = [slots[n] EXCEPT !.size = size, !.use = "blank"]][k].start
                 = [slots EXCEPT ![n].size = size][k].start
            /\ [slots EXCEPT ![n] = [slots[n] EXCEPT !.size = size, !.use = "blank"]][k].size
                 = [slots EXCEPT ![n].size = size][k].size
      BY <1>1 DEF Part
    <3> QED
      BY <3>1, <3>2, <3>3, UseKeepsApart
  <2>5. slots' = [slots EXCEPT ![n] = [slots[n] EXCEPT !.size = size, !.use = "blank"]]
    BY <2>1, <2>4
  <2>6. ExtentOf([slots[n] EXCEPT !.size = size, !.use = "blank"])
          = ExtentOf([slots[n] EXCEPT !.size = size])
    BY <1>1 DEF ExtentOf, Part
  <2>7. TellResize(n, [slots[n] EXCEPT !.size = size])
    BY <2>1, <2>6 DEF TellResize
  <2> QED
    BY <2>2, <2>3, <2>5, <2>7
<1>4. CASE ShrinkFs(n) \/ GrowFs(n)
  <2>1. PICK size \in Sectors : SizeOfFs(n, size)
    BY <1>4 DEF ShrinkFs, GrowFs
  <2>2. slots' = [slots EXCEPT ![n] = [slots[n] EXCEPT !.size = size, !.use = slots[n].use]]
    <3>1. slots' = [slots EXCEPT ![n] = [slots[n] EXCEPT !.size = size]]
      BY <1>1, <2>1 DEF SizeOfFs
    <3>2. [slots[n] EXCEPT !.size = size, !.use = slots[n].use] = [slots[n] EXCEPT !.size = size]
      BY <1>1 DEF Part
    <3> QED
      BY <3>1, <3>2
  <2>3. size > 0 /\ slots[n].size > 0
    BY <1>1, <1>2, <2>1 DEF SizeOfFs
  <2>4. /\ \E next \in Sectors :
             NextStart(End(slots[n]), next) /\ slots[n].start + size <= next
        /\ TellResize(n, [slots[n] EXCEPT !.size = size])
    BY <2>1, Zenon DEF SizeOfFs
  <2> QED
    BY <2>2, <2>3, <2>4
<1> QED
  BY <1>3, <1>4

(* The number of a resize is the lowest that is free between its del and   *)
(* its add, and there its room is free as well.                            *)
LEMMA ResizeSaved ==
  ASSUME SaveInv, Orderly, NEW n \in Nums, ResizeBlank(n) \/ ShrinkFs(n) \/ GrowFs(n)
  PROVE  Usable' /\ Plain' /\ (\E v : Course(v))'
<1>1. TypeOK /\ ApartInv /\ Usable /\ Plain /\ slots \in [Nums -> Part]
  BY DEF SaveInv, ApartInv, TypeOK
<1>2. label = "gpt" /\ InOrder(n) /\ HasRoom(n)
  BY DEF Orderly
<1>3. PICK size \in Sectors :
        /\ size > 0 /\ slots[n].size > 0
        /\ \E next \in Sectors :
             NextStart(End(slots[n]), next) /\ slots[n].start + size <= next
        /\ \E use \in {"blank", slots[n].use} :
             slots' = [slots EXCEPT ![n] = [slots[n] EXCEPT !.size = size, !.use = use]]
        /\ TellResize(n, [slots[n] EXCEPT !.size = size])
  BY <1>1, <1>2, ResizeFacts
<1>4. PICK next \in Sectors : NextStart(End(slots[n]), next) /\ slots[n].start + size <= next
  BY <1>3
<1>5. PICK use \in {"blank", slots[n].use} :
        slots' = [slots EXCEPT ![n] = [slots[n] EXCEPT !.size = size, !.use = use]]
  BY <1>3
<1> DEFINE ext == [start |-> slots[n].start, size |-> size]
           d   == Op("del", n, FreeExtent)
           e   == Op("add", n, ext)
           mid == [LayoutOf(slots) EXCEPT ![n] = FreeExtent]
<1>6. \A k \in Nums : slots[k].start \in Nat /\ slots[k].size \in Nat
  BY <1>1, FreeTyped DEF Part
<1>7. size \in Nat /\ next \in Nat /\ next <= LastUsable
  <2>1. \A k \in Used : slots[k].start <= LastUsable
    BY <1>1, <1>6, GptAssumption DEF Used, Usable, End
  <2> QED
    BY <1>4, <2>1, FreeTyped, GptAssumption DEF NextStart, Later
<1>8. ext \in Extent
  BY <1>1 DEF Extent, Part
<1>9. /\ d \in Entry /\ d.op = "del" /\ d.num = n
      /\ e \in Entry /\ e.op = "add" /\ e.num = n /\ e.ext = ext
  BY <1>8, OpTyped DEF Op
<1>10. LayoutOf(slots) \in Layout /\ mid \in Layout
  BY <1>1, ExtentTyped, FreeTyped DEF Layout
<1>11. LayoutOf(slots') = [LayoutOf(slots) EXCEPT ![n] = ext]
  <2>1. ExtentOf([slots[n] EXCEPT !.size = size, !.use = use]) = ext
    BY <1>1 DEF ExtentOf, Part
  <2>2. \A p : LayoutOf([slots EXCEPT ![n] = p]) = [LayoutOf(slots) EXCEPT ![n] = ExtentOf(p)]
    BY <1>1 DEF LayoutOf
  <2> QED
    BY <1>5, <2>1, <2>2
<1>12. LayoutOf(slots') = [mid EXCEPT ![n] = ext]
  BY <1>10, <1>11 DEF Layout
<1>13. queue' = queue \o <<d, e>>
  <2>1. ExtentOf([slots[n] EXCEPT !.size = size]) = ext
    BY <1>1 DEF ExtentOf, Part
  <2> QED
    BY <1>3, <2>1 DEF TellResize, WillTell
<1>14. Replays(LayoutOf(slots), d, mid)
  <2>1. LayoutOf(slots)[n].size > 0
    BY <1>3, LayoutFacts
  <2> QED
    BY <1>9, <2>1 DEF Replays
<1>15. IsLowestFree(mid, n)
  <2>1. mid[n].size = 0
    BY <1>10 DEF FreeExtent, Layout
  <2>2. ASSUME NEW k \in Nums, k < n PROVE mid[k].size > 0
    <3>1. mid[k] = LayoutOf(slots)[k]
      BY <1>6, <1>10, <2>2, FreeTyped DEF Layout
    <3> QED
      BY <1>2, <2>2, <3>1, LayoutFacts DEF InOrder
  <2> QED
    BY <2>1, <2>2 DEF IsLowestFree
<1>16. Fits(mid, ext)
  <2>1. FirstUsable <= ext.start /\ End(ext) <= LastUsable /\ ext.size > 0
    BY <1>1, <1>3, <1>4, <1>6, <1>7, GptAssumption DEF Usable, End
  <2>2. ASSUME NEW k \in Nums PROVE ~Overlap(ext, mid[k])
    <3>1. CASE k = n
      BY <1>10, <3>1 DEF FreeExtent, Overlap, Layout
    <3>2. CASE k # n
      <4>1. VerifyParts([slots EXCEPT ![n].size = size])
        BY <1>1, <1>3, <1>4, GrowthIsFree DEF ApartInv
      <4>2. /\ [slots EXCEPT ![n].size = size][n].start = ext.start
            /\ [slots EXCEPT ![n].size = size][n].size = ext.size
            /\ [slots EXCEPT ![n].size = size][k] = slots[k]
        BY <1>1, <3>2 DEF Part
      <4>3. ~Overlap([slots EXCEPT ![n].size = size][n], [slots EXCEPT ![n].size = size][k])
        BY <3>2, <4>1 DEF VerifyParts
      <4>4. mid[k].start = slots[k].start /\ mid[k].size = slots[k].size
        BY <1>10, <3>2 DEF Layout, LayoutOf, ExtentOf
      <4> QED
        BY <4>2, <4>3, <4>4 DEF Overlap, End
    <3> QED
      BY <3>1, <3>2
  <2> QED
    BY <2>1, <2>2 DEF Fits
<1>17. LayoutOf(slots') \in Layout
  BY <1>8, <1>10, <1>11 DEF Layout
<1>18. Usable'
  <2>1. \A k \in Nums : /\ slots'[k].start = slots[k].start
                        /\ slots'[k].size = IF k = n THEN size ELSE slots[k].size
    BY <1>1, <1>5 DEF Part
  <2>2. FirstUsable <= slots[n].start /\ slots[n].start + size <= LastUsable
    BY <1>1, <1>3, <1>4, <1>6, <1>7, GptAssumption DEF Usable
  <2>3. ASSUME NEW k \in Nums, slots'[k].size > 0
        PROVE  FirstUsable <= slots'[k].start /\ slots'[k].start + slots'[k].size <= LastUsable
    <3>1. CASE k = n
      BY <2>1, <2>2, <3>1
    <3>2. CASE k # n
      BY <1>1, <2>1, <2>3, <3>2 DEF Usable, End
    <3> QED
      BY <3>1, <3>2
  <2> QED
    BY <2>3 DEF Usable, End
<1> HIDE DEF d, e, ext, mid
<1>19. Replays(mid, e, LayoutOf(slots'))
  BY <1>9, <1>12, <1>15, <1>16 DEF Replays
<1>20. /\ disk' = disk /\ label' = "gpt"
       /\ phase' = "replay" => ped' = disk /\ pos' = 1
  BY <1>2 DEF ResizeBlank, ShrinkFs, GrowFs, SizeOfFs, Editing, StartReplay, diskVars, writeVars
<1>21. PICK v : Course(v)
  BY DEF SaveInv
<1>22. d \in Entry /\ e \in Entry /\ d.op = "del" /\ e.op = "add"
  BY <1>9
<1>23. Plain' /\ (\E w : Course(w))'
  BY <1>1, <1>2, <1>10, <1>13, <1>14, <1>17, <1>19, <1>20, <1>21, <1>22, CourseResized
<1> QED
  BY <1>18, <1>23

LEMMA ClearAllSaved ==
  ASSUME SaveInv, ClearAll
  PROVE  Usable' /\ Plain' /\ (\E v : Course(v))'
<1> DEFINE e == Op("init", 0, FreeExtent)
<1>1. /\ slots' = [n \in Nums |-> FreePart] /\ queue' = <<e>>
      /\ disk' = disk /\ phase' = "edit"
  BY DEF ClearAll, WillTell, Editing, diskVars, writeVars
<1>2. Len(queue') = 1 /\ queue'[1] = e /\ e.op = "init"
  BY <1>1 DEF Op
<1>3. LayoutOf(slots') = FreeLayout /\ FreeLayout \in Layout
  BY <1>1, FreeIsFree, FreeTyped DEF FreeLayout, Layout
<1>4. LayoutOf(disk) \in Layout
  BY ExtentTyped DEF SaveInv, ApartInv, TypeOK, Layout
<1> DEFINE w == [i \in 1 .. 2 |-> IF i = 1 THEN LayoutOf(disk) ELSE FreeLayout]
<1> HIDE DEF e
<1>5. /\ w \in [1 .. Len(queue') + 1 -> Layout]
      /\ w[1] = LayoutOf(disk') /\ w[Len(queue') + 1] = LayoutOf(slots')
      /\ \A i \in 1 .. Len(queue') : Replays(w[i], queue'[i], w[i + 1])
  BY <1>1, <1>2, <1>3, <1>4 DEF Replays
<1> HIDE DEF w
<1>6. PICK u : u = w
  OBVIOUS
<1>7. Course(u)'
  BY <1>1, <1>5, <1>6 DEF Course
<1>8. Usable'
  BY <1>1 DEF Usable, FreePart
<1>9. Plain'
  BY <1>2 DEF Plain
<1> QED
  BY <1>7, <1>8, <1>9

(* Steps that leave the extents, the queue and the medium alone.           *)
LEMMA QuietSaved ==
  ASSUME SaveInv, LayoutOf(slots') = LayoutOf(slots),
         queue' = queue, disk' = disk, label' = label,
         phase' = "replay" => ped' = IF label = "gpt" THEN disk ELSE [n \in Nums |-> FreeStored],
         phase' = "replay" => pos' = 1
  PROVE  Usable' /\ Plain' /\ (\E v : Course(v))'
<1>1. PICK v : Course(v)
  BY DEF SaveInv
<1>2. Course(v)'
  <2>1. phase' = "replay" => LayoutOf(ped') = LayoutOf(disk)
    BY FreeIsFree DEF SaveInv, BlankMedium
  <2> QED
    BY <1>1, <2>1 DEF Course
<1>3. \A n \in Nums : ExtentOf(slots'[n]) = ExtentOf(slots[n])
  <2>1. \A n \in Nums : LayoutOf(slots')[n] = LayoutOf(slots)[n]
    OBVIOUS
  <2> QED
    BY <2>1, LayoutFacts
<1>4. \A n \in Nums : slots'[n].size = slots[n].size /\ slots'[n].start = slots[n].start
  BY <1>3 DEF ExtentOf
<1>5. Usable'
  BY <1>4 DEF SaveInv, Usable, End
<1>6. Plain'
  BY DEF SaveInv, Plain
<1> QED
  BY <1>2, <1>5, <1>6

LEMMA UseIsQuiet ==
  ASSUME TypeOK, NEW n \in Nums,
         \/ Type(n) \/ Mount(n) \/ Unmount(n) \/ Format(n)
  PROVE  LayoutOf(slots') = LayoutOf(slots)
<1>1. \A k \in Nums : ExtentOf(slots'[k]) = ExtentOf(slots[k])
  <2>1. CASE Type(n)
    <3>1. PICK kind \in Kinds :
             slots' = [slots EXCEPT ![n].kind = kind, ![n].use = "blank"]
      BY <2>1 DEF Type
    <3>2. slots' = [slots EXCEPT ![n] = [slots[n] EXCEPT !.kind = kind, !.use = "blank"]]
      BY <3>1 DEF TypeOK
    <3> QED
      BY <3>2 DEF TypeOK, Part, ExtentOf
  <2>2. CASE Mount(n) \/ Unmount(n) \/ Format(n)
    <3>1. PICK use \in {"fs", "mounted"} : slots' = [slots EXCEPT ![n].use = use]
      BY <2>2 DEF Mount, Unmount, Format
    <3> QED
      BY <3>1 DEF TypeOK, Part, ExtentOf
  <2> QED
    BY <2>1, <2>2
<1> QED
  BY <1>1 DEF LayoutOf

(* One entry replayed leads from one layout of the course to the next; it  *)
(* can be replayed.                                                        *)
LEMMA CurrentReplays ==
  ASSUME SaveInv, Replaying, NEW v, Course(v)
  PROVE  /\ Replays(LayoutOf(ped), Current, v[pos + 1])
         /\ pos \in 1 .. Len(queue)
         /\ Current.op = "add" => /\ Current.num \in Nums /\ Current.ext \in Extent
                                  /\ IsLowestFree(ped, Current.num)
                                  /\ Fits(ped, Current.ext)
         /\ Current.op = "del" => Current.num \in Nums /\ ped[Current.num].size > 0 /\ ~killed
         /\ Current.op = "init" /\ killed => LayoutOf(ped) = FreeLayout
         /\ Applies(Current)
<1>1. TypeOK /\ phase = "replay" /\ killed = (label # "gpt")
  BY DEF SaveInv, ApartInv, Writing, Replaying
<1>2. pos \in 1 .. Len(queue) /\ queue \in Seq(Entry)
  BY <1>1 DEF Replaying, TypeOK
<1>3. Replays(LayoutOf(ped), Current, v[pos + 1])
  BY <1>1, <1>2 DEF Course, Current
<1>4. Current \in Entry
  <2> HIDE DEF Entry
  <2> QED
    BY <1>2 DEF Current
<1>5. CASE Current.op = "add"
  <2>1. Current.num \in Nums /\ IsLowestFree(ped, Current.num) /\ Fits(ped, Current.ext)
    BY <1>3, <1>5, LayoutFacts DEF Replays
  <2>2. Applies(Current)
    BY <1>5, <2>1 DEF Applies
  <2> QED
    BY <1>1, <1>2, <1>3, <1>4, <1>5, <2>1, <2>2 DEF Entry
<1>6. CASE Current.op = "del"
  <2>1. Current.num \in Nums /\ ped[Current.num].size > 0
    BY <1>3, <1>6, LayoutFacts DEF Replays
  <2>2. Applies(Current)
    BY <1>6, <2>1 DEF Applies
  <2>3. ~killed
    BY <1>1, <1>2, <1>6 DEF SaveInv, Plain, Current
  <2> QED
    BY <1>1, <1>2, <1>3, <1>6, <2>1, <2>2, <2>3
<1>7. CASE Current.op = "init"
  <2>1. Applies(Current)
    BY <1>7 DEF Applies
  <2>2. ASSUME killed PROVE LayoutOf(ped) = FreeLayout
    <3>1. pos = 1
      BY <1>2, <1>7 DEF SaveInv, Plain, Current
    <3>2. LayoutOf(ped) = LayoutOf(disk)
      BY <1>1, <3>1 DEF Course
    <3> QED
      BY <1>1, <2>2, <3>2 DEF SaveInv, BlankMedium
  <2> QED
    BY <1>2, <1>3, <1>7, <2>1, <2>2
<1> QED
  BY <1>4, <1>5, <1>6, <1>7 DEF Entry

(* A replayed entry takes the table gpt::write works on one layout further. *)
LEMMA ReplaySaved ==
  ASSUME SaveInv, ReplayAdd \/ ReplayDel \/ ReplayInit
  PROVE  Usable' /\ Writing' /\ Plain' /\ (\E v : Course(v))'
<1>1. PICK v : Course(v)
  BY DEF SaveInv
<1>2. Replaying /\ WriteGoesOn
  BY DEF ReplayAdd, ReplayDel, ReplayInit
<1>3. /\ Replays(LayoutOf(ped), Current, v[pos + 1])
      /\ pos \in 1 .. Len(queue)
      /\ Current.op = "add" => /\ Current.num \in Nums /\ Current.ext \in Extent
                               /\ IsLowestFree(ped, Current.num)
                               /\ Fits(ped, Current.ext)
      /\ Current.op = "del" => Current.num \in Nums /\ ped[Current.num].size > 0 /\ ~killed
      /\ Current.op = "init" /\ killed => LayoutOf(ped) = FreeLayout
  BY <1>1, <1>2, CurrentReplays
<1>4. ped \in Table
  BY DEF SaveInv, ApartInv, TypeOK
<1>5. LayoutOf(ped') = v[pos + 1]
  <2>1. CASE ReplayAdd
    <3>1. PICK m \in Nums, e \in Extent :
            LET added == Added(ped, m, e)
                kind  == KindFor(Current.ext)
            IN  /\ IsLowestFree(ped, m) /\ Placed(ped, Current.ext, e)
                /\ \/ ped' = added
                   \/ ped' = Flagged(added, Current.num, kind)
      BY <2>1 DEF ReplayAdd
    <3>2. m = Current.num /\ e = Current.ext
      BY <1>3, <2>1, <3>1, OneLowestFree DEF ReplayAdd, Placed
    <3>3. v[pos + 1] = [LayoutOf(ped) EXCEPT ![m] = e]
      BY <1>3, <2>1, <3>2 DEF Replays, ReplayAdd
    <3> DEFINE added == Added(ped, m, e)
    <3>4. LayoutOf(added) = [LayoutOf(ped) EXCEPT ![m] = e]
      <4>1. added = [ped EXCEPT ![m] = [start |-> e.start, size |-> e.size, kind |-> "data"]]
        BY DEF Added
      <4>2. ExtentOf([start |-> e.start, size |-> e.size, kind |-> "data"]) = e
        BY DEF ExtentOf, Extent
      <4> QED
        BY <1>4, <4>1, <4>2 DEF LayoutOf, Table
    <3>5. added \in Table
      BY <1>4, GptAssumption DEF Added, Table, Stored, Extent
    <3> HIDE DEF added
    <3>6. \A kind : LayoutOf(Flagged(added, m, kind)) = LayoutOf(added)
      BY <3>5 DEF Flagged, LayoutOf, ExtentOf, Table, Stored
    <3>7. ped' = added \/ ped' = Flagged(added, m, KindFor(Current.ext))
      BY <3>1, <3>2 DEF added
    <3> QED
      BY <3>3, <3>4, <3>6, <3>7
  <2>2. CASE ReplayDel
    <3>1. ped' = [ped EXCEPT ![Current.num] = FreeStored] /\ Current.op = "del"
      BY <1>3, <2>2 DEF ReplayDel
    <3>2. v[pos + 1] = [LayoutOf(ped) EXCEPT ![Current.num] = FreeExtent] /\ Current.num \in Nums
      BY <1>3, <3>1 DEF Replays
    <3> QED
      BY <1>4, <3>1, <3>2, FreeIsFree DEF LayoutOf, Table
  <2>3. CASE ReplayInit
    <3>1. Current.op = "init" /\ v[pos + 1] = FreeLayout
      BY <1>3, <2>3 DEF ReplayInit, Replays
    <3>2. CASE killed
      BY <1>3, <2>3, <3>1, <3>2 DEF ReplayInit
    <3>3. CASE ~killed
      BY <2>3, <3>1, <3>3, FreeIsFree DEF ReplayInit
    <3> QED
      BY <3>2, <3>3
  <2> QED
    BY <2>1, <2>2, <2>3
<1>6. Course(v)'
  BY <1>1, <1>2, <1>5 DEF Course, WriteGoesOn, memVars, diskVars
<1>7. Usable' /\ Plain'
  BY <1>2 DEF SaveInv, Usable, Plain, WriteGoesOn, memVars, diskVars
<1>8. Writing'
  <2>1. pos \in Nat /\ Len(queue) \in Nat
    BY DEF SaveInv, ApartInv, TypeOK
  <2> QED
    BY <1>2, <1>3, <2>1 DEF SaveInv, Writing, WriteGoesOn, Replaying, memVars, diskVars
<1> QED
  BY <1>6, <1>7, <1>8

(* When all is replayed, the medium is given the table in memory.          *)
LEMMA CommitSaved ==
  ASSUME SaveInv, Commit
  PROVE  /\ LayoutOf(disk') = LayoutOf(slots) /\ slots' = slots
         /\ isDirty /\ isDirty' = FALSE
         /\ Usable' /\ Writing' /\ BlankMedium' /\ Plain' /\ (\E v : Course(v))'
<1>1. PICK v : Course(v)
  BY DEF SaveInv
<1>2. /\ TypeOK /\ Usable /\ isDirty
      /\ pos <= Len(queue) + 1 /\ pos > Len(queue) /\ phase = "replay"
  BY DEF SaveInv, ApartInv, Writing, Commit, Replayed
<1>3. pos = Len(queue) + 1
  <2>1. pos \in Nat /\ Len(queue) \in Nat
    BY <1>2 DEF TypeOK
  <2> QED
    BY <1>2, <2>1
<1>4. LayoutOf(ped) = LayoutOf(slots)
  BY <1>1, <1>2, <1>3 DEF Course
<1>5. /\ disk' = ped /\ slots' = slots /\ label' = "gpt" /\ queue' = <<>>
      /\ isDirty' = FALSE /\ phase' # "replay"
  BY <1>2 DEF Commit, AfterWrite
<1>6. LayoutOf(slots) \in Layout
  BY <1>2, ExtentTyped DEF TypeOK, Layout
<1>7. (\E u : Course(u))'
  <2> DEFINE w == [i \in 1 .. 1 |-> LayoutOf(slots)]
  <2>1. Len(queue') = 0
    BY <1>5
  <2>2. w \in [1 .. Len(queue') + 1 -> Layout] /\ w[1] = LayoutOf(slots)
    BY <1>6, <2>1
  <2> HIDE DEF w
  <2>3. PICK u : u = w
    OBVIOUS
  <2>4. Course(u)'
    BY <1>4, <1>5, <2>1, <2>2, <2>3 DEF Course
  <2> QED
    BY <2>4
<1>8. Usable' /\ Writing' /\ BlankMedium'
  BY <1>2, <1>5 DEF Usable, Writing, BlankMedium
<1>9. Plain'
  <2>1. Len(queue') = 0
    BY <1>5
  <2> QED
    BY <2>1 DEF Plain
<1> QED
  BY <1>2, <1>4, <1>5, <1>7, <1>8, <1>9

(* The other steps of a write leave the memory table and the medium alone. *)
LEMMA WriteQuiet ==
  ASSUME SaveInv, Orderly,
         ReplayFails \/ CommitFails \/ TellKernel \/ FsResized \/ FsResizeFails
  PROVE  UNCHANGED <<slots, disk, queue, isDirty, label>> /\ phase' # "replay"
<1>1. ASSUME SizeRestored PROVE slots' = slots
  BY <1>1 DEF SizeRestored, Orderly
<1>2. CASE ReplayFails
  <2>1. PICK v : Course(v)
    BY DEF SaveInv
  <2>2. Applies(Current)
    BY <1>2, <2>1, CurrentReplays DEF ReplayFails
  <2> QED
    BY <1>2, <2>2 DEF ReplayFails
<1>3. CASE CommitFails
  BY <1>1, <1>3 DEF CommitFails, diskVars
<1>4. CASE TellKernel
  BY <1>1, <1>4 DEF TellKernel, AfterWrite, diskVars
<1>5. CASE FsResized
  BY <1>5 DEF FsResized, memVars, diskVars
<1>6. CASE FsResizeFails
  BY <1>1, <1>6 DEF FsResizeFails, diskVars
<1> QED
  BY <1>2, <1>3, <1>4, <1>5, <1>6

(* A step edits the memory table, which is then dirty, or saves it, or     *)
(* changes neither table; the invariant goes on.                           *)
Outcome ==
  \/ isDirty' = TRUE /\ LayoutOf(slots') \in Layout /\ disk' = disk
  \/ isDirty /\ LayoutOf(disk') = LayoutOf(slots) /\ isDirty' = FALSE /\ slots' = slots
  \/ LayoutOf(slots') = LayoutOf(slots) /\ disk' = disk /\ isDirty' = isDirty

LEMMA EditSaved ==
  ASSUME SaveInv, NoTinyHole, Orderly,
         Create \/ ClearAll \/ StartWrite \/ \E n \in Nums : EditSlot(n)
  PROVE  Usable' /\ Writing' /\ Plain' /\ (\E v : Course(v))' /\ Outcome
<1>1. TypeOK
  BY DEF SaveInv, ApartInv
<1>2. LayoutOf(slots') \in Layout
  BY <1>1, EditTyped, ExtentTyped DEF TypeOK, Layout
<1>3. ASSUME UNCHANGED writeVars, phase = "edit" PROVE Writing'
  BY <1>3 DEF Writing, writeVars
<1>4. CASE Create
  <2>1. UNCHANGED <<diskVars, writeVars>> /\ phase = "edit" /\ isDirty' = TRUE
    BY <1>4 DEF Create, CreateIn, WillTell, Editing
  <2> QED
    BY <1>2, <1>3, <1>4, <2>1, CreateSaved DEF Outcome, diskVars
<1>5. CASE ClearAll
  <2>1. UNCHANGED <<diskVars, writeVars>> /\ phase = "edit" /\ isDirty' = TRUE
    BY <1>5 DEF ClearAll, WillTell, Editing
  <2> QED
    BY <1>2, <1>3, <1>5, <2>1, ClearAllSaved DEF Outcome, diskVars
<1>6. ASSUME StartReplay, isDirty', label' = label, Len(queue') \in Nat PROVE Writing'
  BY <1>6 DEF Writing, StartReplay
<1>7. CASE StartWrite
  <2>1. UNCHANGED <<memVars, diskVars>> /\ isDirty /\ StartReplay
    BY <1>7 DEF StartWrite
  <2>2. Usable' /\ Plain' /\ (\E v : Course(v))'
    BY <2>1, QuietSaved DEF memVars, diskVars, StartReplay
  <2>3. Writing'
    <3>1. Len(queue) \in Nat
      BY <1>1 DEF TypeOK
    <3> QED
      BY <1>6, <2>1, <3>1 DEF memVars, diskVars
  <2> QED
    BY <2>1, <2>2, <2>3 DEF Outcome, memVars, diskVars
<1>8. ASSUME NEW n \in Nums, EditSlot(n)
      PROVE  Usable' /\ Writing' /\ Plain' /\ (\E v : Course(v))' /\ Outcome
  <2>1. CASE Delete(n)
    <3>1. UNCHANGED <<diskVars, writeVars>> /\ phase = "edit" /\ isDirty' = TRUE
      BY <2>1 DEF Delete, WillTell, Editing
    <3>2. label = "gpt"
      BY <2>1 DEF Orderly
    <3> QED
      BY <1>2, <1>3, <2>1, <3>1, <3>2, DeleteSaved DEF Outcome, diskVars
  <2>2. CASE Type(n) \/ Mount(n) \/ Unmount(n) \/ Format(n)
    <3>1. /\ UNCHANGED <<queue, diskVars, writeVars>> /\ phase = "edit"
          /\ isDirty' = TRUE \/ isDirty' = isDirty
      BY <2>2 DEF Type, Mount, Unmount, Format, Editing
    <3>2. LayoutOf(slots') = LayoutOf(slots)
      BY <1>1, <2>2, UseIsQuiet
    <3>3. Usable' /\ Plain' /\ (\E v : Course(v))'
      BY <3>1, <3>2, QuietSaved DEF diskVars, writeVars
    <3> QED
      BY <1>2, <1>3, <3>1, <3>2, <3>3 DEF Outcome, diskVars
  <2>3. CASE ResizeBlank(n) \/ ShrinkFs(n) \/ GrowFs(n)
    <3>1. /\ UNCHANGED diskVars /\ isDirty' = TRUE /\ phase = "edit"
          /\ UNCHANGED writeVars \/ StartReplay
      BY <2>3 DEF ResizeBlank, ShrinkFs, GrowFs, SizeOfFs, TellResize, WillTell, Editing
    <3>2. Usable' /\ Plain' /\ (\E v : Course(v))'
      BY <2>3, ResizeSaved
    <3>3. Writing'
      <4>1. Len(queue') \in Nat
        BY <1>1, EditTyped DEF TypeOK
      <4> QED
        BY <1>3, <1>6, <3>1, <4>1 DEF diskVars
    <3> QED
      BY <1>2, <3>1, <3>2, <3>3 DEF Outcome, diskVars
  <2> QED
    BY <1>8, <2>1, <2>2, <2>3 DEF EditSlot
<1> QED
  BY <1>4, <1>5, <1>7, <1>8

LEMMA NextSaved ==
  SaveInv /\ [Next /\ NoTinyHole /\ Orderly]_vars => SaveInv' /\ (Outcome \/ UNCHANGED vars)
<1> SUFFICES ASSUME SaveInv, [Next /\ NoTinyHole /\ Orderly]_vars
             PROVE  SaveInv' /\ (Outcome \/ UNCHANGED vars)
  OBVIOUS
<1>1. CASE UNCHANGED vars
  <2>1. PICK v : Course(v)
    BY DEF SaveInv
  <2>2. (\E u : Course(u))'
    BY <1>1, <2>1 DEF Course, vars, memVars, diskVars, writeVars
  <2>3. ApartInv'
    BY <1>1, NextTyped DEF SaveInv, ApartInv, NoOverlap, GrowthPending, vars, memVars, growVars, writeVars
  <2> QED
    BY <1>1, <2>2, <2>3 DEF SaveInv, CleanIsEmpty, Usable, Writing, BlankMedium, Plain, vars,
                            memVars, diskVars, writeVars
<1> SUFFICES ASSUME Next, NoTinyHole, Orderly
             PROVE  SaveInv' /\ Outcome
  BY <1>1
<1>2. ApartInv'
  BY NextApart DEF SaveInv
<1>3. CASE Create \/ ClearAll \/ StartWrite \/ \E n \in Nums : EditSlot(n)
  <2>1. CleanIsEmpty'
    BY <1>3 DEF SaveInv, CleanIsEmpty, Create, CreateIn, ClearAll, StartWrite, EditSlot, Delete, Type,
         ResizeBlank, ShrinkFs, GrowFs, SizeOfFs, TellResize, Mount, Unmount, Format,
         WillTell, memVars
  <2>2. UNCHANGED diskVars
    BY <1>3 DEF Create, CreateIn, ClearAll, StartWrite, EditSlot, Delete, Type,
         ResizeBlank, ShrinkFs, GrowFs, Mount, Unmount, Format
  <2> QED
    BY <1>2, <1>3, <2>1, <2>2, EditSaved DEF SaveInv, BlankMedium, diskVars
<1>4. CASE ReplayAdd \/ ReplayDel \/ ReplayInit
  <2>1. UNCHANGED <<memVars, diskVars>>
    BY <1>4 DEF ReplayAdd, ReplayDel, ReplayInit, WriteGoesOn
  <2> QED
    BY <1>2, <1>4, <2>1, ReplaySaved
       DEF SaveInv, CleanIsEmpty, BlankMedium, Outcome, memVars, diskVars
<1>5. CASE ReplayFails \/ CommitFails \/ TellKernel \/ FsResized \/ FsResizeFails
  <2>1. UNCHANGED <<slots, disk, queue, isDirty, label>> /\ phase' # "replay"
    BY <1>5, WriteQuiet
  <2>2. Usable' /\ Plain' /\ (\E u : Course(u))'
    BY <2>1, QuietSaved
  <2> QED
    BY <1>2, <2>1, <2>2 DEF SaveInv, CleanIsEmpty, Writing, BlankMedium, Outcome
<1>6. CASE Commit
  <2>1. CleanIsEmpty'
    BY <1>6 DEF Commit, CleanIsEmpty
  <2> QED
    BY <1>2, <1>6, <2>1, CommitSaved DEF SaveInv, Outcome
<1> QED
  BY <1>3, <1>4, <1>5, <1>6 DEF Next, WriteStep

-----------------------------------------------------------------------------
(* The theorems. *)

LEMMA SaveInvHolds == OrderlySpec => []SaveInv
  BY InitSaved, NextSaved, PTL DEF OrderlySpec

(* With nothing to save the course is a single layout.                     *)
LEMMA CleanCourse ==
  ASSUME SaveInv, ~isDirty PROVE LayoutOf(slots) = LayoutOf(disk)
<1>1. PICK v : Course(v)
  BY DEF SaveInv
<1>2. Len(queue) = 0
  BY DEF SaveInv, CleanIsEmpty
<1> QED
  BY <1>1, <1>2 DEF Course

(* A disk that is used in order is edited as the module says.              *)
LEMMA OrderlyIsSpec == OrderlySpec => Spec
<1>1. [Next /\ NoTinyHole /\ Orderly]_vars => [Next]_vars
  OBVIOUS
<1> QED
  BY <1>1, PTL DEF OrderlySpec, Spec

(* Every use of a medium with a GPT on which nothing is resized is in      *)
(* order, so that all the theorems below hold of it.                       *)
THEOREM UnresizedIsOrderly ==
  ASSUME "resize" \notin Operations, Labels \subseteq {"gpt"}
  PROVE  Spec /\ []NoTinyHole => OrderlySpec
<1> DEFINE Kept == growing = 0 /\ label = "gpt"
<1>1. Init => Kept
  BY DEF Init
<1>2. \A n \in Nums : ~ResizeBlank(n) /\ ~ShrinkFs(n) /\ ~GrowFs(n)
  BY DEF ResizeBlank, ShrinkFs, GrowFs, SizeOfFs
<1>3. Kept /\ [Next]_vars => Kept'
  BY <1>2 DEF vars, growVars, diskVars, Next, Create, CreateIn, ClearAll, StartWrite, WriteStep, ReplayAdd,
     ReplayDel, ReplayInit, WriteGoesOn, ReplayFails, CommitFails, Commit, TellKernel, FsResized,
     FsResizeFails, SizeRestored, EditSlot, Delete, Type, Mount, Unmount, Format
<1>4. Kept /\ NoTinyHole /\ [Next]_vars => [Next /\ NoTinyHole /\ Orderly]_vars
  BY <1>2 DEF Orderly
<1> QED
  BY <1>1, <1>3, <1>4, PTL DEF Spec, OrderlySpec

(* A table that is not dirty is the one on the medium, with the same       *)
(* numbers, through deletes, resizes and writes that fail.                 *)
THEOREM CleanIsWritten == OrderlySpec => []CleanMeansWritten
<1>1. SaveInv => CleanMeansWritten
  BY CleanCourse DEF CleanMeansWritten
<1> QED
  BY <1>1, SaveInvHolds, PTL

(* What is formatted or mounted is what the kernel has at that node:       *)
(* nothing is pending, so the medium holds the table in memory, and no     *)
(* reboot is asked for, so the kernel has the table of the medium.         *)
THEOREM RightDeviceHolds == OrderlySpec => RightDevice
<1>1. SaveInv /\ KernelKnowsDisk /\ [Next]_vars =>
        [\A n \in Nums : Format(n) \/ Mount(n) => kernel[n] = ExtentOf(slots[n])]_vars
  <2> SUFFICES ASSUME SaveInv, KernelKnowsDisk, NEW n \in Nums, Format(n) \/ Mount(n)
               PROVE  kernel[n] = ExtentOf(slots[n])
    OBVIOUS
  <2>1. ~isDirty /\ ~rebootNeeded
    BY DEF Format, Mount, Written
  <2>2. kernel = LayoutOf(slots)
    BY <2>1, CleanCourse DEF KernelKnowsDisk
  <2> QED
    BY <2>2, LayoutFacts
<1> QED
  BY <1>1, SaveInvHolds, KernelFollows, OrderlyIsSpec, PTL DEF Spec, RightDevice

(* gpt::write can replay all that was queued.                              *)
THEOREM QueueIsReplayable == OrderlySpec => []QueueReplays
<1>1. SaveInv => QueueReplays
  BY CurrentReplays DEF SaveInv, QueueReplays
<1> QED
  BY <1>1, SaveInvHolds, PTL

(* A disk that is used in order is an editor with a save: the medium       *)
(* changes only as a whole, to what the memory table holds.                *)
THEOREM SavesTheTable == OrderlySpec => ImplementsSavedTable
<1>1. Init => Saved!Init
  <2> SUFFICES ASSUME Init PROVE Saved!Init
    OBVIOUS
  <2>1. SaveInv
    BY InitSaved
  <2>2. /\ LayoutOf(slots) \in Layout /\ LayoutOf(disk) \in Layout
        /\ isDirty \in BOOLEAN
    BY <2>1, ExtentTyped DEF SaveInv, ApartInv, TypeOK, Layout
  <2>3. ~isDirty => LayoutOf(slots) = LayoutOf(disk)
    BY <2>1, CleanCourse
  <2> QED
    BY <2>2, <2>3 DEF Saved!Init, Layout
<1>2. SaveInv /\ [Next /\ NoTinyHole /\ Orderly]_vars => [Saved!Next]_(Saved!vars)
  <2>1. Outcome \/ UNCHANGED vars => [Saved!Next]_(Saved!vars)
    BY DEF Outcome, Saved!Next, Saved!Edit, Saved!Save, Saved!vars, Layout, vars, memVars, diskVars
  <2> QED
    BY <2>1, NextSaved
<1> QED
  BY <1>1, <1>2, SaveInvHolds, PTL DEF OrderlySpec, ImplementsSavedTable, Saved!Spec
=============================================================================
