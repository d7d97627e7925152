---------------------------- MODULE Reboot_proofs ----------------------------
(***************************************************************************)
(* For any number of file systems, however they lie on each other:         *)
(* unmount_filesystems (module Reboot) leaves mounted what has to stay     *)
(* mounted and nothing else.  No induction over the file systems is        *)
(* needed: what has to stay is the largest set that supports itself.       *)
(***************************************************************************)
EXTENDS Reboot, FiniteSetTheorems, TLAPS

(* Why k cannot be unmounted, once the loop devices without a file system  *)
(* are freed.                                                              *)
Reason(k) ==
  \/ k \in held
  \/ \E j \in mounted : on[j] = k \/ file[j] = k
  \/ \E j \in far : file[j] = k

(* A pass in which nothing has moved yet has shown why, line by line.      *)
Tried ==
  /\ nb = 0 => \A k \in Listed \cap mounted : k < i => Reason(k)
  /\ pc # "try" => Supported(mounted)

(* What supports itself is never unmounted.                                *)
Stuck == \A S \in SUBSET FS : Supported(S) => S \subseteq mounted

IInv == TypeOK /\ Tried /\ Stuck

(* The set that a step is told it may unmount from is the same before and  *)
(* after.                                                                  *)
LEMMA SupportedSame ==
  ASSUME UNCHANGED table, NEW S
  PROVE  Supported(S)' <=> Supported(S)
  BY DEF table, Supported, Listed

(* Init establishes the type invariant.                                    *)
LEMMA InitType == Init => TypeOK
  BY SizesAssumption DEF Init, TypeOK, FS

(* Every step keeps it.                                                    *)
LEMMA TypeStep == TypeOK /\ [Next]_vars => TypeOK'
<1> SUFFICES ASSUME TypeOK, [Next]_vars PROVE TypeOK'
  OBVIOUS
<1> USE SizesAssumption
<1>1. CASE Umount
  <2>1. DelLoops \subseteq attached /\ \A k \in attached : k \in mounted \union far => k \in DelLoops
    BY DEF DelLoops
  <2>2. i \in FS /\ nb + 1 \in 0 .. N /\ nb + 1 < i + 1 /\ i + 1 \in 1 .. N + 1
    BY <1>1 DEF Umount, Listed, FS, TypeOK
  <2> QED
    BY <1>1, <2>1, <2>2 DEF Umount, TypeOK, table, FS
<1>2. CASE UmountFails
  <2>1. DelLoops \subseteq attached /\ \A k \in attached : k \in mounted \union far => k \in DelLoops
    BY DEF DelLoops
  <2>2. i \in FS /\ nb < i + 1 /\ i + 1 \in 1 .. N + 1
    BY <1>2 DEF UmountFails, Listed, FS, TypeOK
  <2> QED
    BY <1>2, <2>1, <2>2 DEF UmountFails, TypeOK, table, FS
<1>3. CASE NotListed
  <2>1. i \in FS /\ nb < i + 1 /\ i + 1 \in 1 .. N + 1
    BY <1>3 DEF NotListed, FS, TypeOK
  <2> QED
    BY <1>3, <2>1 DEF NotListed, TypeOK, table, FS
<1>4. CASE EndOfPass
  <2>1. CASE nb # 0
    BY <1>4, <2>1 DEF EndOfPass, TypeOK, table, FS
  <2>2. CASE nb = 0
    <3>1. Left \in {"safe", "failed"}
      BY DEF Left
    <3> QED
      BY <1>4, <2>2, <3>1 DEF EndOfPass, TypeOK, table, FS
  <2> QED
    BY <2>1, <2>2
<1>5. CASE UNCHANGED vars
  BY <1>5 DEF vars, TypeOK, table, FS
<1> QED
  BY <1>1, <1>2, <1>3, <1>4, <1>5 DEF Next

(* The variables of every reachable state have their types, no more is     *)
(* unmounted in a pass than was tried, and a mounted file system keeps its *)
(* loop device.                                                            *)
THEOREM TypeCorrect == Spec => []TypeOK
  BY InitType, TypeStep, PTL DEF Spec

(* Init establishes the rest: everything is mounted and nothing tried.     *)
LEMMA InitInv == Init => Tried /\ Stuck
<1> SUFFICES ASSUME Init PROVE Tried /\ Stuck
  OBVIOUS
<1>1. Tried
  <2>1. \A k \in Listed \cap mounted : k >= i
    BY SizesAssumption DEF Init, Listed, FS
  <2> QED
    BY <2>1, SizesAssumption DEF Init, Tried, Listed, FS
<1>2. Stuck
  BY DEF Init, Stuck
<1> QED
  BY <1>1, <1>2

(* umount fails for a reason: a loop device that is left after del_loops   *)
(* has a mounted file system, or is out of reach.                          *)
LEMMA BusyHasReason ==
  ASSUME TypeOK, NEW k \in FS, Busy(k, DelLoops)
  PROVE  Reason(k)
  BY DEF Busy, DelLoops, Reason

(* What is in a set that supports itself is busy as long as the set is     *)
(* mounted.                                                                *)
LEMMA StuckIsBusy ==
  ASSUME TypeOK, NEW S \in SUBSET mounted, Supported(S), NEW k \in S \cap Listed
  PROVE  Busy(k, DelLoops)
<1>1. k \in FS /\ k # 0
  BY DEF Listed, FS
<1>2. CASE k \in held
  BY <1>2 DEF Busy
<1>3. CASE \E j \in S : on[j] = k \/ file[j] = k
  BY <1>1, <1>3 DEF Busy, DelLoops, TypeOK
<1>4. CASE \E j \in far : file[j] = k
  BY <1>1, <1>4 DEF Busy, DelLoops, TypeOK
<1> QED
  BY <1>2, <1>3, <1>4 DEF Supported

(* Every step keeps the invariant.                                         *)
LEMMA InvStep == TypeOK /\ Tried /\ Stuck /\ [Next]_vars => Tried' /\ Stuck'
<1> SUFFICES ASSUME TypeOK, Tried, Stuck, [Next]_vars PROVE Tried' /\ Stuck'
  OBVIOUS
<1> USE SizesAssumption
<1>1. CASE Umount
  <2>1. UNCHANGED table /\ mounted' = mounted \ {i} /\ nb' # 0 /\ pc' = "try"
    BY <1>1 DEF Umount, TypeOK
  <2>2. Tried'
    BY <2>1 DEF Tried
  <2>3. ASSUME NEW S \in SUBSET FS, Supported(S) PROVE S \subseteq mounted'
    <3>1. S \in SUBSET mounted
      BY <2>3 DEF Stuck
    <3>2. i \notin S
      BY <1>1, <2>3, <3>1, StuckIsBusy DEF Umount
    <3> QED
      BY <2>1, <3>1, <3>2
  <2>4. Stuck'
    BY <2>1, <2>3, SupportedSame DEF Stuck, FS
  <2> QED
    BY <2>2, <2>4
<1>2. CASE UmountFails
  <2>1. UNCHANGED <<table, mounted, nb, pc>> /\ i' = i + 1 /\ i \in Int /\ pc = "try"
    BY <1>2 DEF UmountFails, TypeOK
  <2>2. i \in Listed \cap mounted => Reason(i)
    BY <1>2, BusyHasReason DEF UmountFails, Listed
  <2>3. Tried'
    <3>1. ASSUME nb = 0, NEW k \in Listed \cap mounted, k < i + 1 PROVE Reason(k)
      <4>1. k \in Int
        BY DEF Listed, FS
      <4>2. CASE k = i
        BY <2>2, <4>2
      <4>3. CASE k < i
        BY <3>1, <4>3 DEF Tried
      <4> QED
        BY <2>1, <3>1, <4>1, <4>2, <4>3
    <3> QED
      BY <2>1, <3>1 DEF Tried, Reason, Listed, table
  <2> QED
    BY <2>1, <2>3, SupportedSame DEF Stuck, FS
<1>3. CASE NotListed
  <2>1. UNCHANGED <<table, mounted, nb, pc>> /\ i' = i + 1 /\ i \in Int \ Listed /\ pc = "try"
    BY <1>3 DEF NotListed, TypeOK
  <2>2. ASSUME nb = 0, NEW k \in Listed \cap mounted, k < i + 1 PROVE Reason(k)
    <3>1. k \in Int /\ k # i
      BY <2>1 DEF Listed, FS
    <3> QED
      BY <2>1, <2>2, <3>1 DEF Tried
  <2>3. Tried'
    BY <2>1, <2>2 DEF Tried, Reason, Listed, table
  <2> QED
    BY <2>1, <2>3, SupportedSame DEF Stuck, FS
<1>4. CASE EndOfPass
  <2>1. UNCHANGED <<table, mounted>>
    BY <1>4 DEF EndOfPass
  <2>2. Stuck'
    BY <2>1, SupportedSame DEF Stuck, FS
  <2>3. CASE nb # 0
    <3>1. i' = 1 /\ nb' = 0 /\ pc' = "try"
      BY <1>4, <2>3 DEF EndOfPass
    <3>2. \A k \in Listed : ~(k < 1)
      BY DEF Listed, FS
    <3>3. Listed' = Listed
      BY <2>1 DEF Listed, FS, table
    <3> QED
      BY <2>2, <3>1, <3>2, <3>3 DEF Tried
  <2>4. CASE nb = 0
    <3>1. i' = N + 1 /\ nb' = 0 /\ i = N + 1
      BY <1>4, <2>4 DEF EndOfPass
    <3>2. \A k \in Listed \cap mounted : Reason(k)
      BY <2>4, <3>1 DEF Tried, Listed, FS
    <3>3. Supported(mounted)
      BY <3>2 DEF Supported, Reason
    <3>4. Supported(mounted)'
      BY <2>1, <3>3 DEF Supported, Listed, FS, table
    <3>5. \A k \in (Listed \cap mounted)' : Reason(k)'
      BY <2>1, <3>2 DEF Reason, Listed, FS, table
    <3> QED
      BY <2>2, <3>4, <3>5 DEF Tried
  <2> QED
    BY <2>3, <2>4
<1>5. CASE UNCHANGED vars
  BY <1>5, SupportedSame DEF vars, table, Tried, Stuck, Reason, Listed, Supported, FS
<1> QED
  BY <1>1, <1>2, <1>3, <1>4, <1>5 DEF Next

(* The invariant holds in every reachable state.                           *)
LEMMA Invariant == Spec => []IInv
<1>1. Init => IInv
  BY InitType, InitInv DEF IInv
<1>2. IInv /\ [Next]_vars => IInv'
  BY TypeStep, InvStep DEF IInv
<1> QED
  BY <1>1, <1>2, PTL DEF Spec

(* However many file systems there are and however they lie on each other, *)
(* when nothing moves any more exactly those are mounted that have to be.  *)
THEOREM OnlyStuckLeftHolds == Spec => []OnlyStuckLeft
<1>1. IInv => OnlyStuckLeft
  BY DEF IInv, Tried, Stuck, OnlyStuckLeft
<1> QED
  BY <1>1, Invariant, PTL

(* What is in use, directly or through what is mounted on it or in a file  *)
(* of it, is mounted at all times.                                         *)
THEOREM StuckStays == Spec => []Stuck
<1>1. IInv => Stuck
  BY DEF IInv
<1> QED
  BY <1>1, Invariant, PTL

(* What is left to do: the file systems that may still be unmounted, a     *)
(* pass more when this one unmounted something, the lines left of this     *)
(* pass, and the end.                                                      *)
Moves     == Cardinality(mounted) + (IF nb = 0 THEN 0 ELSE 1)
LinesLeft == (N + 1 - i) + (IF pc = "try" THEN 1 ELSE 0)
LeftToDo  == (N + 1) * Moves + LinesLeft

(* The file systems mounted are finitely many, and unmounting one leaves   *)
(* one less.                                                               *)
LEMMA MountedCount ==
  ASSUME NEW M \in SUBSET FS
  PROVE  /\ Cardinality(M) \in Nat
         /\ \A k \in M : Cardinality(M \ {k}) = Cardinality(M) - 1
<1>1. IsFiniteSet(FS)
  BY SizesAssumption, FS_Interval DEF FS
<1>2. IsFiniteSet(M)
  BY <1>1, FS_Subset
<1> QED
  BY <1>2, FS_CardinalityType, FS_RemoveElement

(* One move less is worth all the lines of a pass.                         *)
LEMMA MoveIsPass ==
  ASSUME NEW w \in Nat, NEW a \in Nat, NEW b \in Nat
  PROVE  w * a \in Nat /\ (b = a + 1 => w * b = w * a + w)
  OBVIOUS

(* Each step leaves less to do: a line less, or, when a pass is begun      *)
(* again, a move less.                                                     *)
LEMMA StepLeavesLess ==
  ASSUME TypeOK, TypeOK', Next
  PROVE  LeftToDo' \in Nat /\ LeftToDo' < LeftToDo
<1> USE SizesAssumption
<1>1. Moves \in Nat /\ Moves' \in Nat
  BY MountedCount DEF Moves, TypeOK
<1>2. LinesLeft \in Nat /\ LinesLeft' \in Nat
  <2>1. i \in 1 .. N + 1 /\ i' \in 1 .. N + 1
    BY DEF TypeOK
  <2>2. ASSUME NEW k \in 1 .. N + 1, NEW b \in {0, 1} PROVE (N + 1 - k) + b \in Nat
    OBVIOUS
  <2>3. (IF pc = "try" THEN 1 ELSE 0) \in {0, 1} /\ (IF pc' = "try" THEN 1 ELSE 0) \in {0, 1}
    OBVIOUS
  <2> QED
    BY <2>1, <2>2, <2>3 DEF LinesLeft
<1>3. (N + 1) * Moves \in Nat /\ (N + 1) * Moves' \in Nat
  <2>1. N + 1 \in Nat
    OBVIOUS
  <2> QED
    BY <1>1, <2>1, MoveIsPass
<1>4. CASE Moves' = Moves /\ LinesLeft' < LinesLeft
  BY <1>2, <1>3, <1>4 DEF LeftToDo
<1>5. CASE Moves = Moves' + 1 /\ LinesLeft' < LinesLeft + (N + 1)
  <2>1. (N + 1) * Moves = (N + 1) * Moves' + (N + 1)
    BY <1>1, <1>5, MoveIsPass
  <2> QED
    BY <1>2, <1>3, <1>5, <2>1 DEF LeftToDo
<1>6. CASE Umount
  <2>1. Cardinality(mounted') = Cardinality(mounted) - 1 /\ Cardinality(mounted) \in Nat
    BY <1>6, MountedCount DEF Umount, TypeOK
  <2>2. Moves' = Moves \/ Moves = Moves' + 1
    BY <1>6, <2>1 DEF Umount, Moves, TypeOK
  <2>3. LinesLeft' < LinesLeft
    BY <1>6 DEF Umount, LinesLeft, TypeOK
  <2> QED
    BY <1>2, <1>4, <1>5, <2>2, <2>3
<1>7. CASE UmountFails
  BY <1>4, <1>7 DEF UmountFails, Moves, LinesLeft, TypeOK
<1>8. CASE NotListed
  BY <1>4, <1>8 DEF NotListed, Moves, LinesLeft, TypeOK
<1>9. CASE EndOfPass
  <2>1. CASE nb # 0
    <3>1. Moves = Moves' + 1
      BY <1>9, <2>1, MountedCount DEF EndOfPass, Moves, TypeOK
    <3>2. LinesLeft' < LinesLeft + (N + 1)
      BY <1>9, <2>1 DEF EndOfPass, LinesLeft, TypeOK
    <3> QED
      BY <1>5, <3>1, <3>2
  <2>2. CASE nb = 0
    <3>1. Left # "try"
      BY DEF Left
    <3> QED
      BY <1>4, <1>9, <2>2, <3>1 DEF EndOfPass, Moves, LinesLeft, TypeOK
  <2> QED
    BY <2>1, <2>2
<1> QED
  BY <1>6, <1>7, <1>8, <1>9 DEF Next

(* The loop of unmount_filesystems cannot run for ever: each line looked   *)
(* at and each pass brings it nearer to its end, as another pass is only   *)
(* begun after one that unmounted something.                               *)
THEOREM PassesAreBounded == Spec => [][LeftToDo' \in Nat /\ LeftToDo' < LeftToDo]_vars
<1>1. TypeOK /\ TypeOK' /\ [Next]_vars => [LeftToDo' \in Nat /\ LeftToDo' < LeftToDo]_vars
  BY StepLeavesLess
<1> QED
  BY <1>1, TypeCorrect, PTL DEF Spec

=============================================================================
