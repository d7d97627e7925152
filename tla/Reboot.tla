-------------------------------- MODULE Reboot --------------------------------
(***************************************************************************)
(* How stage1 unmounts what is mounted before the machine is switched off: *)
(* unmount_filesystems of mdk-stage1/reboot.cpp.  File systems are         *)
(* mounted on each other and in files of each other through loop devices;  *)
(* the order to unmount them in is not worked out but tried out, "until    *)
(* nothing moves".                                                         *)
(***************************************************************************)
EXTENDS Integers, FiniteSets

CONSTANTS
  N,       \* lines of /proc/mounts
  MaxOdd   \* bound: how many of them have something special

ASSUME SizesAssumption == N \in Nat /\ MaxOdd \in Nat

FS == 1 .. N

VARIABLES
  on, file,  \* the file system a mount point is in, or 0: the root; the one
             \* with the file that is mounted through a loop device, or 0
  ext,       \* the file systems of type ext*
  system,    \* /dev, /sys, /proc, and the ram disk
  misnamed,  \* others with `ram' in the name of their device
  held,      \* what something in the kernel uses
  far,       \* those on a loop device after the eighth
  mounted, attached,  \* the file systems mounted, the loop devices in use,
                      \* each named for the file system on it
  i, nb, pc           \* the loops of unmount_filesystems

table == <<on, file, ext, system, misnamed, held, far>>
vars  == <<table, mounted, attached, i, nb, pc>>

(* A line of /proc/mounts comes after those of what it is mounted on.      *)
Init ==
  /\ ext \in SUBSET FS /\ system \in SUBSET FS /\ misnamed \in SUBSET FS
  /\ held \in SUBSET FS /\ far \in SUBSET FS
  /\ Cardinality(system) + Cardinality(misnamed) + Cardinality(held) + Cardinality(far)
       + Cardinality(FS \ ext) <= MaxOdd
  /\ on \in [FS -> 0 .. N] /\ file \in [FS -> 0 .. N]
  /\ \A k \in FS : on[k] < k /\ file[k] < k
  /\ mounted = FS /\ attached = {k \in FS : file[k] # 0}
  /\ i = 1 /\ nb = 0 /\ pc = "try"

-----------------------------------------------------------------------------
(* What fs[] holds *)
Listed == FS \ (system \union misnamed)

(* del_loops: the kernel frees the loop devices with nothing mounted.      *)
DelLoops == attached \cap (mounted \union far)

(* umount fails: EBUSY.                                                    *)
Busy(k, loops) ==
  k \in held \/ (\E j \in mounted : on[j] = k) \/ (\E j \in loops : file[j] = k)

Umount ==
  /\ pc = "try" /\ i \in Listed \cap mounted /\ ~Busy(i, DelLoops)
  /\ mounted' = mounted \ {i} /\ attached' = DelLoops
  /\ i' = i + 1 /\ nb' = nb + 1
  /\ UNCHANGED <<table, pc>>

UmountFails ==
  /\ pc = "try" /\ i \in Listed
  /\ i \in mounted => Busy(i, DelLoops)
  /\ attached' = DelLoops
  /\ i' = i + 1
  /\ UNCHANGED <<table, mounted, nb, pc>>

(* A line that is not in fs[].                                             *)
NotListed ==
  /\ pc = "try" /\ i \in FS \ Listed
  /\ i' = i + 1
  /\ UNCHANGED <<table, mounted, attached, nb, pc>>

Left == IF Listed \cap mounted \cap ext = {} THEN "safe" ELSE "failed"

(* Wrong: one pass only. *)
OnePass ==
  /\ pc = "try" /\ i = N + 1
  /\ pc' = Left /\ UNCHANGED <<i, nb>>
  /\ UNCHANGED <<table, mounted, attached>>

(* Wrong: the count goes on. *)
CountGoesOn ==
  /\ pc = "try" /\ i = N + 1
  /\ IF nb # 0 THEN i' = 1 /\ UNCHANGED <<nb, pc>>
               ELSE pc' = Left /\ UNCHANGED <<i, nb>>
  /\ UNCHANGED <<table, mounted, attached>>

(* `while (nb)'; then the machine may safely be switched off, or not.      *)
EndOfPass ==
  /\ pc = "try" /\ i = N + 1
  /\ IF nb # 0 THEN i' = 1 /\ nb' = 0 /\ pc' = pc
               ELSE pc' = Left /\ UNCHANGED <<i, nb>>
  /\ UNCHANGED <<table, mounted, attached>>

Next == Umount \/ UmountFails \/ NotListed \/ EndOfPass

Spec == Init /\ [][Next]_vars

-----------------------------------------------------------------------------
(* Properties. *)

(* The state of each variable.  No more is unmounted in a pass than was    *)
(* tried, and a loop device is in use while its file system is mounted, or *)
(* when del_loops does not reach it.                                       *)
TypeOK ==
  /\ on \in [FS -> 0 .. N] /\ file \in [FS -> 0 .. N]
  /\ ext \subseteq FS /\ system \subseteq FS /\ misnamed \subseteq FS
  /\ held \subseteq FS /\ far \subseteq FS
  /\ mounted \subseteq FS /\ attached \subseteq FS
  /\ \A k \in mounted \union far : file[k] # 0 => k \in attached
  /\ i \in 1 .. N + 1 /\ nb \in 0 .. N /\ nb < i
  /\ pc \in {"try", "safe", "failed"}

(* A set of file systems each of which has a reason to stay mounted: it is *)
(* not to be unmounted, it is in use, or another of the set is on it.      *)
Supported(S) ==
  \A k \in S : \/ k \notin Listed \/ k \in held
               \/ \E j \in S : on[j] = k \/ file[j] = k
               \/ \E j \in far : file[j] = k

(* However the file systems lie on each other, and in whatever order they  *)
(* were mounted: when nothing moves any more, what is still mounted is     *)
(* what has to be, all of it and nothing else.                             *)
OnlyStuckLeft ==
  pc # "try" => /\ Supported(mounted)
                /\ \A S \in SUBSET FS : Supported(S) => S \subseteq mounted
=============================================================================
