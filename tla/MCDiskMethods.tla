---------------------------- MODULE MCDiskMethods ----------------------------
(* Instances of DiskMethods: two disks, one with a tree in a directory and *)
(* ISO files beside it, and two drives, of which the first is found on two *)
(* buses: PCMCIA, SCSI and USB all list the SCSI drives known so far.      *)
EXTENDS DiskMethods, TLC

CONSTANTS hda1, hdb5, hdb7, cd1, cd2, root, cooker, iso, broken, other, dvd, hda, hdb

TwoDrives == <<cd1, cd1, cd2>>
ThreePartitions == <<hda1, hdb5, hdb7>>
ThreePartitionsDisks == hda1 :> hda @@ hdb5 :> hdb @@ hdb7 :> hdb
IsoDirs  == iso :> cooker @@ broken :> root @@ other :> cooker @@ dvd :> root
AllPaths == {hda1, hdb5, hdb7} \X {root}
            \union {hdb7} \X {cooker, iso, other} \union {<<hdb5, broken>>, <<hdb5, dvd>>}
TreePaths == {<<hdb7, cooker>>, <<hdb7, iso>>, <<hdb5, root>>, <<hdb5, dvd>>}
BarePaths == {<<hda1, root>>}
=============================================================================
