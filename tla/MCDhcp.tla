------------------------------- MODULE MCDhcp -------------------------------
(* An instance of Dhcp: two servers, one of which forgets the lease time,  *)
(* a machine that asks twice and one that asks once.                       *)
EXTENDS Dhcp, TLC

CONSTANTS c1, c2, s1, s2, a1, a2

OneEach   == s1 :> {a1} @@ s2 :> {a2}
TwoAndOne == c1 :> 2 @@ c2 :> 1
=============================================================================
