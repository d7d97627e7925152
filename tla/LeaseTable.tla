----------------------------- MODULE LeaseTable -----------------------------
(***************************************************************************)
(* What DHCP promises to the machines of one network: an address is given  *)
(* to one machine, and a machine only uses an address it was given.        *)
(***************************************************************************)

CONSTANTS Clients, Addrs, NoOne

VARIABLES
  holder,  \* the machine each address is given to
  uses     \* the address each machine has configured

lvars == <<holder, uses>>

LInit == /\ holder = [a \in Addrs |-> NoOne]
         /\ uses = [c \in Clients |-> NoOne]

Give(c, a) == /\ holder[a] = NoOne
              /\ holder' = [holder EXCEPT ![a] = c]
              /\ UNCHANGED uses

Use(c, a) == /\ holder[a] = c /\ uses[c] = NoOne
             /\ uses' = [uses EXCEPT ![c] = a]
             /\ UNCHANGED holder

Stop(c) == /\ uses[c] # NoOne
           /\ uses' = [uses EXCEPT ![c] = NoOne]
           /\ UNCHANGED holder

LNext == \E c \in Clients : Stop(c) \/ \E a \in Addrs : Give(c, a) \/ Use(c, a)

LeaseSpec == LInit /\ [][LNext]_lvars
=============================================================================
