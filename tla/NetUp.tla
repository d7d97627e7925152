-------------------------------- MODULE NetUp --------------------------------
(***************************************************************************)
(* How stage1 brings the network up before a network method:               *)
(* intf_select_and_up of mdk-stage1/network.cpp with wireless.cpp and      *)
(* adsl.cpp, called from the method loop.  Interfaces keep their           *)
(* configuration from one attempt to the next, and so do the name servers  *)
(* and the names, which are variables of the whole program.                *)
(*                                                                         *)
(* Of a value the model keeps whether it is of the configuration at work,  *)
(* or of an old one, or not there.                                         *)
(***************************************************************************)
EXTENDS Integers, Sequences, FiniteSets, SequencesExt

CONSTANTS
  Ifs,       \* names of network interfaces
  Wireless,  \* those of wireless ones
  Worlds     \* the machines, networks and keywords to look at

Protos == {"static", "dhcp", "adsl"}
NoIf   == "none"
Values == {"none", "this", "old"}

(* What does not change: the interfaces in the order they are found, those *)
(* with a link beat, the keywords `interface' and `network', whether       *)
(* whatever is tried succeeds, and what setup_network_interface returns    *)
(* when it did: the code says "error", all its callers wait for "ok".      *)
ASSUME WorldsAssumption ==
  /\ Wireless \subseteq Ifs /\ NoIf \notin Ifs
  /\ \A w \in Worlds :
       /\ w.ifs \in Seq(Ifs) /\ w.ifs # <<>> /\ w.link \subseteq ToSet(w.ifs)
       /\ w.if \in ToSet(w.ifs) \union {"auto", "wired", NoIf} /\ w.net \in Protos
       /\ w.works \in BOOLEAN /\ w.added \in {"error", "ok"}

VARIABLES
  world,
  auto,    \* IS_AUTOMATIC
  fedup,   \* the user cancels every question from now on
  pc,      \* the question asked, or the function that runs
  sel,     \* the selected interface
  choice,  \* the connection type asked for
  proto,   \* boot_proto of each interface
  addr,    \* the address each interface has in the kernel
  dns, dns2,
  named,   \* hostname and domain are known
  resolv,  \* dns and dns2 in resolv.conf
  lo,      \* the loopback interface is up
  saved,   \* boot_proto in the ifcfg of each interface, NoFile without one
  unsaved, \* save_netinfo has failed for the network that is up
  again    \* history: the network was brought up again after a save

NoFile == "none"

lan   == <<dns, dns2>>
files == <<saved, unsaved, again>>
vars  == <<world, auto, fedup, pc, sel, choice, proto, addr, lan, named, resolv, lo, files>>

Init ==
  /\ world \in Worlds /\ auto \in BOOLEAN /\ fedup = FALSE /\ pc = "method"
  /\ sel = NoIf /\ choice = "static"
  /\ proto = [i \in Ifs |-> "static"] /\ addr = [i \in Ifs |-> "none"]
  /\ dns = "none" /\ dns2 = "none" /\ named = FALSE
  /\ resolv = <<"none", "none">> /\ lo = FALSE
  /\ saved = [i \in Ifs |-> NoFile] /\ unsaved = FALSE /\ again = FALSE

(* A new configuration begins: what is there becomes old. *)
Old(v) == IF v = "this" THEN "old" ELSE v
Begin(a) == /\ addr' = [i \in Ifs |-> IF i = sel THEN a ELSE Old(addr[i])]
            /\ resolv' = <<Old(resolv[1]), Old(resolv[2])>>

(* Return to method_select_and_prepare; an error message first, which      *)
(* leaves the automatic mode, or not.                                      *)
Forget   == sel' = NoIf /\ choice' = "static"
Leave    == pc' = "method" /\ auto' = auto /\ Forget
LeaveMsg == pc' = "method" /\ auto' = FALSE /\ ~world.works /\ Forget

-----------------------------------------------------------------------------
(* The method is a network one. *)
SelectMethod ==
  /\ pc = "method" /\ ~fedup
  /\ pc' = "interface"
  /\ UNCHANGED <<auto, fedup, sel, choice, proto, addr, lan, named, resolv, lo, files>>

(* auto_select_up_intf asks whether the first interface is wireless, for   *)
(* each of them.                                                           *)
Usable(i) == world.if = "auto" \/ Head(world.ifs) \notin Wireless
UpIntf ==
  LET up == {k \in DOMAIN world.ifs : Usable(world.ifs[k]) /\ world.ifs[k] \in world.link}
  IN  IF up # {} THEN world.ifs[CHOOSE k \in up : \A j \in up : k <= j]
      ELSE IF world.if = "wired" /\ Head(world.ifs) \notin Wireless THEN Head(world.ifs) ELSE NoIf

(* Wrong: the keyword is taken for a name, whatever it says. *)
KnownAsGiven ==
  IF Len(world.ifs) = 1 THEN Head(world.ifs) ELSE IF auto THEN world.if ELSE NoIf

(* interface_select answers by itself: a single interface, or the keyword. *)
Known ==
  IF Len(world.ifs) = 1 THEN Head(world.ifs)
  ELSE IF ~auto THEN NoIf
  ELSE IF world.if \in {"auto", "wired"} THEN UpIntf ELSE world.if

SelectInterface ==
  /\ pc = "interface"
  /\ IF Known # NoIf THEN sel' = Known /\ auto' = auto
                     ELSE sel' \in ToSet(world.ifs) /\ auto' = FALSE /\ ~fedup
  /\ pc' = "wireless"
  /\ UNCHANGED <<fedup, choice, proto, addr, lan, named, resolv, lo, files>>

CancelInterface ==
  /\ pc = "interface" /\ Known = NoIf
  /\ pc' = "method" /\ auto' = FALSE /\ Forget
  /\ UNCHANGED <<fedup, proto, addr, lan, named, resolv, lo, files>>

(* bringup_networking: configure_wireless again and again until it works,  *)
(* or is cancelled.                                                        *)
ConfigureWireless ==
  /\ pc = "wireless"
  /\ sel \in Wireless => auto \/ ~fedup
  /\ pc' = "network"
  /\ UNCHANGED <<auto, fedup, sel, choice, proto, addr, lan, named, resolv, lo, files>>

WirelessFails ==
  /\ pc = "wireless" /\ sel \in Wireless /\ ~world.works /\ (auto \/ ~fedup)
  /\ auto' = FALSE
  /\ UNCHANGED <<fedup, pc, sel, choice, proto, addr, lan, named, resolv, lo, files>>

CancelWireless ==
  /\ pc = "wireless" /\ sel \in Wireless /\ ~auto
  /\ Leave
  /\ UNCHANGED <<fedup, proto, addr, lan, named, resolv, lo, files>>

-----------------------------------------------------------------------------
(* setup_network_interface *)

SelectNetwork(p) ==
  /\ pc = "network"
  /\ IF auto THEN p = world.net ELSE ~fedup
  /\ choice' = p /\ pc' = p
  /\ UNCHANGED <<auto, fedup, sel, proto, addr, lan, named, resolv, lo, files>>

CancelNetwork ==
  /\ pc = "network" /\ ~auto
  /\ Leave
  /\ UNCHANGED <<fedup, proto, addr, lan, named, resolv, lo, files>>

(* Static: the name server is the one answered, or none; the second is not *)
(* asked for.  An error in the netmask comes after them.                   *)
StaticAnswers == /\ dns' \in {"none", "this"}
                 /\ dns2' = Old(dns2) /\ Begin(Old(addr[sel]))

Static ==
  /\ pc = "static" /\ (auto \/ ~fedup)
  /\ StaticAnswers
  /\ proto' = [proto EXCEPT ![sel] = "static"]
  /\ pc' = "configure"
  /\ UNCHANGED <<auto, fedup, sel, choice, named, lo, files>>

BadStatic ==
  /\ pc = "static" /\ (auto \/ ~fedup) /\ ~world.works
  /\ \/ UNCHANGED <<addr, lan, resolv>>
     \/ StaticAnswers
  /\ pc' = "network" /\ auto' = FALSE
  /\ UNCHANGED <<fedup, sel, choice, proto, named, lo, files>>

CancelStatic ==
  /\ pc = "static" /\ ~auto
  /\ pc' = "network"
  /\ UNCHANGED <<auto, fedup, sel, choice, proto, addr, lan, named, resolv, lo, files>>

(* DHCP: the interface loses its address; of the answer (module Dhcp) the  *)
(* options that are there replace what was known.  Some failures come      *)
(* without a message.                                                      *)
DhcpAnswers ==
  /\ Begin("none")
  /\ dns' \in {Old(dns), "this"}
  /\ dns2' \in {Old(dns2)} \union ({"this"} \intersect {dns'})

(* Wrong: boot_proto is not set. *)
DhcpKeepsProto ==
  /\ pc = "dhcp"
  /\ DhcpAnswers
  /\ pc' = "configure"
  /\ UNCHANGED <<auto, fedup, sel, choice, proto, named, lo, files>>

DhcpOk ==
  /\ pc = "dhcp"
  /\ DhcpAnswers
  /\ proto' = [proto EXCEPT ![sel] = "dhcp"]
  /\ pc' = "configure"
  /\ UNCHANGED <<auto, fedup, sel, choice, named, lo, files>>

DhcpFails ==
  /\ pc = "dhcp" /\ ~world.works
  /\ addr' = [addr EXCEPT ![sel] = "none"]
  /\ Leave \/ LeaveMsg
  /\ UNCHANGED <<fedup, proto, lan, named, resolv, lo, files>>

(* configure_net_device: each of its ioctl may fail. *)
Configure ==
  /\ pc = "configure"
  /\ addr' = [addr EXCEPT ![sel] = "this"]
  /\ pc' = "route"
  /\ UNCHANGED <<auto, fedup, sel, choice, proto, lan, named, resolv, lo, files>>

ConfigureFails ==
  /\ pc \in {"configure", "adsl"}
  /\ LeaveMsg
  /\ addr' \in {addr, [addr EXCEPT ![sel] = "none"]}
  /\ UNCHANGED <<fedup, proto, lan, named, resolv, lo, files>>

(* perform_adsl: a private address, then the account, then pppd, twice.    *)
StartAdsl ==
  /\ pc = "adsl"
  /\ Begin("this")
  /\ dns' = Old(dns) /\ dns2' = Old(dns2)
  /\ pc' = "account"
  /\ UNCHANGED <<auto, fedup, sel, choice, proto, named, lo, files>>

Adsl ==
  /\ pc = "account" /\ (auto \/ ~fedup)
  /\ proto' = [proto EXCEPT ![sel] = "adsl"]
  /\ \/ pc' = "route" /\ auto' = auto
     \/ pc' = "adsl" /\ auto' = FALSE /\ ~world.works
  /\ UNCHANGED <<fedup, sel, choice, addr, lan, named, resolv, lo, files>>

(* Wrong: cancelled, it asks again. *)
AccountAgain ==
  /\ pc = "account" /\ ~auto
  /\ pc' = "adsl"
  /\ UNCHANGED <<auto, fedup, sel, choice, proto, addr, lan, named, resolv, lo, files>>

CancelAdsl ==
  /\ pc = "account" /\ ~auto
  /\ pc' = "network"
  /\ UNCHANGED <<auto, fedup, sel, choice, proto, addr, lan, named, resolv, lo, files>>

(* add_default_route: nothing to add, or added, or an error. *)
AddRoute ==
  /\ pc = "route"
  /\ IF world.added = "ok" THEN pc' = "resolv" /\ UNCHANGED <<auto, sel, choice>> ELSE Leave
  /\ UNCHANGED <<fedup, proto, addr, lan, named, resolv, lo, files>>

RouteFails ==
  /\ pc = "route"
  /\ LeaveMsg
  /\ UNCHANGED <<fedup, proto, addr, lan, named, resolv, lo, files>>

-----------------------------------------------------------------------------
(* The rest of bringup_networking. *)

Resolv == IF dns = "none" THEN resolv ELSE <<dns, dns2>>

WriteResolvconf ==
  /\ pc = "resolv"
  /\ resolv' = Resolv
  /\ pc' = "names"
  /\ UNCHANGED <<auto, fedup, sel, choice, proto, addr, lan, named, lo, files>>

(* configure_network: the names are known, found, or asked for; then       *)
(* resolv.conf has the domain too.                                         *)
ConfigureNetwork ==
  /\ pc = "names"
  /\ named' \in {named, TRUE}
  /\ resolv' = Resolv
  /\ pc' = "loopback"
  /\ UNCHANGED <<auto, fedup, sel, choice, proto, addr, lan, lo, files>>

CancelNames ==
  /\ pc = "names" /\ ~named /\ ~auto
  /\ pc' = "wireless"
  /\ UNCHANGED <<auto, fedup, sel, choice, proto, addr, lan, named, resolv, lo, files>>

(* save_netinfo writes the ifcfg of the interface and leaves those of      *)
(* others as they are.  That it fails goes unnoticed.                      *)
SaveNetinfo ==
  \/ saved' = [saved EXCEPT ![sel] = proto[sel]] /\ unsaved' = FALSE
  \/ saved' = saved /\ unsaved' = TRUE /\ ~world.works

(* The network is up. *)
Loopback ==
  /\ pc = "loopback"
  /\ lo' = TRUE /\ pc' = "server"
  /\ SaveNetinfo
  /\ UNCHANGED <<auto, fedup, sel, choice, proto, addr, lan, named, resolv, again>>

LoopbackFails ==
  /\ pc = "loopback" /\ ~lo
  /\ LeaveMsg
  /\ UNCHANGED <<fedup, proto, addr, lan, named, resolv, lo, files>>

(* The method asks for its server; cancelled, it brings the network up     *)
(* again.                                                                  *)
Server ==
  /\ pc = "server" /\ (auto \/ ~fedup)
  /\ pc' = "done"
  /\ UNCHANGED <<auto, fedup, sel, choice, proto, addr, lan, named, resolv, lo, files>>

CancelServer ==
  /\ pc = "server" /\ ~auto
  /\ pc' = "interface" /\ again' = TRUE /\ unsaved' = FALSE /\ Forget
  /\ UNCHANGED <<auto, fedup, proto, addr, lan, named, resolv, lo, saved>>

-----------------------------------------------------------------------------
(* The user has had enough. *)
FedUp ==
  /\ ~world.works /\ ~auto /\ pc \notin {"method", "done"}
  /\ fedup' = TRUE
  /\ UNCHANGED <<auto, pc, sel, choice, proto, addr, lan, named, resolv, lo, files>>

Cancel == \/ CancelInterface \/ CancelWireless \/ CancelNetwork \/ CancelStatic \/ CancelAdsl
          \/ CancelNames \/ CancelServer

Setup == \/ (\E p \in Protos : SelectNetwork(p)) \/ Static \/ BadStatic \/ DhcpOk \/ DhcpFails
         \/ Configure \/ ConfigureFails \/ StartAdsl \/ Adsl \/ AddRoute \/ RouteFails

Bringup == \/ SelectInterface \/ ConfigureWireless \/ WirelessFails \/ WriteResolvconf
           \/ ConfigureNetwork \/ Loopback \/ LoopbackFails \/ Server

Next == /\ SelectMethod \/ Setup \/ Bringup \/ (~world.works /\ Cancel) \/ FedUp
        /\ UNCHANGED world

Spec == Init /\ [][Next]_vars

(* The code goes on by itself, and a question is answered or cancelled.    *)
FairSpec == Spec /\ WF_vars(UNCHANGED world /\ SelectMethod)
            /\ WF_vars(UNCHANGED world /\ (Setup \/ Bringup \/ (~world.works /\ Cancel)))

-----------------------------------------------------------------------------
(* Properties. *)

(* The state of each variable. *)
TypeOK ==
  /\ world \in Worlds /\ {auto, fedup, named, lo} \subseteq BOOLEAN
  /\ pc \in {"method", "interface", "wireless", "network", "static", "dhcp", "adsl", "account",
             "configure", "route", "resolv", "names", "loopback", "server", "done"}
  /\ sel \in Ifs \union {NoIf} /\ choice \in Protos
  /\ proto \in [Ifs -> Protos] /\ addr \in [Ifs -> Values]
  /\ {dns, dns2, resolv[1], resolv[2]} \subseteq Values
  /\ saved \in [Ifs -> Protos \union {NoFile}] /\ {unsaved, again} \subseteq BOOLEAN

(* Once an interface is configured it is the selected one, with the        *)
(* connection type that was asked for last, whatever was tried before on   *)
(* any interface; when the method goes on, resolv.conf has the name server *)
(* that is known.  Its ifcfg says so too, if it could be written, and      *)
(* those of other interfaces, which are not removed, are there only when   *)
(* the network was up already and is brought up again.                     *)
Configured == {"route", "resolv", "names", "loopback", "server", "done"}

SavedIsUsed ==
  /\ pc \in Configured => proto[sel] = choice /\ addr[sel] = "this"
  /\ pc \in {"server", "done"} =>
       /\ lo /\ (dns # "none" => resolv = <<dns, dns2>>)
       /\ ~unsaved => saved[sel] = choice
       /\ ~again => \A i \in Ifs \ {sel} : saved[i] = NoFile

(* A user who cancels everything gets back to the choice of the method:    *)
(* none of the loops, of wireless, connection type, ADSL account or server *)
(* holds him.                                                              *)
CancelLeadsOut == fedup ~> pc = "method"

(* An automatic network installation where nothing fails gets done, and    *)
(* without a question.                                                     *)
AutomaticInstalls == auto /\ world.works ~> auto /\ pc = "done"
=============================================================================
