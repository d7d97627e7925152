----------------------------- MODULE NetUp_proofs -----------------------------
(***************************************************************************)
(* For any interfaces, keywords and networks, and any series of attempts   *)
(* on them: what is configured, and what save_netinfo writes of it, is     *)
(* what was asked for, and whoever cancels is at the choice of the method  *)
(* in ten steps (module NetUp).                                            *)
(***************************************************************************)
EXTENDS NetUp, TLAPS, FiniteSetTheorems, WellFoundedInduction

Chosen  == {"wireless", "network", "static", "dhcp", "adsl", "account", "configure", "route",
            "resolv", "names", "loopback", "server", "done"}

(* How far the set-up has got: which of an interface is selected, of a     *)
(* connection type chosen, recorded in boot_proto, and at work, must be    *)
(* true already at each function.                                          *)
SetUp ==
  /\ pc \in Chosen => sel \in Ifs
  /\ pc \in {"static", "dhcp", "adsl"} => choice = pc
  /\ pc = "account" => choice = "adsl" /\ addr[sel] = "this"
  /\ pc \in {"configure"} \union Configured => proto[sel] = choice
  /\ pc \in Configured => addr[sel] = "this"
  /\ pc \in {"names", "loopback", "server", "done"} => resolv = Resolv
  /\ pc \in {"server", "done"} => lo /\ (~unsaved => saved[sel] = choice)
  /\ again \/ \A i \in Ifs : saved[i] = NoFile \/ (pc \in {"server", "done"} /\ i = sel)

IInv == TypeOK /\ SetUp

(* Every interface found has a name in Ifs, and the first one that is up   *)
(* is one of them.                                                         *)
LEMMA WorldType ==
  ASSUME world \in Worlds
  PROVE  /\ world.ifs \in Seq(Ifs) /\ Head(world.ifs) \in Ifs /\ ToSet(world.ifs) \subseteq Ifs
         /\ world.if \in ToSet(world.ifs) \union {"auto", "wired", NoIf} /\ world.net \in Protos
  BY WorldsAssumption DEF ToSet

(* A set of positions has a first: of the intervals up to its members one  *)
(* is the smallest.                                                        *)
LEMMA FirstExists ==
  ASSUME NEW n \in Nat, NEW T, T \subseteq 1 .. n, T # {}
  PROVE  \E k \in T : \A j \in T : k <= j
<1> DEFINE Below == {1 .. k : k \in T}
<1>1. Below \subseteq FiniteSubsetsOf(1 .. n) /\ Below # {}
  <2>1. \A k \in T : IsFiniteSet(1 .. k)
    BY FS_Interval
  <2>2. \A k \in T : 1 .. k \in SUBSET (1 .. n)
    OBVIOUS
  <2> QED BY <2>1, <2>2 DEF FiniteSubsetsOf
<1>2. PICK B \in Below : \A C \in Below : <<C, B>> \notin StrictSubsetOrdering(1 .. n)
  <2> HIDE DEF Below
  <2>1. IsWellFoundedOn(StrictSubsetOrdering(1 .. n), FiniteSubsetsOf(1 .. n))
    BY FS_StrictSubsetOrderingWellFounded
  <2> QED BY <1>1, <2>1, WFMin
<1>3. PICK k \in T : B = 1 .. k
  OBVIOUS
<1>4. ASSUME NEW j \in T, ~(k <= j)
      PROVE  FALSE
  <2>1. 1 .. j \subseteq 1 .. k /\ k \in 1 .. k /\ k \notin 1 .. j
    BY <1>4
  <2>2. <<1 .. j, B>> \in StrictSubsetOrdering(1 .. n)
    BY <1>3, <2>1 DEF StrictSubsetOrdering
  <2> QED BY <1>2, <2>2
<1> QED BY <1>4
(* interface_select answers with one of the interfaces, or not.            *)
LEMMA KnownType ==
  ASSUME world \in Worlds
  PROVE  Known \in Ifs \union {NoIf}
<1>1. Head(world.ifs) \in Ifs /\ (world.if \in {"auto", "wired"} \/ world.if \in Ifs \union {NoIf})
  BY WorldType DEF ToSet
<1>2. UpIntf \in Ifs \union {NoIf}
  <2> DEFINE up == {k \in DOMAIN world.ifs : Usable(world.ifs[k]) /\ world.ifs[k] \in world.link}
             first == CHOOSE k \in up : \A j \in up : k <= j
  <2>1. ASSUME up # {} PROVE world.ifs[first] \in Ifs
    <3>1. PICK n \in Nat : DOMAIN world.ifs = 1 .. n
      BY WorldType
    <3>2. \E k \in up : \A j \in up : k <= j
      <4> up \subseteq 1 .. n
        BY <3>1
      <4> HIDE DEF up
      <4> QED BY <2>1, FirstExists
    <3>3. first \in up
      <4> HIDE DEF up
      <4> QED BY <3>2
    <3>4. first \in DOMAIN world.ifs
      BY <3>3
    <3> HIDE DEF first
    <3> QED BY <3>1, <3>4, WorldType
  <2> QED BY <1>1, <2>1 DEF UpIntf
<1> QED BY <1>1, <1>2 DEF Known

-----------------------------------------------------------------------------
(* Type correctness                                                        *)

LEMMA InitType == Init => TypeOK
<1> SUFFICES ASSUME Init PROVE TypeOK
  OBVIOUS
<1>1. {auto, fedup, named, lo} \subseteq BOOLEAN
  BY DEF Init
<1> QED BY <1>1 DEF Init, TypeOK, Protos, Values, NoFile

LEMMA OldType == \A v \in Values : Old(v) \in Values
  BY DEF Old, Values

(* What Begin writes has its type.                                         *)
LEMMA BeginType ==
  ASSUME TypeOK, NEW a \in Values, Begin(a)
  PROVE  addr' \in [Ifs -> Values] /\ resolv'[1] \in Values /\ resolv'[2] \in Values
  BY OldType DEF Begin, TypeOK

(* Every step keeps the switches of the set-up Boolean.                    *)
LEMMA SwitchStep == TypeOK /\ [Next]_vars => {auto, fedup, named, lo}' \subseteq BOOLEAN
<1> SUFFICES ASSUME TypeOK, [Next]_vars PROVE {auto, fedup, named, lo}' \subseteq BOOLEAN
  OBVIOUS
<1>1. CASE SelectMethod
  BY <1>1 DEF SelectMethod, TypeOK
<1>2. CASE SelectInterface
  BY <1>2 DEF SelectInterface, TypeOK
<1>3. CASE CancelInterface
  BY <1>3 DEF CancelInterface, Forget, TypeOK
<1>4. CASE ConfigureWireless
  BY <1>4 DEF ConfigureWireless, TypeOK
<1>5. CASE WirelessFails
  BY <1>5 DEF WirelessFails, TypeOK
<1>6. CASE CancelWireless
  BY <1>6 DEF CancelWireless, Leave, Forget, TypeOK
<1>7. ASSUME NEW p \in Protos, SelectNetwork(p)
     PROVE  {auto, fedup, named, lo}' \subseteq BOOLEAN
  BY <1>7 DEF SelectNetwork, TypeOK
<1>8. CASE CancelNetwork
  BY <1>8 DEF CancelNetwork, Leave, Forget, TypeOK
<1>9. CASE Static
  BY <1>9 DEF Static, TypeOK
<1>10. CASE BadStatic
  BY <1>10 DEF BadStatic, TypeOK
<1>11. CASE CancelStatic
  BY <1>11 DEF CancelStatic, TypeOK
<1>12. CASE DhcpOk
  BY <1>12 DEF DhcpOk, TypeOK
<1>13. CASE DhcpFails
  BY <1>13 DEF DhcpFails, Leave, LeaveMsg, Forget, TypeOK
<1>14. CASE Configure
  BY <1>14 DEF Configure, TypeOK
<1>15. CASE ConfigureFails
  BY <1>15 DEF ConfigureFails, LeaveMsg, Forget, TypeOK
<1>16. CASE StartAdsl
  BY <1>16 DEF StartAdsl, TypeOK
<1>17. CASE Adsl
  BY <1>17 DEF Adsl, TypeOK
<1>18. CASE CancelAdsl
  BY <1>18 DEF CancelAdsl, TypeOK
<1>19. CASE AddRoute
  BY <1>19 DEF AddRoute, Leave, Forget, TypeOK
<1>20. CASE RouteFails
  BY <1>20 DEF RouteFails, LeaveMsg, Forget, TypeOK
<1>21. CASE WriteResolvconf
  BY <1>21 DEF WriteResolvconf, TypeOK
<1>22. CASE ConfigureNetwork
  BY <1>22 DEF ConfigureNetwork, TypeOK
<1>23. CASE CancelNames
  BY <1>23 DEF CancelNames, TypeOK
<1>24. CASE Loopback
  BY <1>24 DEF Loopback, SaveNetinfo, TypeOK
<1>25. CASE LoopbackFails
  BY <1>25 DEF LoopbackFails, LeaveMsg, Forget, TypeOK
<1>26. CASE Server
  BY <1>26 DEF Server, TypeOK
<1>27. CASE CancelServer
  BY <1>27 DEF CancelServer, Forget, TypeOK
<1>28. CASE FedUp
  BY <1>28 DEF FedUp, TypeOK
<1>29. CASE UNCHANGED vars
  BY <1>29 DEF vars, lan, files, TypeOK
<1> QED
  BY <1>1, <1>2, <1>3, <1>4, <1>5, <1>6, <1>7, <1>8, <1>9, <1>10, <1>11, <1>12, <1>13, <1>14, <1>15, <1>16, <1>17, <1>18, <1>19, <1>20, <1>21, <1>22, <1>23, <1>24, <1>25, <1>26, <1>27, <1>28, <1>29 DEF Next, Setup, Bringup, Cancel

(* Every step keeps the types.                                             *)
LEMMA TypeStep == TypeOK /\ SetUp /\ [Next]_vars => TypeOK'
<1> SUFFICES ASSUME TypeOK, SetUp, [Next]_vars PROVE TypeOK'
  OBVIOUS
<1>0. pc \in {"static", "loopback"} => sel \in Ifs
  BY DEF SetUp, Chosen
<1> world' = world
  BY DEF Next, vars
<1> {auto, fedup, named, lo}' \subseteq BOOLEAN
  BY SwitchStep
<1>1. CASE SelectMethod
  BY <1>1 DEF SelectMethod, TypeOK, lan, files, Values, Protos
<1>2. CASE SelectInterface
  BY <1>2, KnownType, WorldType DEF SelectInterface, TypeOK, lan, files, Values, Protos
<1>3. CASE CancelInterface
  BY <1>3 DEF CancelInterface, Forget, TypeOK, lan, files, Values, Protos
<1>4. CASE ConfigureWireless
  BY <1>4 DEF ConfigureWireless, TypeOK, lan, files, Values, Protos
<1>5. CASE WirelessFails
  BY <1>5 DEF WirelessFails, TypeOK, lan, files, Values, Protos
<1>6. CASE CancelWireless
  BY <1>6 DEF CancelWireless, Leave, Forget, TypeOK, lan, files, Values, Protos
<1>7. ASSUME NEW p \in Protos, SelectNetwork(p)
     PROVE  TypeOK'
  BY <1>7 DEF SelectNetwork, TypeOK, lan, files, Values, Protos
<1>8. CASE CancelNetwork
  BY <1>8 DEF CancelNetwork, Leave, Forget, TypeOK, lan, files, Values, Protos
<1>9. CASE Static
  <2>1. Old(addr[sel]) \in Values /\ Begin(Old(addr[sel]))
    BY <1>9, <1>0, OldType DEF Static, StaticAnswers, TypeOK
  <2> QED
    BY <1>9, <2>1, BeginType, OldType DEF Static, StaticAnswers, TypeOK, lan, files, Values, Protos
<1>10. CASE BadStatic
  <2>1. Old(addr[sel]) \in Values
    BY <1>10, <1>0, OldType DEF BadStatic, TypeOK
  <2>2. /\ dns' \in Values /\ dns2' \in Values /\ addr' \in [Ifs -> Values]
        /\ resolv'[1] \in Values /\ resolv'[2] \in Values
    BY <1>10, <2>1, BeginType, OldType DEF BadStatic, StaticAnswers, TypeOK, lan, files, Values
  <2> QED
    BY <1>10, <2>2 DEF BadStatic, TypeOK, files
<1>11. CASE CancelStatic
  BY <1>11 DEF CancelStatic, TypeOK, lan, files, Values, Protos
<1>12. CASE DhcpOk
  BY <1>12, BeginType, OldType DEF DhcpOk, DhcpAnswers, TypeOK, lan, files, Values, Protos
<1>13. CASE DhcpFails
  BY <1>13 DEF DhcpFails, Leave, LeaveMsg, Forget, TypeOK, lan, files, Values, Protos
<1>14. CASE Configure
  BY <1>14 DEF Configure, TypeOK, lan, files, Values, Protos
<1>15. CASE ConfigureFails
  BY <1>15 DEF ConfigureFails, LeaveMsg, Forget, TypeOK, lan, files, Values, Protos
<1>16. CASE StartAdsl
  BY <1>16, BeginType, OldType DEF StartAdsl, TypeOK, lan, files, Values, Protos
<1>17. CASE Adsl
  BY <1>17 DEF Adsl, TypeOK, lan, files, Values, Protos
<1>18. CASE CancelAdsl
  BY <1>18 DEF CancelAdsl, TypeOK, lan, files, Values, Protos
<1>19. CASE AddRoute
  BY <1>19 DEF AddRoute, Leave, Forget, TypeOK, lan, files, Values, Protos
<1>20. CASE RouteFails
  BY <1>20 DEF RouteFails, LeaveMsg, Forget, TypeOK, lan, files, Values, Protos
<1>21. CASE WriteResolvconf
  BY <1>21 DEF WriteResolvconf, Resolv, TypeOK, lan, files, Values, Protos
<1>22. CASE ConfigureNetwork
  BY <1>22 DEF ConfigureNetwork, Resolv, TypeOK, lan, files, Values, Protos
<1>23. CASE CancelNames
  BY <1>23 DEF CancelNames, TypeOK, lan, files, Values, Protos
<1>24. CASE Loopback
  <2>1. sel \in Ifs
    BY <1>24, <1>0 DEF Loopback, SaveNetinfo
  <2> QED
    BY <1>24, <2>1 DEF Loopback, SaveNetinfo, TypeOK, lan, files, Values, Protos
<1>25. CASE LoopbackFails
  BY <1>25 DEF LoopbackFails, LeaveMsg, Forget, TypeOK, lan, files, Values, Protos
<1>26. CASE Server
  BY <1>26 DEF Server, TypeOK, lan, files, Values, Protos
<1>27. CASE CancelServer
  BY <1>27 DEF CancelServer, Forget, TypeOK, lan, files, Values, Protos
<1>28. CASE FedUp
  BY <1>28 DEF FedUp, TypeOK, lan, files, Values, Protos
<1>29. CASE UNCHANGED vars
  BY <1>29 DEF vars, lan, files, TypeOK, Values, Protos
<1> QED
  BY <1>1, <1>2, <1>3, <1>4, <1>5, <1>6, <1>7, <1>8, <1>9, <1>10, <1>11, <1>12, <1>13, <1>14, <1>15, <1>16, <1>17, <1>18, <1>19, <1>20, <1>21, <1>22, <1>23, <1>24, <1>25, <1>26, <1>27, <1>28, <1>29 DEF Next, Setup, Bringup, Cancel

-----------------------------------------------------------------------------
(* What is set up                                                          *)

LEMMA InitSetUp == Init => SetUp
  BY DEF Init, SetUp, Chosen, Configured

(* Every step keeps what the function it leads to relies on.               *)
LEMMA SetUpStep == TypeOK /\ SetUp /\ [Next]_vars => SetUp'
<1> SUFFICES ASSUME TypeOK, SetUp, [Next]_vars PROVE SetUp'
  OBVIOUS
<1>1. CASE SelectMethod
  BY <1>1 DEF SelectMethod, TypeOK, SetUp, lan, files, Chosen, Configured, Resolv
<1>2. CASE SelectInterface
  BY <1>2, KnownType, WorldType DEF SelectInterface, TypeOK, SetUp, lan, files, Chosen, Configured, Resolv
<1>3. CASE CancelInterface
  BY <1>3 DEF CancelInterface, Forget, TypeOK, SetUp, lan, files, Chosen, Configured, Resolv
<1>4. CASE ConfigureWireless
  BY <1>4 DEF ConfigureWireless, TypeOK, SetUp, lan, files, Chosen, Configured, Resolv
<1>5. CASE WirelessFails
  BY <1>5 DEF WirelessFails, TypeOK, SetUp, lan, files, Chosen, Configured, Resolv
<1>6. CASE CancelWireless
  BY <1>6 DEF CancelWireless, Leave, Forget, TypeOK, SetUp, lan, files, Chosen, Configured, Resolv
<1>7. ASSUME NEW p \in Protos, SelectNetwork(p)
     PROVE  SetUp'
  BY <1>7 DEF SelectNetwork, TypeOK, SetUp, lan, files, Chosen, Configured, Resolv, Protos
<1>8. CASE CancelNetwork
  BY <1>8 DEF CancelNetwork, Leave, Forget, TypeOK, SetUp, lan, files, Chosen, Configured, Resolv
<1>9. CASE Static
  BY <1>9 DEF Static, StaticAnswers, Begin, TypeOK, SetUp, lan, files, Chosen, Configured, Resolv
<1>10. CASE BadStatic
  BY <1>10 DEF BadStatic, StaticAnswers, Begin, TypeOK, SetUp, lan, files, Chosen, Configured, Resolv
<1>11. CASE CancelStatic
  BY <1>11 DEF CancelStatic, TypeOK, SetUp, lan, files, Chosen, Configured, Resolv
<1>12. CASE DhcpOk
  BY <1>12 DEF DhcpOk, DhcpAnswers, Begin, TypeOK, SetUp, lan, files, Chosen, Configured, Resolv
<1>13. CASE DhcpFails
  BY <1>13 DEF DhcpFails, Leave, LeaveMsg, Forget, TypeOK, SetUp, lan, files, Chosen, Configured, Resolv
<1>14. CASE Configure
  BY <1>14 DEF Configure, TypeOK, SetUp, lan, files, Chosen, Configured, Resolv
<1>15. CASE ConfigureFails
  BY <1>15 DEF ConfigureFails, LeaveMsg, Forget, TypeOK, SetUp, lan, files, Chosen, Configured, Resolv
<1>16. CASE StartAdsl
  BY <1>16 DEF StartAdsl, Begin, TypeOK, SetUp, lan, files, Chosen, Configured, Resolv
<1>17. CASE Adsl
  BY <1>17 DEF Adsl, TypeOK, SetUp, lan, files, Chosen, Configured, Resolv
<1>18. CASE CancelAdsl
  BY <1>18 DEF CancelAdsl, TypeOK, SetUp, lan, files, Chosen, Configured, Resolv
<1>19. CASE AddRoute
  BY <1>19 DEF AddRoute, Leave, Forget, TypeOK, SetUp, lan, files, Chosen, Configured, Resolv
<1>20. CASE RouteFails
  BY <1>20 DEF RouteFails, LeaveMsg, Forget, TypeOK, SetUp, lan, files, Chosen, Configured, Resolv
<1>21. CASE WriteResolvconf
  BY <1>21 DEF WriteResolvconf, TypeOK, SetUp, lan, files, Chosen, Configured, Resolv
<1>22. CASE ConfigureNetwork
  BY <1>22 DEF ConfigureNetwork, TypeOK, SetUp, lan, files, Chosen, Configured, Resolv
<1>23. CASE CancelNames
  BY <1>23 DEF CancelNames, TypeOK, SetUp, lan, files, Chosen, Configured, Resolv
<1>24. CASE Loopback
  BY <1>24 DEF Loopback, SaveNetinfo, TypeOK, SetUp, lan, files, Chosen, Configured, Resolv
<1>25. CASE LoopbackFails
  BY <1>25 DEF LoopbackFails, LeaveMsg, Forget, TypeOK, SetUp, lan, files, Chosen, Configured, Resolv
<1>26. CASE Server
  BY <1>26 DEF Server, TypeOK, SetUp, lan, files, Chosen, Configured, Resolv
<1>27. CASE CancelServer
  BY <1>27 DEF CancelServer, Forget, TypeOK, SetUp, lan, files, Chosen, Configured, Resolv
<1>28. CASE FedUp
  BY <1>28 DEF FedUp, TypeOK, SetUp, lan, files, Chosen, Configured, Resolv
<1>29. CASE UNCHANGED vars
  BY <1>29 DEF vars, lan, files, TypeOK, SetUp, Chosen, Configured, Resolv
<1> QED
  BY <1>1, <1>2, <1>3, <1>4, <1>5, <1>6, <1>7, <1>8, <1>9, <1>10, <1>11, <1>12, <1>13, <1>14, <1>15, <1>16, <1>17, <1>18, <1>19, <1>20, <1>21, <1>22, <1>23, <1>24, <1>25, <1>26, <1>27, <1>28, <1>29 DEF Next, Setup, Bringup, Cancel

LEMMA Invariance == Spec => []IInv
<1>1. Init => IInv
  BY InitType, InitSetUp DEF IInv
<1>2. IInv /\ [Next]_vars => IInv'
  BY TypeStep, SetUpStep DEF IInv
<1> QED
  BY <1>1, <1>2, PTL DEF Spec

(* The state of every variable, for any interfaces, keywords and networks. *)
THEOREM TypeCorrect == Spec => []TypeOK
  BY Invariance, PTL DEF IInv

(* Whatever failed or was given up before, on this interface or another:   *)
(* boot_proto, the address, resolv.conf, and the ifcfg when save_netinfo   *)
(* could write it, are those of the interface and the connection type that *)
(* were chosen last; other interfaces have an ifcfg only after the network *)
(* was brought up again.                                                   *)
THEOREM SavedIsUsedHolds == Spec => []SavedIsUsed
<1>1. IInv => SavedIsUsed
  BY DEF IInv, SetUp, SavedIsUsed, Chosen, Configured, Resolv
<1> QED
  BY <1>1, Invariance, PTL

-----------------------------------------------------------------------------
(* The steps there may still be when the user cancels everything.          *)
StepsOut ==
  [method |-> 0, done |-> 0, network |-> 1, static |-> 2, account |-> 2, wireless |-> 2,
   adsl |-> 3, interface |-> 3, server |-> 4, loopback |-> 5, names |-> 6, resolv |-> 7,
   route |-> 8, configure |-> 9, dhcp |-> 10]

LEMMA StepsOutAre ==
  /\ StepsOut["method"] = 0 /\ StepsOut["done"] = 0 /\ StepsOut["network"] = 1
  /\ StepsOut["static"] = 2 /\ StepsOut["account"] = 2 /\ StepsOut["wireless"] = 2
  /\ StepsOut["adsl"] = 3 /\ StepsOut["interface"] = 3 /\ StepsOut["server"] = 4
  /\ StepsOut["loopback"] = 5 /\ StepsOut["names"] = 6 /\ StepsOut["resolv"] = 7
  /\ StepsOut["route"] = 8 /\ StepsOut["configure"] = 9 /\ StepsOut["dhcp"] = 10
BY DEF StepsOut

(* Who is fed up is asked, as something has failed.                        *)
Asked == fedup => ~auto /\ ~world.works

LEMMA AskedStep == TypeOK /\ Asked /\ [Next]_vars => Asked'
<1> SUFFICES ASSUME TypeOK, Asked, [Next]_vars, fedup' PROVE ~auto' /\ ~world.works'
  BY DEF Asked
<1> USE DEF Asked
<1>1. CASE FedUp /\ UNCHANGED world
  BY <1>1 DEF FedUp
<1>2. CASE (SelectMethod \/ Setup \/ Bringup \/ Cancel) /\ UNCHANGED world
  <2>1. fedup' = fedup
    BY <1>2 DEF SelectMethod, Setup, SelectNetwork, Static, BadStatic, DhcpOk, DhcpFails, Configure,
      ConfigureFails, StartAdsl, Adsl, AddRoute, RouteFails, Bringup, SelectInterface,
      ConfigureWireless, WirelessFails, WriteResolvconf, ConfigureNetwork, Loopback, SaveNetinfo, LoopbackFails,
      Server, Cancel, CancelInterface, CancelWireless, CancelNetwork, CancelStatic, CancelAdsl,
      CancelNames, CancelServer
  <2>2. auto' \in {auto, FALSE}
    BY <1>2 DEF SelectMethod, Setup, SelectNetwork, Static, BadStatic, DhcpOk, DhcpFails, Configure,
      ConfigureFails, StartAdsl, Adsl, AddRoute, RouteFails, Bringup, SelectInterface,
      ConfigureWireless, WirelessFails, WriteResolvconf, ConfigureNetwork, Loopback, SaveNetinfo, LoopbackFails,
      Server, Cancel, CancelInterface, CancelWireless, CancelNetwork, CancelStatic, CancelAdsl,
      CancelNames, CancelServer, Leave, LeaveMsg, Forget
  <2>3. fedup /\ auto \in BOOLEAN
    BY <2>1 DEF TypeOK
  <2>4. ~auto /\ ~world.works
    BY <2>3
  <2>5. auto = FALSE
    BY <2>3, <2>4
  <2>6. auto' = FALSE
    BY <2>2, <2>5
  <2> QED BY <1>2, <2>4, <2>6
<1>3. CASE UNCHANGED vars
  BY <1>3 DEF vars
<1> QED BY <1>1, <1>2, <1>3 DEF Next

LEMMA CancelledStep ==
  ASSUME TypeOK, Asked, Next, fedup, vars' # vars
  PROVE  fedup' /\ StepsOut[pc'] < StepsOut[pc]
<1>1. ~auto /\ fedup
  BY DEF Asked
<1>2. CASE FedUp
  <2>1. fedup = TRUE /\ fedup' = TRUE
    BY <1>2 DEF FedUp, TypeOK
  <2>2. UNCHANGED vars
    BY <1>2, <2>1 DEF FedUp, vars, lan, files, Next
  <2> QED BY <2>2
<1>3. CASE Setup
  <2>1. CASE DhcpOk
    BY <1>1, <2>1, StepsOutAre DEF DhcpOk
  <2>2. CASE DhcpFails
    BY <1>1, <2>2, StepsOutAre DEF DhcpFails, Leave, LeaveMsg, Forget
  <2>3. CASE Configure
    BY <1>1, <2>3, StepsOutAre DEF Configure
  <2>4. CASE ConfigureFails
    BY <1>1, <2>4, StepsOutAre DEF ConfigureFails, LeaveMsg, Forget
  <2>5. CASE StartAdsl
    BY <1>1, <2>5, StepsOutAre DEF StartAdsl
  <2>6. CASE AddRoute
    BY <1>1, <2>6, StepsOutAre DEF AddRoute, Leave
  <2>7. CASE RouteFails
    BY <1>1, <2>7, StepsOutAre DEF RouteFails, LeaveMsg, Forget
  <2>8. CASE (\E p \in Protos : SelectNetwork(p)) \/ Static \/ BadStatic \/ Adsl
    BY <1>1, <2>8 DEF SelectNetwork, Static, BadStatic, Adsl
  <2> QED BY <1>3, <2>1, <2>2, <2>3, <2>4, <2>5, <2>6, <2>7, <2>8 DEF Setup
<1>4. CASE Bringup
  <2>1. CASE SelectInterface
    BY <1>1, <2>1, StepsOutAre DEF SelectInterface
  <2>2. CASE ConfigureWireless
    BY <1>1, <2>2, StepsOutAre DEF ConfigureWireless
  <2>3. CASE WirelessFails
    BY <1>1, <2>3, StepsOutAre DEF WirelessFails
  <2>4. CASE WriteResolvconf
    BY <1>1, <2>4, StepsOutAre DEF WriteResolvconf
  <2>5. CASE ConfigureNetwork
    BY <1>1, <2>5, StepsOutAre DEF ConfigureNetwork
  <2>6. CASE Loopback
    BY <1>1, <2>6, StepsOutAre DEF Loopback, SaveNetinfo
  <2>7. CASE LoopbackFails
    BY <1>1, <2>7, StepsOutAre DEF LoopbackFails, LeaveMsg, Forget
  <2>8. CASE Server
    BY <1>1, <2>8, StepsOutAre DEF Server
  <2> QED BY <1>4, <2>1, <2>2, <2>3, <2>4, <2>5, <2>6, <2>7, <2>8 DEF Bringup
<1>5. CASE Cancel
  <2>1. CASE CancelInterface
    BY <1>1, <2>1, StepsOutAre DEF CancelInterface
  <2>2. CASE CancelWireless
    BY <1>1, <2>2, StepsOutAre DEF CancelWireless, Leave
  <2>3. CASE CancelNetwork
    BY <1>1, <2>3, StepsOutAre DEF CancelNetwork, Leave
  <2>4. CASE CancelStatic
    BY <1>1, <2>4, StepsOutAre DEF CancelStatic
  <2>5. CASE CancelAdsl
    BY <1>1, <2>5, StepsOutAre DEF CancelAdsl
  <2>6. CASE CancelNames
    BY <1>1, <2>6, StepsOutAre DEF CancelNames
  <2>7. CASE CancelServer
    BY <1>1, <2>7, StepsOutAre DEF CancelServer
  <2> QED BY <1>5, <2>1, <2>2, <2>3, <2>4, <2>5, <2>6, <2>7 DEF Cancel
<1>6. CASE SelectMethod
  BY <1>1, <1>6 DEF SelectMethod
<1> QED BY <1>2, <1>3, <1>4, <1>5, <1>6 DEF Next

(* Whoever cancels every question is not led round: from anywhere there    *)
(* are at most ten steps to the choice of the method, whatever fails.      *)
THEOREM CancellingIsBounded ==
  Spec => [](StepsOut[pc] \in 0 .. 10)
          /\ [][fedup => fedup' /\ StepsOut[pc'] < StepsOut[pc]]_vars
<1>1. Init => Asked
  BY DEF Init, Asked
<1>2. TypeOK /\ Asked /\ [Next]_vars => [fedup => fedup' /\ StepsOut[pc'] < StepsOut[pc]]_vars
  BY CancelledStep
<1>3. TypeOK => StepsOut[pc] \in 0 .. 10
  BY StepsOutAre DEF TypeOK
<1> QED BY <1>1, <1>2, <1>3, AskedStep, TypeCorrect, PTL DEF Spec
=============================================================================
