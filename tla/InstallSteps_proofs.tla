------------------------- MODULE InstallSteps_proofs -------------------------
(***************************************************************************)
(* Proofs about InstallSteps: why no step runs before what it needs, and   *)
(* why what was installed and put off is not lost.                         *)
(***************************************************************************)
EXTENDS InstallSteps, FiniteSetTheorems, WellFoundedInduction, TLAPS

(* The names of the steps, as the proofs need them.                        *)
Early == {"selectLanguage", "selectMouse", "setupSCSI", "selectInstallClass", "selectKeyboard",
          "miscellaneous", "doPartitionDisks", "formatPartitions", "choosePackages",
          "installPackages"}
Late  == {"setRootPassword_addUser", "configureNetwork", "setupBootloader", "configureX",
          "summary", "configureServices"}

(* An upgrade rearranges the list once; again, it is as it is.             *)
Orders == {orderedInstallSteps, UpgradeOrder(orderedInstallSteps)}

Types ==
  /\ step \in Steps \union {"finished", "quit"} /\ order \in Orders
  /\ done \subseteq Steps \union {""} /\ reachable \subseteq Steps
  /\ auto \in BOOLEAN
  /\ toBeDone \subseteq Work /\ settled \subseteq Work /\ warned \subseteq Work

(* There is always something left to run.                                  *)
ExitOpen == step # "finished" => "exitInstall" \in reachable \ done

(* Reachability is never less than the table says, and where it is more,   *)
(* because partitions are formatted again, it is so for all that wait for  *)
(* them.                                                                   *)
Closed == \A s \in Steps : Needs(s) \subseteq done /\ Redoable(s) => s \in reachable

Founded ==
  /\ "doPartitionDisks" \in reachable \union done => "selectInstallClass" \in done
  /\ "formatPartitions" \in reachable \union done => "doPartitionDisks" \in done
  /\ \A s, t \in {"choosePackages", "installPackages", "configureNetwork"} :
       s \in reachable => t \in reachable /\ "formatPartitions" \in reachable
  /\ "installPackages" \notin done =>
       Late \intersect (reachable \union done) \subseteq {"configureNetwork"} \ done
  /\ "configureX" \in reachable => "setupBootloader" \in done

(* Before the packages are installed no step runs that comes after; the    *)
(* packages are only installed when all before is done.                    *)
BeforePackages ==
  "installPackages" \notin done =>
    /\ step \in Early \union {"quit"}
    /\ step = "doPartitionDisks" => "selectInstallClass" \in done
    /\ step = "formatPartitions" => "doPartitionDisks" \in done
    /\ step = "choosePackages"   => "formatPartitions" \in done
    /\ step = "installPackages"  => Early \ {"installPackages"} \subseteq done

(* Afterwards no step runs that comes before; and the services, and so the *)
(* exit, only run when what comes before them is done.                     *)
AfterPackages ==
  "installPackages" \in done =>
    /\ Early \subseteq done
    /\ step \in Late \union {"exitInstall", "finished", "quit"}
    /\ step = "configureX" => "setupBootloader" \in done
    /\ step \in {"configureServices", "exitInstall", "finished"} =>
         Late \ {"configureServices"} \subseteq done
    /\ step = "finished" => "exitInstall" \in done /\ (auto \/ "configureServices" \in done)

(* Work that is put off waits for a step that is not done; what waits for  *)
(* the packages is not lost before they are installed, and done then, or   *)
(* dies with a warning.                                                    *)
WaitsFor == \A w \in toBeDone : Until(w) \notin done

NotLost ==
  \A s \in {"selectLanguage", "selectMouse", "miscellaneous"} :
    s \in done =>
      PutOffBy(s) \ {"langs"} \subseteq
        IF "installPackages" \in done THEN settled \union warned ELSE toBeDone

(* A step that keeps what was done, and what has died.                     *)
WorkStays == settled \subseteq settled' /\ warned \subseteq warned'

Control == Types /\ ExitOpen /\ Closed /\ Founded /\ BeforePackages /\ AfterPackages

IInv == Control /\ WaitsFor /\ NotLost

-----------------------------------------------------------------------------
(* The table. *)

LEMMA NamesOfRows ==
  /\ Rows = 1 .. 17
  /\ installSteps[1].name = "selectLanguage"      /\ installSteps[2].name = "selectMouse"
  /\ installSteps[3].name = "setupSCSI"           /\ installSteps[4].name = "selectInstallClass"
  /\ installSteps[5].name = "selectKeyboard"      /\ installSteps[6].name = "miscellaneous"
  /\ installSteps[7].name = "doPartitionDisks"    /\ installSteps[8].name = "formatPartitions"
  /\ installSteps[9].name = "choosePackages"      /\ installSteps[10].name = "installPackages"
  /\ installSteps[11].name = "setRootPassword_addUser"
  /\ installSteps[12].name = "configureNetwork"   /\ installSteps[13].name = "setupBootloader"
  /\ installSteps[14].name = "configureX"         /\ installSteps[15].name = "summary"
  /\ installSteps[16].name = "configureServices"  /\ installSteps[17].name = "exitInstall"
BY DEF Rows, installSteps, Step

(* Every name is in one row. *)
LEMMA RowIsUnique ==
  ASSUME NEW i \in Rows PROVE RowOf(installSteps[i].name) = i
<1>1. \A k \in Rows : installSteps[k].name = installSteps[i].name => k = i
  BY NamesOfRows
<1> QED BY <1>1 DEF RowOf

LEMMA StepsAre == Steps = Early \union Late \union {"exitInstall"}
  BY NamesOfRows DEF Steps, Early, Late

LEMMA Table ==
  /\ \A s \in {"selectLanguage", "selectMouse", "setupSCSI", "selectInstallClass",
               "selectKeyboard", "miscellaneous", "exitInstall"} : Needs(s) = {}
  /\ Needs("doPartitionDisks") = {"selectInstallClass"}
  /\ Needs("formatPartitions") = {"doPartitionDisks"}
  /\ Needs("choosePackages")   = {"formatPartitions"}
  /\ Needs("installPackages")  = {"formatPartitions", "selectInstallClass"}
  /\ Needs("configureNetwork") = {"formatPartitions"}
  /\ Needs("configureX")       = {"formatPartitions", "setupBootloader"}
  /\ \A s \in {"setRootPassword_addUser", "setupBootloader", "summary", "configureServices"} :
       Needs(s) = {"installPackages"}
  /\ \A s \in Steps : Redoable(s) <=> s # "exitInstall"
<1>1. ASSUME NEW i \in Rows
      PROVE  /\ Needs(installSteps[i].name) = installSteps[i].needs
             /\ Redoable(installSteps[i].name) = installSteps[i].redoable
  BY RowIsUnique DEF Needs, Redoable
<1>2. /\ installSteps[1].needs = {} /\ installSteps[2].needs = {} /\ installSteps[3].needs = {}
      /\ installSteps[4].needs = {} /\ installSteps[5].needs = {} /\ installSteps[6].needs = {}
      /\ installSteps[7].needs = {"selectInstallClass"}
      /\ installSteps[8].needs = {"doPartitionDisks"}
      /\ installSteps[9].needs = {"formatPartitions"}
      /\ installSteps[10].needs = {"formatPartitions", "selectInstallClass"}
      /\ installSteps[11].needs = {"installPackages"}
      /\ installSteps[12].needs = {"formatPartitions"}
      /\ installSteps[13].needs = {"installPackages"}
      /\ installSteps[14].needs = {"formatPartitions", "setupBootloader"}
      /\ installSteps[15].needs = {"installPackages"}
      /\ installSteps[16].needs = {"installPackages"} /\ installSteps[17].needs = {}
  BY DEF installSteps, Step
<1>3. \A i \in 1 .. 16 : installSteps[i].redoable = TRUE
  BY DEF installSteps, Step
<1>4. installSteps[17].redoable = FALSE
  BY DEF installSteps, Step
<1>5. \A s \in Steps : Redoable(s) <=> s # "exitInstall"
  <2> SUFFICES ASSUME NEW i \in Rows
               PROVE  Redoable(installSteps[i].name) <=> installSteps[i].name # "exitInstall"
    BY DEF Steps
  <2>1. CASE i = 17
    BY <1>1, <1>4, <2>1, NamesOfRows
  <2>2. CASE i # 17
    <3>1. installSteps[i].name # installSteps[17].name
      BY <2>2, NamesOfRows
    <3>2. i \in 1 .. 16
      BY <2>2, NamesOfRows
    <3> QED BY <1>1, <1>3, <3>1, <3>2, NamesOfRows
  <2> QED BY <2>1, <2>2
<1>6. /\ Needs(installSteps[1].name) = {} /\ Needs(installSteps[2].name) = {}
      /\ Needs(installSteps[3].name) = {} /\ Needs(installSteps[4].name) = {}
      /\ Needs(installSteps[5].name) = {} /\ Needs(installSteps[6].name) = {}
      /\ Needs(installSteps[17].name) = {}
  BY <1>1, <1>2, NamesOfRows
<1>7. /\ Needs(installSteps[7].name) = {"selectInstallClass"}
      /\ Needs(installSteps[8].name) = {"doPartitionDisks"}
      /\ Needs(installSteps[9].name) = {"formatPartitions"}
      /\ Needs(installSteps[10].name) = {"formatPartitions", "selectInstallClass"}
      /\ Needs(installSteps[12].name) = {"formatPartitions"}
      /\ Needs(installSteps[14].name) = {"formatPartitions", "setupBootloader"}
  BY <1>1, <1>2, NamesOfRows
<1>8. /\ Needs(installSteps[11].name) = {"installPackages"}
      /\ Needs(installSteps[13].name) = {"installPackages"}
      /\ Needs(installSteps[15].name) = {"installPackages"}
      /\ Needs(installSteps[16].name) = {"installPackages"}
  BY <1>1, <1>2, NamesOfRows
<1> QED BY <1>5, <1>6, <1>7, <1>8, NamesOfRows

(* An error before the packages leads to a step before them, one after     *)
(* them to a step after.                                                   *)
LEMMA ErrorLeads ==
  /\ \A s \in Early : OnError(s) \in Early \ {"installPackages"}
  /\ \A s \in Late \union {"exitInstall"} :
       /\ OnError(s) \in {"configureNetwork", "setupBootloader", "summary", "exitInstall"}
       /\ OnError(s) = "exitInstall" => s \in {"configureServices", "exitInstall"}
  /\ \A s \in Early : OnError(s) # "formatPartitions"
  /\ \A s \in Early : OnError(s) = "choosePackages" => s = "installPackages"
<1>1. ASSUME NEW i \in Rows
      PROVE  OnError(installSteps[i].name) = installSteps[i + installSteps[i].onError].name
  BY RowIsUnique DEF OnError
<1>2. /\ installSteps[1].onError = 1 /\ installSteps[2].onError = 1 /\ installSteps[3].onError = 0
      /\ installSteps[4].onError = 1 /\ installSteps[5].onError = 1 /\ installSteps[6].onError = 1
      /\ installSteps[7].onError = 0 /\ installSteps[8].onError = -1
      /\ installSteps[9].onError = -2 /\ installSteps[10].onError = -1
      /\ installSteps[11].onError = 1 /\ installSteps[12].onError = 1
      /\ installSteps[13].onError = 0 /\ installSteps[14].onError = 1
      /\ installSteps[15].onError = 0 /\ installSteps[16].onError = 1
      /\ installSteps[17].onError = 0
  BY DEF installSteps, Step
<1>3. /\ OnError(installSteps[1].name) = installSteps[2].name
      /\ OnError(installSteps[2].name) = installSteps[3].name
      /\ OnError(installSteps[3].name) = installSteps[3].name
      /\ OnError(installSteps[4].name) = installSteps[5].name
      /\ OnError(installSteps[5].name) = installSteps[6].name
      /\ OnError(installSteps[6].name) = installSteps[7].name
      /\ OnError(installSteps[7].name) = installSteps[7].name
      /\ OnError(installSteps[8].name) = installSteps[7].name
      /\ OnError(installSteps[9].name) = installSteps[7].name
      /\ OnError(installSteps[10].name) = installSteps[9].name
  BY <1>1, <1>2, NamesOfRows
<1>4. /\ OnError(installSteps[11].name) = installSteps[12].name
      /\ OnError(installSteps[12].name) = installSteps[13].name
      /\ OnError(installSteps[13].name) = installSteps[13].name
      /\ OnError(installSteps[14].name) = installSteps[15].name
      /\ OnError(installSteps[15].name) = installSteps[15].name
      /\ OnError(installSteps[16].name) = installSteps[17].name
      /\ OnError(installSteps[17].name) = installSteps[17].name
  BY <1>1, <1>2, NamesOfRows
<1> QED BY <1>3, <1>4, NamesOfRows DEF Early, Late

(* Which work the steps put off, and until when.                           *)
LEMMA WorkIs ==
  /\ \A s : PutOffBy(s) \subseteq Work
  /\ PutOffBy("selectLanguage") = {"langs", "locale"} /\ PutOffBy("selectMouse") = {"mouse"}
  /\ PutOffBy("miscellaneous") = {"security"}
  /\ PutOffBy("installPackages") = {}
  /\ \A w \in {"locale", "mouse", "security"} : Until(w) = "installPackages"
<1>1. \A s : PutOffBy(s) \subseteq Work
  BY DEF PutOffBy, Work
<1> QED BY <1>1 DEF PutOffBy, Until

-----------------------------------------------------------------------------
(* The list and the first step in it that is ready. *)

(* What the two orders have in common, and where they differ.              *)
Common(o) ==
  /\ DOMAIN o = Rows
  /\ o[1] = "selectLanguage" /\ o[2] = "selectMouse" /\ o[3] = "setupSCSI"
  /\ o[4] = "selectInstallClass"
  /\ o[9] = "choosePackages" /\ o[10] = "installPackages"
  /\ o[11] = "setRootPassword_addUser" /\ o[12] = "configureNetwork" /\ o[13] = "setupBootloader"
  /\ o[14] = "configureX" /\ o[15] = "summary" /\ o[16] = "configureServices"
  /\ o[17] = "exitInstall"

Installing(o) ==
  /\ o[5] = "selectKeyboard" /\ o[6] = "miscellaneous"
  /\ o[7] = "doPartitionDisks" /\ o[8] = "formatPartitions"

Upgrading(o) ==
  /\ o[5] = "doPartitionDisks" /\ o[6] = "formatPartitions"
  /\ o[7] = "selectKeyboard" /\ o[8] = "miscellaneous"

LEMMA Upgraded ==
  ASSUME NEW o, Common(o), Installing(o) \/ Upgrading(o)
  PROVE  Common(UpgradeOrder(o)) /\ Upgrading(UpgradeOrder(o))
<1> DEFINE i == CHOOSE i \in DOMAIN o : o[i] = "selectInstallClass"
           j == CHOOSE j \in DOMAIN o : o[j] = "formatPartitions"
           new == UpgradeOrder(o)
<1>1. Rows = 1 .. 17 /\ DOMAIN o = 1 .. 17
  BY NamesOfRows DEF Common
<1>2. i = 4
  <2>1. \A k \in 1 .. 17 : o[k] = "selectInstallClass" => k = 4
    BY DEF Common, Installing, Upgrading
  <2>2. o[4] = "selectInstallClass" /\ 4 \in 1 .. 17
    BY DEF Common
  <2> QED BY <1>1, <2>1, <2>2
<1>3. new = [k \in 1 .. 17 |->
               CASE k = i + 1        -> "doPartitionDisks"
                 [] k = i + 2        -> "formatPartitions"
                 [] k \in i + 3 .. j -> o[k - 2]
                 [] OTHER            -> o[k]]
  BY <1>1 DEF UpgradeOrder
<1>4. DOMAIN new = Rows
  BY <1>1 DEF UpgradeOrder
<1>5. CASE Installing(o)
  <2>1. j = 8
    <3>1. \A k \in 1 .. 17 : o[k] = "formatPartitions" => k = 8
      BY <1>5 DEF Common, Installing
    <3>2. o[8] = "formatPartitions" /\ 8 \in 1 .. 17
      BY <1>5 DEF Installing
    <3> QED BY <1>1, <3>1, <3>2
  <2> HIDE DEF i, j, new
  <2>2. /\ \A k \in 1 .. 4 \union 9 .. 17 : new[k] = o[k]
        /\ new[5] = "doPartitionDisks" /\ new[6] = "formatPartitions"
        /\ new[7] = o[5] /\ new[8] = o[6]
    BY <1>2, <1>3, <2>1
  <2>3. Common(new) /\ Upgrading(new)
    BY <1>4, <1>5, <2>2 DEF Common, Installing, Upgrading
  <2> QED BY <2>3 DEF new
<1>6. CASE Upgrading(o)
  <2>1. j = 6
    <3>1. \A k \in 1 .. 17 : o[k] = "formatPartitions" => k = 6
      BY <1>6 DEF Common, Upgrading
    <3>2. o[6] = "formatPartitions" /\ 6 \in 1 .. 17
      BY <1>6 DEF Upgrading
    <3> QED BY <1>1, <3>1, <3>2
  <2> HIDE DEF i, j, new
  <2>2. /\ \A k \in 1 .. 4 \union 7 .. 17 : new[k] = o[k]
        /\ new[5] = "doPartitionDisks" /\ new[6] = "formatPartitions"
    BY <1>2, <1>3, <2>1
  <2>3. Common(new) /\ Upgrading(new)
    BY <1>4, <1>6, <2>2 DEF Common, Upgrading
  <2> QED BY <2>3 DEF new
<1> QED BY <1>5, <1>6

LEMMA OrdersAre ==
  ASSUME NEW o \in Orders
  PROVE  Common(o) /\ (Installing(o) \/ Upgrading(o)) /\ UpgradeOrder(o) \in Orders
<1>1. Common(orderedInstallSteps) /\ Installing(orderedInstallSteps)
  BY NamesOfRows DEF orderedInstallSteps, Common, Installing
<1>2. CASE o = orderedInstallSteps
  BY <1>1, <1>2 DEF Orders
<1>3. CASE o = UpgradeOrder(orderedInstallSteps)
  <2>1. Common(o) /\ Upgrading(o) /\ Common(UpgradeOrder(o)) /\ Upgrading(UpgradeOrder(o))
    BY <1>1, <1>3, Upgraded
  <2>2. \A k \in Rows : UpgradeOrder(o)[k] = o[k]
    BY <2>1, NamesOfRows DEF Common, Upgrading
  <2>3. \A p : DOMAIN p = Rows => UpgradeOrder(p) = [k \in Rows |-> UpgradeOrder(p)[k]]
    BY DEF UpgradeOrder
  <2>4. DOMAIN o = Rows /\ DOMAIN orderedInstallSteps = Rows
    BY <1>1, <2>1 DEF Common
  <2>5. o = [k \in Rows |-> o[k]]
    BY <1>3, <2>3, <2>4
  <2>6. UpgradeOrder(o) = o
    BY <2>2, <2>3, <2>4, <2>5
  <2> QED BY <1>3, <2>1, <2>6 DEF Orders
<1> QED BY <1>2, <1>3 DEF Orders

LEMMA OrderTyped ==
  ASSUME NEW o \in Orders
  PROVE  DOMAIN o = Rows /\ {o[i] : i \in Rows} = Steps
<1>1. Common(o) /\ (Installing(o) \/ Upgrading(o))
  BY OrdersAre
<1>2. \A i \in Rows : o[i] \in Steps
  BY <1>1, NamesOfRows, StepsAre DEF Common, Installing, Upgrading, Early, Late
<1>3. \A s \in Steps : \E i \in Rows : o[i] = s
  BY <1>1, NamesOfRows, StepsAre DEF Common, Installing, Upgrading, Early, Late
<1> QED BY <1>1, <1>2, <1>3 DEF Common

(* A set of positions has a first: of the intervals up to its members one  *)
(* is the smallest.                                                        *)
LEMMA FirstExists ==
  ASSUME NEW n \in Nat, NEW T, T \subseteq 1 .. n, T # {}
  PROVE  \E k \in T : \A j \in T : k <= j
<1> DEFINE Below == {1 .. k : k \in T}
<1>1. Below \subseteq FiniteSubsetsOf(1 .. n) /\ Below # {}
  <2>1. \A k \in T : IsFiniteSet(1 .. k)
    BY FS_Interval
  <2>2. \A k \in T : 1 .. k \in SUBSET (1 .. n)
    OBVIOUS
  <2> QED BY <2>1, <2>2 DEF FiniteSubsetsOf
<1>2. PICK B \in Below : \A C \in Below : <<C, B>> \notin StrictSubsetOrdering(1 .. n)
  <2> HIDE DEF Below
  <2>1. IsWellFoundedOn(StrictSubsetOrdering(1 .. n), FiniteSubsetsOf(1 .. n))
    BY FS_StrictSubsetOrderingWellFounded
  <2> QED BY <1>1, <2>1, WFMin
<1>3. PICK k \in T : B = 1 .. k
  OBVIOUS
<1>4. ASSUME NEW j \in T, ~(k <= j)
      PROVE  FALSE
  <2>1. 1 .. j \subseteq 1 .. k /\ k \in 1 .. k /\ k \notin 1 .. j
    BY <1>4
  <2>2. <<1 .. j, B>> \in StrictSubsetOrdering(1 .. n)
    BY <1>3, <2>1 DEF StrictSubsetOrdering
  <2> QED BY <1>2, <2>2
<1> QED BY <1>4

(* The step that runs next is ready, and none before it is.                *)
LEMMA NextIsFirst ==
  ASSUME NEW o \in Orders, NEW d, NEW r \in SUBSET Steps, r \ d # {}
  PROVE  /\ NextStep(d, r, o) \in r \ d
         /\ NextStep(d, r, o) \in Steps
         /\ (r \ d) \intersect Early # {} => NextStep(d, r, o) \in Early
         /\ NextStep(d, r, o) = "choosePackages" => "formatPartitions" \notin r \ d
         /\ NextStep(d, r, o) = "installPackages" => (r \ d) \intersect Early = {"installPackages"}
         /\ NextStep(d, r, o) = "configureServices" =>
              (r \ d) \intersect Late \subseteq {"configureServices"}
         /\ NextStep(d, r, o) = "exitInstall" => r \ d = {"exitInstall"}
<1> DEFINE ready == {i \in DOMAIN o : o[i] \in r \ d}
           first == CHOOSE i \in ready : \A j \in ready : i <= j
<1>1. Common(o) /\ (Installing(o) \/ Upgrading(o)) /\ Rows = 1 .. 17 /\ DOMAIN o = 1 .. 17
  BY OrdersAre, NamesOfRows DEF Common
<1>2. \A s \in r \ d : \E i \in ready : o[i] = s
  BY <1>1, OrderTyped
<1>3. ready # {} /\ ready \subseteq 1 .. 17
  BY <1>1, <1>2
<1>4. \E i \in ready : \A j \in ready : i <= j
  <2> HIDE DEF ready
  <2> QED BY <1>3, FirstExists
<1>5. first \in ready /\ \A j \in ready : first <= j
  BY <1>4
<1>6. NextStep(d, r, o) = o[first]
  BY DEF NextStep
<1> HIDE DEF first
<1>7. o[first] \in r \ d /\ first \in 1 .. 17
  BY <1>1, <1>5
<1>8. \A j \in 1 .. 17 : j < first => o[j] \notin r \ d
  BY <1>1, <1>5
<1> HIDE DEF ready
<1>9. o[first] \in Steps
  BY <1>7
<1>10. (r \ d) \intersect Early # {} => o[first] \in Early
  <2>1. \A s \in Early : \E i \in 1 .. 10 : o[i] = s
    BY <1>1 DEF Common, Installing, Upgrading, Early
  <2>2. \A i \in 1 .. 10 : o[i] \in Early
    BY <1>1 DEF Common, Installing, Upgrading, Early
  <2>3. (r \ d) \intersect Early # {} => first \in 1 .. 10
    BY <1>7, <1>8, <2>1
  <2> QED BY <2>2, <2>3
<1>11. o[first] = "choosePackages" => "formatPartitions" \notin r \ d
  <2>1. o[first] = "choosePackages" => first = 9
    BY <1>1, <1>7 DEF Common, Installing, Upgrading
  <2>2. \E i \in 1 .. 8 : o[i] = "formatPartitions"
    BY <1>1 DEF Installing, Upgrading
  <2> QED BY <1>8, <2>1, <2>2
<1>12. o[first] = "installPackages" => (r \ d) \intersect Early = {"installPackages"}
  <2>1. o[first] = "installPackages" => first = 10
    BY <1>1, <1>7 DEF Common, Installing, Upgrading
  <2>2. \A s \in Early \ {"installPackages"} : \E i \in 1 .. 9 : o[i] = s
    BY <1>1 DEF Common, Installing, Upgrading, Early
  <2>3. "installPackages" \in Early
    BY DEF Early
  <2> QED BY <1>7, <1>8, <2>1, <2>2, <2>3
<1>13. o[first] = "exitInstall" => r \ d = {"exitInstall"}
  <2>1. o[first] = "exitInstall" => first = 17
    BY <1>1, <1>7 DEF Common, Installing, Upgrading
  <2>2. \A s \in Steps \ {"exitInstall"} : \E i \in 1 .. 16 : o[i] = s
    BY <1>1, StepsAre DEF Common, Installing, Upgrading, Early, Late
  <2> QED BY <1>7, <1>8, <2>1, <2>2
<1>14. o[first] = "configureServices" => (r \ d) \intersect Late \subseteq {"configureServices"}
  <2>1. o[first] = "configureServices" => first = 16
    BY <1>1, <1>7 DEF Common, Installing, Upgrading
  <2>2. \A s \in Late \ {"configureServices"} : \E i \in 1 .. 15 : o[i] = s
    BY <1>1 DEF Common, Late
  <2> QED BY <1>8, <2>1, <2>2
<1> QED BY <1>6, <1>7, <1>9, <1>10, <1>11, <1>12, <1>13, <1>14

-----------------------------------------------------------------------------
(* What runs, and what is done and reachable. *)

(* The names of what a step takes away.                                    *)
LEMMA UndoneAre ==
  /\ Undone("doPartitionDisks") = {"formatPartitions"}
  /\ Undone("formatPartitions") = {"choosePackages"}
  /\ \A s : s \notin {"doPartitionDisks", "formatPartitions"} => Undone(s) = {}
BY DEF Undone

(* Whenever the first step that is ready is taken, it is the right one.    *)
LEMMA NextRuns ==
  ASSUME Types', ExitOpen', Closed', Founded', step' \in Steps,
         step' = NextStep(done', reachable', order'),
         "installPackages" \in done' => Early \subseteq done'
  PROVE  BeforePackages' /\ AfterPackages'
<1> DEFINE ready == reachable' \ done'
<1>1. "exitInstall" \in ready /\ order' \in Orders /\ reachable' \in SUBSET Steps
  <2>1. step' # "finished"
    BY StepsAre DEF Early, Late
  <2> QED BY <2>1 DEF ExitOpen, Types
<1>2. /\ step' \in ready
      /\ ready \intersect Early # {} => step' \in Early
      /\ step' = "choosePackages" => "formatPartitions" \notin ready
      /\ step' = "installPackages" => ready \intersect Early = {"installPackages"}
      /\ step' = "configureServices" => ready \intersect Late \subseteq {"configureServices"}
      /\ step' = "exitInstall" => ready = {"exitInstall"}
  BY <1>1, NextIsFirst
<1>3. \A s \in {"selectLanguage", "selectMouse", "setupSCSI", "selectInstallClass",
                "selectKeyboard", "miscellaneous"} : s \in reachable'
  BY Table, StepsAre DEF Closed, Early, Late
<1>4. /\ "selectInstallClass" \in done' => "doPartitionDisks" \in reachable'
      /\ "doPartitionDisks" \in done' => "formatPartitions" \in reachable'
      /\ "formatPartitions" \in done' /\ "selectInstallClass" \in done' =>
           "installPackages" \in reachable'
  BY Table, StepsAre DEF Closed, Early, Late
<1>5. ASSUME "installPackages" \notin done'
      PROVE  BeforePackages'
  <2>1. step' \in Early
    <3>1. CASE "selectInstallClass" \notin done'
      <4>1. "selectInstallClass" \in ready \intersect Early
        BY <1>3, <3>1 DEF Early
      <4> QED BY <1>2, <4>1
    <3>2. CASE "selectInstallClass" \in done' /\ "doPartitionDisks" \notin done'
      <4>1. "doPartitionDisks" \in ready \intersect Early
        BY <1>4, <3>2 DEF Early
      <4> QED BY <1>2, <4>1
    <3>3. CASE "doPartitionDisks" \in done' /\ "formatPartitions" \notin done'
      <4>1. "formatPartitions" \in ready \intersect Early
        BY <1>4, <3>3 DEF Early
      <4> QED BY <1>2, <4>1
    <3>4. CASE "formatPartitions" \in done' /\ "selectInstallClass" \in done'
      <4>1. "installPackages" \in ready \intersect Early
        BY <1>4, <1>5, <3>4 DEF Early
      <4> QED BY <1>2, <4>1
    <3> QED BY <3>1, <3>2, <3>3, <3>4
  <2>2. /\ step' = "doPartitionDisks" => "selectInstallClass" \in done'
        /\ step' = "formatPartitions" => "doPartitionDisks" \in done'
        /\ step' = "choosePackages" => "formatPartitions" \in done'
    BY <1>2 DEF Founded
  <2>3. step' = "installPackages" => Early \ {"installPackages"} \subseteq done'
    <3> SUFFICES ASSUME step' = "installPackages", NEW s \in Early \ {"installPackages"},
                        s \notin done'
                 PROVE  FALSE
      OBVIOUS
    <3>1. s \notin reachable'
      BY <1>2
    <3>2. s \in {"doPartitionDisks", "formatPartitions", "choosePackages"}
      BY <1>3, <3>1 DEF Early
    <3>3. "formatPartitions" \in reachable' /\ "choosePackages" \in reachable'
      BY <1>2 DEF Founded
    <3>4. "doPartitionDisks" \in done'
      BY <3>3 DEF Founded
    <3> QED BY <3>1, <3>2, <3>3, <3>4
  <2> QED BY <2>1, <2>2, <2>3 DEF BeforePackages
<1>6. ASSUME "installPackages" \in done'
      PROVE  AfterPackages'
  <2>1. step' \in Late \union {"exitInstall"}
    BY <1>2, <1>6, StepsAre
  <2>2. step' = "configureX" => "setupBootloader" \in done'
    BY <1>2 DEF Founded
  <2>3. step' # "finished"
    BY <2>1 DEF Late
  <2>4. ASSUME step' \in {"configureServices", "exitInstall"}
        PROVE  Late \ {"configureServices"} \subseteq done'
    <3>1. ready \intersect Late \subseteq {"configureServices"}
      BY <1>2, <2>4 DEF Late
    <3>2. {"setRootPassword_addUser", "configureNetwork", "setupBootloader", "summary"}
            \subseteq reachable'
      BY <1>6, Table, StepsAre DEF Closed, Early, Late
    <3>3. {"setRootPassword_addUser", "configureNetwork", "setupBootloader", "summary"}
            \subseteq done'
      BY <3>1, <3>2 DEF Late
    <3>4. "configureX" \in reachable'
      BY <1>6, <3>3, Table, StepsAre DEF Closed, Early, Late
    <3> QED BY <3>1, <3>3, <3>4 DEF Late
  <2> QED BY <1>6, <2>1, <2>2, <2>3, <2>4 DEF AfterPackages
<1> QED BY <1>5, <1>6 DEF BeforePackages, AfterPackages

(* What a step has done away with: nothing once the packages are there.    *)
LEMMA StillDone ==
  ASSUME Control, step \in Steps
  PROVE  /\ Undone(step) \subseteq {"formatPartitions", "choosePackages"}
         /\ "installPackages" \in done => Undone(step) = {} /\ step # "choosePackages"
         /\ step = "installPackages" => Undone(step) = {}
<1>1. "installPackages" \in done => step \in Late \union {"exitInstall"}
  BY StepsAre DEF Control, AfterPackages, Early, Late
<1> QED BY <1>1, UndoneAre DEF Late

LEMMA ErrorFollows ==
  ASSUME Control, NEW s \in Steps, StepFails(s) \/ ErrorFails(s) \/ ErrorExits(s)
  PROVE  Control'
<1> USE DEF Control
<1>1. /\ step = s /\ done' = done \ Undone(s) /\ UNCHANGED <<reachable, order>>
      /\ toBeDone' \subseteq toBeDone \union PutOffBy(s)
      /\ settled' \subseteq settled \union PutOffBy(s) /\ warned' \subseteq warned
  <2>1. Dies(s)
    BY DEF StepFails, ErrorFails, ErrorExits
  <2> QED BY <2>1 DEF Dies, BodiesDied, Body, AtOnce
<1>2. /\ Undone(s) \subseteq {"formatPartitions", "choosePackages"}
      /\ "installPackages" \in done => Undone(s) = {}
      /\ s = "installPackages" => Undone(s) = {}
  BY <1>1, StillDone
<1>3. step # "finished" /\ "finished" \notin Steps
  BY <1>1, StepsAre DEF Early, Late
<1>4. \/ step' = OnError(s) /\ step' \in reachable
      \/ step' = NextStep(done', reachable', order')
      \/ step' = "quit"
  BY <1>1 DEF StepFails, ErrorFails, ErrorExits, AfterError
<1>5. ExitOpen' /\ "exitInstall" \in reachable' \ done'
  BY <1>1, <1>3 DEF ExitOpen
<1>6. Closed'
  BY <1>1 DEF Closed
<1>7. Founded'
  BY <1>1, <1>2 DEF Founded, Late
<1>8. Types' /\ (step' = "quit" \/ step' \in Steps)
  <2>1. step' \in Steps \union {"quit"}
    <3>1. order' \in Orders /\ reachable' \in SUBSET Steps /\ reachable' \ done' # {}
      BY <1>1, <1>5 DEF Types
    <3>2. step' = NextStep(done', reachable', order') => step' \in Steps
      BY <3>1, NextIsFirst
    <3> QED BY <1>1, <1>4, <3>2 DEF Types
  <2>2. toBeDone' \subseteq Work /\ settled' \subseteq Work /\ warned' \subseteq Work
    BY <1>1, WorkIs DEF Types
  <2>3. auto' \in BOOLEAN
    BY DEF StepFails, ErrorFails, ErrorExits, Shown, Types
  <2> QED BY <1>1, <2>1, <2>2, <2>3 DEF Types
<1>9. "installPackages" \in done' => "installPackages" \in done /\ done' = done /\ Early \subseteq done
  BY <1>1, <1>2 DEF AfterPackages
<1>10. BeforePackages' /\ AfterPackages'
  <2>1. CASE step' = OnError(s) /\ step' \in reachable
    <3>1. CASE "installPackages" \in done
      <4>1. s \in Late \union {"exitInstall"} /\ done' = done
        BY <1>1, <1>2, <1>3, <3>1, StepsAre DEF AfterPackages, Late, Early
      <4>2. /\ step' \in {"configureNetwork", "setupBootloader", "summary", "exitInstall"}
            /\ step' = "exitInstall" => s \in {"configureServices", "exitInstall"}
        BY <2>1, <4>1, ErrorLeads
      <4>3. step' = "exitInstall" => Late \ {"configureServices"} \subseteq done'
        BY <1>1, <3>1, <4>1, <4>2 DEF AfterPackages
      <4> QED BY <3>1, <4>1, <4>2, <4>3 DEF AfterPackages, BeforePackages, Late
    <3>2. CASE "installPackages" \notin done
      <4>1. s \in Early /\ "installPackages" \notin done'
        BY <1>1, <3>2, StepsAre DEF BeforePackages, Late, Early
      <4>2. /\ step' \in Early \ {"installPackages"} /\ step' # "formatPartitions"
            /\ step' = "choosePackages" => s = "installPackages"
        BY <2>1, <4>1, ErrorLeads
      <4>3. step' = "doPartitionDisks" => "selectInstallClass" \in done'
        BY <1>1, <1>2, <2>1 DEF Founded
      <4>4. step' = "choosePackages" => "formatPartitions" \in done'
        BY <1>1, <1>2, <3>2, <4>2 DEF BeforePackages, Early
      <4> QED BY <4>1, <4>2, <4>3, <4>4 DEF AfterPackages, BeforePackages
    <3> QED BY <3>1, <3>2
  <2>2. CASE step' = NextStep(done', reachable', order')
    <3>1. order' \in Orders /\ reachable' \in SUBSET Steps /\ reachable' \ done' # {}
      BY <1>1, <1>5 DEF Types
    <3>2. step' \in Steps
      BY <2>2, <3>1, NextIsFirst
    <3> QED BY <1>5, <1>6, <1>7, <1>8, <1>9, <2>2, <3>2, NextRuns
  <2>3. CASE step' = "quit"
    <3>1. "quit" \notin Early
      BY DEF Early
    <3>2. "quit" # "configureX"
      OBVIOUS
    <3> QED BY <1>9, <2>3, <3>1 DEF BeforePackages, AfterPackages, Early
  <2> QED BY <1>4, <2>1, <2>2, <2>3
<1> QED BY <1>5, <1>6, <1>7, <1>8, <1>10

(* The step that ends is done, and what it makes reachable is.             *)
LEMMA LeavingIs ==
  ASSUME NEW s, NEW body, Leaving(s, body), reachable \subseteq Steps
  PROVE  /\ done' = body.done \union {s}
         /\ reachable' = (reachable \union ReachableNow(done')) \ ({s} \intersect {"exitInstall"})
         /\ toBeDone' = {w \in body.toBeDone : Until(w) # s}
         /\ body.settled \subseteq settled' /\ body.warned \subseteq warned'
         /\ settled' \union warned' =
              body.settled \union body.warned \union {w \in body.toBeDone : Until(w) = s}
<1>1. {t \in Steps : t = s /\ ~Redoable(t)} = {s} \intersect {"exitInstall"}
  BY Table, StepsAre
<1>2. DoWork(s, body)
  BY DEF Leaving
<1>3. /\ toBeDone' = {w \in body.toBeDone : Until(w) # s}
      /\ body.settled \subseteq settled' /\ body.warned \subseteq warned'
      /\ settled' \union warned' =
           body.settled \union body.warned \union {w \in body.toBeDone : Until(w) = s}
  <2> DEFINE now == {w \in body.toBeDone : Until(w) = s}
  <2>1. PICK well \in SUBSET now, ill \in SUBSET now :
          /\ well \union ill = now
          /\ toBeDone' = body.toBeDone \ now
          /\ settled' = body.settled \union well
          /\ warned' = body.warned \union ill
    BY <1>2 DEF DoWork
  <2> QED BY <2>1
<1> QED BY <1>1, <1>3 DEF Leaving

(* Whatever is done, what becomes reachable keeps to the table.            *)
LEMMA ReachableKept ==
  ASSUME Control, NEW s \in Steps \union {""},
         step = s \/ step = "exitInstall",
         \/ done' = (done \ Undone(s)) \union {s}
         \/ s = "choosePackages" /\ step = s /\ done' = (done \ {"installPackages"}) \union {s},
         s = "" \/ step = s,
         reachable' = (reachable \union ReachableNow(done')) \ ({s} \intersect {"exitInstall"})
  PROVE  Closed' /\ Founded'
<1> USE DEF Control
<1>1. \A t \in Steps \ {"exitInstall"} : Needs(t) \subseteq done' => t \in reachable'
  BY Table DEF ReachableNow
<1>2. \A t \in reachable' : t \in reachable \/ (t \in Steps /\ Needs(t) \subseteq done')
  BY DEF ReachableNow
<1>3. Closed'
  BY <1>1, Table DEF Closed
<1>4. /\ \A t \in done' : t \in done \/ t = s
      /\ \A t \in done : t \in done' \/ t \in {"formatPartitions", "choosePackages", "installPackages"}
  BY UndoneAre
<1>5. s = "doPartitionDisks" => "selectInstallClass" \in done
  BY DEF BeforePackages, AfterPackages, Early, Late
<1>6. s = "formatPartitions" => "doPartitionDisks" \in done
  BY DEF BeforePackages, AfterPackages, Early, Late
<1>7. /\ "doPartitionDisks" \in reachable' \union done' => "selectInstallClass" \in done'
      /\ "formatPartitions" \in reachable' \union done' => "doPartitionDisks" \in done'
  BY <1>2, <1>4, <1>5, <1>6, Table DEF Founded
<1>8. \A t, u \in {"choosePackages", "installPackages", "configureNetwork"} :
        t \in reachable' => u \in reachable' /\ "formatPartitions" \in reachable'
  <2> SUFFICES ASSUME NEW t \in {"choosePackages", "installPackages", "configureNetwork"},
                      t \in reachable'
               PROVE  {"choosePackages", "installPackages", "configureNetwork",
                       "formatPartitions"} \subseteq reachable'
    OBVIOUS
  <2>1. CASE t \in reachable
    <3>1. {"choosePackages", "installPackages", "configureNetwork",
           "formatPartitions"} \subseteq reachable
      BY <2>1 DEF Founded
    <3> QED BY <3>1
  <2>2. CASE Needs(t) \subseteq done'
    <3>1. "formatPartitions" \in done'
      BY <2>2, Table
    <3>2. "doPartitionDisks" \in done' /\ "selectInstallClass" \in done'
      BY <1>7, <3>1
    <3>3. {"choosePackages", "installPackages", "configureNetwork", "formatPartitions"}
            \subseteq Steps \ {"exitInstall"}
      BY StepsAre DEF Early, Late
    <3>4. \A u \in {"choosePackages", "installPackages", "configureNetwork", "formatPartitions"} :
            Needs(u) \subseteq {"formatPartitions", "doPartitionDisks", "selectInstallClass"}
      BY Table
    <3> QED BY <1>1, <3>1, <3>2, <3>3, <3>4
  <2> QED BY <1>2, <2>1, <2>2
<1>9. "installPackages" \notin done' =>
        Late \intersect (reachable' \union done') \subseteq {"configureNetwork"} \ done'
  <2> SUFFICES ASSUME "installPackages" \notin done',
                      NEW t \in Late, t \in reachable' \union done'
               PROVE  t = "configureNetwork" /\ t \notin done'
    OBVIOUS
  <2>1. "installPackages" \notin done
    <3>1. "installPackages" \notin Undone(s)
      BY DEF Undone
    <3>2. "installPackages" \notin done \/ step = "choosePackages"
      BY <3>1
    <3>3. step = "choosePackages" => step \notin Late \union {"exitInstall", "finished", "quit"}
      BY DEF Late
    <3> QED BY <3>2, <3>3 DEF AfterPackages
  <2>2. s \in Early
    <3>1. step \in Early \union {"quit"} /\ step # "exitInstall"
      BY <2>1 DEF BeforePackages, Early
    <3>2. "quit" \notin Steps \union {""}
      BY StepsAre DEF Early, Late
    <3> QED BY <3>1, <3>2
  <2>3. t \notin done'
    BY <1>4, <2>1, <2>2 DEF Founded, Early, Late
  <2>4. CASE t \in reachable
    BY <2>1, <2>3, <2>4 DEF Founded
  <2>5. CASE Needs(t) \subseteq done'
    <3>1. "setupBootloader" \notin done'
      BY <1>4, <2>1, <2>2 DEF Founded, Early, Late
    <3> QED BY <2>3, <2>5, <3>1, Table DEF Late
  <2> QED BY <1>2, <2>3, <2>4, <2>5
<1>10. "configureX" \in reachable' => "setupBootloader" \in done'
  BY <1>2, <1>4, Table DEF Founded
<1> QED BY <1>3, <1>7, <1>8, <1>9, <1>10 DEF Founded

(* What a step that ends leaves of the work, its own, ws, included.        *)
WorkLeft(s, ws, keeps) ==
  LET later == (toBeDone \union ws) \ AtOnce(ws)
      was   == (IF keeps THEN settled ELSE {}) \union AtOnce(ws)
      died  == IF keeps THEN warned ELSE {}
  IN  /\ toBeDone' = {w \in later : Until(w) # s}
      /\ was \subseteq settled' /\ died \subseteq warned'
      /\ settled' \union warned' = was \union died \union {w \in later : Until(w) = s}

(* What the body of a step leaves when it ends.                            *)
LEMMA EndIs ==
  ASSUME Types, NEW s \in Steps, StepEnds(s)
  PROVE  /\ step = s /\ s # "exitInstall" /\ step' = NextStep(done', reachable', order')
         /\ \/ done' = (done \ Undone(s)) \union {s}
            \/ s = "choosePackages" /\ done' = (done \ {"installPackages"}) \union {s}
         /\ reachable' = (reachable \union ReachableNow(done')) \ ({s} \intersect {"exitInstall"})
         /\ order' \in Orders
         /\ \E ws \in SUBSET PutOffBy(s), keeps \in Keeps(s) :
              /\ PutOffBy(s) \ ws \subseteq Optional
              /\ WorkLeft(s, ws, keeps)
<1>1. step = s /\ s # "exitInstall" /\ step' = NextStep(done', reachable', order')
  BY DEF StepEnds
<1>2. order' \in Orders
  BY OrdersAre DEF StepEnds, Types
<1>3. PICK body \in BodiesEnded(s), again \in AskedAgain(s) :
        Leaving(s, [body EXCEPT !.done = @ \ again])
  BY DEF StepEnds
<1>4. PICK ws \in {w \in SUBSET PutOffBy(s) : PutOffBy(s) \ w \subseteq Optional},
           keeps \in Keeps(s) : body = Body(s, ws, keeps)
  BY <1>3 DEF BodiesEnded
<1> DEFINE left  == [body EXCEPT !.done = @ \ again]
           later == (toBeDone \union ws) \ AtOnce(ws)
<1>5. /\ left.done = (done \ Undone(s)) \ again /\ left.toBeDone = later
      /\ left.settled = (IF keeps THEN settled ELSE {}) \union AtOnce(ws)
      /\ left.warned = IF keeps THEN warned ELSE {}
  BY <1>4 DEF Body
<1>6. Leaving(s, left) /\ reachable \subseteq Steps
  BY <1>3 DEF Types
<1> HIDE DEF left
<1>7. /\ done' = left.done \union {s}
      /\ reachable' = (reachable \union ReachableNow(done')) \ ({s} \intersect {"exitInstall"})
      /\ toBeDone' = {w \in left.toBeDone : Until(w) # s}
      /\ left.settled \subseteq settled' /\ left.warned \subseteq warned'
      /\ settled' \union warned' =
           left.settled \union left.warned \union {w \in left.toBeDone : Until(w) = s}
  BY <1>6, LeavingIs
<1>8. again = {} \/ (s = "choosePackages" /\ again = {"installPackages"})
  BY <1>3 DEF AskedAgain
<1>9. \/ done' = (done \ Undone(s)) \union {s}
      \/ s = "choosePackages" /\ done' = (done \ {"installPackages"}) \union {s}
  <2>1. s = "choosePackages" => Undone(s) = {}
    BY UndoneAre
  <2> QED BY <1>5, <1>7, <1>8, <2>1
<1>10. WorkLeft(s, ws, keeps)
  BY <1>5, <1>7 DEF WorkLeft
<1> QED BY <1>1, <1>2, <1>4, <1>7, <1>9, <1>10

(* The body of a step ends and the next step runs.                         *)
LEMMA EndFollows ==
  ASSUME Control, NEW s \in Steps, StepEnds(s)
  PROVE  Control'
<1> USE DEF Control
<1>1. /\ step = s /\ s # "exitInstall" /\ step' = NextStep(done', reachable', order')
      /\ \/ done' = (done \ Undone(s)) \union {s}
         \/ s = "choosePackages" /\ done' = (done \ {"installPackages"}) \union {s}
      /\ reachable' = (reachable \union ReachableNow(done')) \ ({s} \intersect {"exitInstall"})
      /\ order' \in Orders
  BY EndIs
<1>2. /\ toBeDone' \subseteq Work /\ settled' \subseteq Work /\ warned' \subseteq Work
      /\ auto' \in BOOLEAN
  <2>1. PICK ws \in SUBSET PutOffBy(s), keeps \in Keeps(s) : WorkLeft(s, ws, keeps)
    BY EndIs
  <2>2. ws \subseteq Work /\ AtOnce(ws) \subseteq Work
    BY WorkIs DEF AtOnce
  <2>3. toBeDone' \subseteq Work /\ settled' \union warned' \subseteq Work
    BY <2>1, <2>2 DEF WorkLeft, Types
  <2>4. auto' \in BOOLEAN
    BY DEF StepEnds, Types
  <2> QED BY <2>3, <2>4
<1>3. s \in Steps \union {""}
  OBVIOUS
<1>4. Closed' /\ Founded'
  BY <1>1, <1>3, ReachableKept
<1>5. step # "finished"
  BY <1>1, StepsAre DEF Early, Late
<1>6. "exitInstall" \in reachable' \ done' /\ reachable' \in SUBSET Steps
  BY <1>1, <1>5 DEF ExitOpen, Types, ReachableNow
<1>7. order' \in Orders /\ reachable' \in SUBSET Steps /\ reachable' \ done' # {}
  BY <1>1, <1>6
<1>8. step' \in Steps
  BY <1>1, <1>7, NextIsFirst
<1>9. done' \subseteq Steps \union {""}
  BY <1>1 DEF Types
<1>10. Types' /\ ExitOpen'
  BY <1>2, <1>6, <1>7, <1>8, <1>9 DEF Types, ExitOpen
<1>11. "installPackages" \in done' => Early \subseteq done'
  <2>1. CASE "installPackages" \in done
    <3>1. Undone(s) = {} /\ s # "choosePackages"
      BY <1>1, <2>1, StillDone
    <3> QED BY <1>1, <2>1, <3>1 DEF AfterPackages
  <2>2. CASE "installPackages" \notin done /\ s = "installPackages"
    <3>1. done' = done \union {"installPackages"}
      BY <1>1, <2>2, UndoneAre
    <3> QED BY <1>1, <2>2, <3>1 DEF BeforePackages
  <2>3. CASE "installPackages" \notin done /\ s # "installPackages"
    BY <1>1, <2>3
  <2> QED BY <2>1, <2>2, <2>3
<1> QED BY <1>1, <1>4, <1>8, <1>10, <1>11, NextRuns

(* The exit: declined, early, or the end.                                  *)
LEMMA ExitFollows ==
  ASSUME Control, Finish \/ QuitEarly \/ ExitDeclined
  PROVE  Control'
<1> USE DEF Control
<1>1. step = "exitInstall" /\ "exitInstall" \in reachable \ done
  BY DEF Finish, QuitEarly, ExitDeclined, ExitOpen
<1>2. "installPackages" \in done /\ Early \subseteq done
  BY <1>1 DEF BeforePackages, AfterPackages, Early
<1>3. Undone("exitInstall") = {} /\ Undone("") = {}
  BY UndoneAre
<1>4. CASE QuitEarly
  <2>1. UNCHANGED <<done, reachable, order, auto, toBeDone, settled, warned>> /\ step' = "quit"
    BY <1>4 DEF QuitEarly, work
  <2> QED BY <1>1, <1>2, <2>1 DEF Types, ExitOpen, Closed, Founded, BeforePackages, AfterPackages
<1>5. ASSUME NEW s \in {"", "exitInstall"}, Leaving(s, Body(s, {}, TRUE))
      PROVE  /\ done' = done \union {s}
             /\ reachable' = (reachable \union ReachableNow(done')) \ ({s} \intersect {"exitInstall"})
             /\ toBeDone' \subseteq Work /\ settled' \subseteq Work /\ warned' \subseteq Work
             /\ Closed' /\ Founded'
  <2>1. /\ Body(s, {}, TRUE).done = done /\ Body(s, {}, TRUE).toBeDone = toBeDone
        /\ Body(s, {}, TRUE).settled = settled /\ Body(s, {}, TRUE).warned = warned
    BY <1>3 DEF Body, AtOnce
  <2> DEFINE body == Body(s, {}, TRUE)
  <2>0. Leaving(s, body) /\ reachable \subseteq Steps
    BY <1>5 DEF Types
  <2> HIDE DEF body
  <2>4. /\ done' = body.done \union {s}
        /\ reachable' = (reachable \union ReachableNow(done')) \ ({s} \intersect {"exitInstall"})
        /\ toBeDone' = {w \in body.toBeDone : Until(w) # s}
        /\ settled' \union warned' =
             body.settled \union body.warned \union {w \in body.toBeDone : Until(w) = s}
    BY <2>0, LeavingIs
  <2>2. /\ done' = done \union {s}
        /\ toBeDone' \subseteq Work /\ settled' \subseteq Work /\ warned' \subseteq Work
    BY <2>1, <2>4 DEF Types, body
  <2>3. done' = (done \ Undone(s)) \union {s} /\ s \in Steps \union {""}
    BY <1>3, <2>2, StepsAre
  <2>5. s = "" \/ step = s
    BY <1>1
  <2>6. Closed' /\ Founded'
    BY <1>1, <2>3, <2>4, <2>5, ReachableKept
  <2> QED BY <2>2, <2>4, <2>6
<1>6. CASE ExitDeclined
  <2>1. Leaving("", Body("", {}, TRUE)) /\ UNCHANGED <<order, auto>>
        /\ step' = NextStep(done', reachable', order')
    BY <1>6 DEF ExitDeclined
  <2>2. /\ done' = done \union {""} /\ reachable' = reachable \union ReachableNow(done')
        /\ toBeDone' \subseteq Work /\ settled' \subseteq Work /\ warned' \subseteq Work
        /\ Closed' /\ Founded'
    BY <1>5, <2>1
  <2>3. "exitInstall" \in reachable' \ done' /\ reachable' \in SUBSET Steps /\ order' \in Orders
    BY <1>1, <2>1, <2>2 DEF Types, ReachableNow
  <2>4. step' \in Steps
    <3>1. reachable' \ done' # {}
      BY <2>3
    <3> QED BY <2>1, <2>3, <3>1, NextIsFirst
  <2>5. Types' /\ ExitOpen'
    BY <2>1, <2>2, <2>3, <2>4 DEF Types, ExitOpen
  <2> QED BY <1>2, <2>1, <2>2, <2>4, <2>5, NextRuns
<1>7. CASE Finish
  <2>1. /\ Leaving("exitInstall", Body("exitInstall", {}, TRUE)) /\ UNCHANGED <<order, auto>>
        /\ step' = "finished" /\ (auto \/ NextStep(done, reachable, order) = "exitInstall")
    BY <1>1, <1>7 DEF Finish, Asks, AllDone
  <2>2. /\ done' = done \union {"exitInstall"} /\ reachable' \subseteq reachable \union ReachableNow(done')
        /\ toBeDone' \subseteq Work /\ settled' \subseteq Work /\ warned' \subseteq Work
        /\ Closed' /\ Founded'
    BY <1>5, <2>1
  <2>3. Late \ {"configureServices"} \subseteq done
    BY <1>1, <1>2 DEF AfterPackages
  <2>4. auto \/ "configureServices" \in done
    <3>1. order \in Orders /\ reachable \in SUBSET Steps /\ reachable \ done # {}
      BY <1>1 DEF Types
    <3>2. auto \/ reachable \ done = {"exitInstall"}
      BY <2>1, <3>1, NextIsFirst
    <3>3. "configureServices" \in reachable
      BY <1>2, Table, StepsAre DEF Closed, Early, Late
    <3> QED BY <3>2, <3>3
  <2>5. Types' /\ ExitOpen'
    <3>1. "exitInstall" \in Steps
      BY StepsAre
    <3> QED BY <2>1, <2>2, <3>1 DEF Types, ExitOpen, ReachableNow
  <2>6. BeforePackages' /\ AfterPackages'
    BY <1>2, <2>1, <2>2, <2>3, <2>4 DEF BeforePackages, AfterPackages
  <2> QED BY <2>2, <2>5, <2>6
<1> QED BY <1>4, <1>6, <1>7

-----------------------------------------------------------------------------
(* The work that is put off. *)

(* Where the packages stand decides what runs: once they are there, only   *)
(* steps that put off no work that waits for them and format nothing.      *)
LEMMA Standing ==
  ASSUME Control, NEW s \in Steps, step = s
  PROVE  /\ "installPackages" \in done =>
              /\ Undone(s) = {} /\ Keeps(s) = {TRUE}
              /\ s \notin Early
         /\ "installPackages" \notin done => s # "exitInstall"
<1>1. "installPackages" \in done => s \in Late \union {"exitInstall"}
  BY StepsAre DEF Control, AfterPackages, Early, Late
<1>2. s \in Late \union {"exitInstall"} => s \notin Early /\ s # "formatPartitions"
  BY DEF Early, Late
<1>3. s \in Late \union {"exitInstall"} => Undone(s) = {}
  BY UndoneAre DEF Late
<1>4. "installPackages" \notin done => s # "exitInstall"
  BY DEF Control, BeforePackages, Early
<1> QED BY <1>1, <1>2, <1>3, <1>4 DEF Keeps

LEMMA ErrorWork ==
  ASSUME IInv, NEW s \in Steps, Dies(s)
  PROVE  /\ WaitsFor' /\ NotLost'
         /\ "installPackages" \in done => "installPackages" \in done' /\ WorkStays
<1>1. PICK ws \in SUBSET PutOffBy(s), keeps \in Keeps(s) :
        /\ done' = done \ Undone(s)
        /\ toBeDone' = (toBeDone \union ws) \ AtOnce(ws)
        /\ settled' = (IF keeps THEN settled ELSE {}) \union AtOnce(ws)
        /\ warned' = IF keeps THEN warned ELSE {}
  BY DEF Dies, BodiesDied, Body
<1>2. step = s /\ Control /\ WaitsFor /\ NotLost
  BY DEF Dies, IInv
<1>3. /\ "installPackages" \in done => Undone(s) = {} /\ Keeps(s) = {TRUE} /\ s \notin Early
      /\ "installPackages" \notin Undone(s)
  BY <1>2, Standing, UndoneAre DEF Undone
<1>4. "installPackages" \in done => "installPackages" \in done' /\ WorkStays
  <2>1. ASSUME "installPackages" \in done PROVE keeps
    <3>1. Keeps(s) = {TRUE}
      BY <1>3, <2>1
    <3>2. keeps \in {TRUE}
      BY <3>1, Zenon
    <3>3. keeps = TRUE
      BY <3>2, Zenon
    <3> QED BY <3>3, Zenon
  <2>2. "installPackages" \in done => settled \subseteq settled' /\ warned \subseteq warned'
    BY <1>1, <2>1
  <2> QED BY <1>1, <1>3, <2>2 DEF WorkStays
<1>5. WaitsFor'
  BY <1>1, <1>2 DEF WaitsFor, AtOnce
<1>6. NotLost'
  <2> SUFFICES ASSUME NEW x \in {"selectLanguage", "selectMouse", "miscellaneous"}, x \in done',
                      NEW w \in PutOffBy(x) \ {"langs"}
               PROVE  IF "installPackages" \in done' THEN w \in settled' \union warned' ELSE w \in toBeDone'
    BY DEF NotLost
  <2>1. IF "installPackages" \in done THEN w \in settled \union warned ELSE w \in toBeDone
    BY <1>1, <1>2 DEF NotLost
  <2>2. Until(w) = "installPackages"
    BY WorkIs
  <2>3. "installPackages" \in done' <=> "installPackages" \in done
    BY <1>1, <1>3
  <2>4. CASE "installPackages" \in done
    BY <1>4, <2>1, <2>3, <2>4 DEF WorkStays
  <2>5. CASE "installPackages" \notin done
    BY <1>1, <2>1, <2>2, <2>3, <2>5 DEF AtOnce
  <2> QED BY <2>4, <2>5
<1> QED BY <1>4, <1>5, <1>6

LEMMA EndWork ==
  ASSUME IInv, NEW s \in Steps, StepEnds(s)
  PROVE  /\ WaitsFor' /\ NotLost'
         /\ "installPackages" \in done => "installPackages" \in done' /\ WorkStays
<1>1. Control /\ WaitsFor /\ NotLost /\ Types
  BY DEF IInv, Control
<1>2. /\ step = s /\ s # "exitInstall"
      /\ \/ done' = (done \ Undone(s)) \union {s}
         \/ s = "choosePackages" /\ done' = (done \ {"installPackages"}) \union {s}
  BY <1>1, EndIs
<1>3. PICK ws \in SUBSET PutOffBy(s), keeps \in Keeps(s) :
        PutOffBy(s) \ ws \subseteq Optional /\ WorkLeft(s, ws, keeps)
  BY <1>1, EndIs
<1> DEFINE later == (toBeDone \union ws) \ AtOnce(ws)
<1>4. {w \in later : Until(w) = s} \subseteq settled' \union warned'
  BY <1>3 DEF WorkLeft
<1>5. toBeDone' = {w \in later : Until(w) # s}
  BY <1>3 DEF WorkLeft
<1>6. /\ "installPackages" \in done => Undone(s) = {} /\ Keeps(s) = {TRUE} /\ s \notin Early
      /\ "choosePackages" \in Early
  BY <1>1, <1>2, Standing DEF Early
<1>7. "installPackages" \in done => "installPackages" \in done' /\ WorkStays
  <2>1. ASSUME "installPackages" \in done PROVE keeps
    <3>1. Keeps(s) = {TRUE}
      BY <1>6, <2>1
    <3>2. keeps \in {TRUE}
      BY <3>1, Zenon
    <3>3. keeps = TRUE
      BY <3>2, Zenon
    <3> QED BY <3>3, Zenon
  <2>2. "installPackages" \in done => settled \subseteq settled' /\ warned \subseteq warned'
    BY <1>3, <2>1 DEF WorkLeft
  <2> QED BY <1>2, <1>6, <2>2 DEF WorkStays
<1>8. WaitsFor'
  <2>1. \A w \in later : Until(w) \notin done
    BY <1>1 DEF WaitsFor, AtOnce
  <2>2. \A t \in done' : t \in done \/ t = s
    BY <1>2
  <2> QED BY <1>5, <2>1, <2>2 DEF WaitsFor
<1>9. NotLost'
  <2> SUFFICES ASSUME NEW x \in {"selectLanguage", "selectMouse", "miscellaneous"}, x \in done',
                      NEW w \in PutOffBy(x) \ {"langs"}
               PROVE  IF "installPackages" \in done' THEN w \in settled' \union warned' ELSE w \in toBeDone'
    BY DEF NotLost
  <2>1. x \in done => IF "installPackages" \in done THEN w \in settled \union warned ELSE w \in toBeDone
    BY <1>1 DEF NotLost
  <2>2. Until(w) = "installPackages" /\ w \notin Optional /\ x \in Early
    BY WorkIs DEF Optional, Early
  <2>3. x \in done \/ x = s
    BY <1>2
  <2>4. CASE "installPackages" \in done
    BY <1>6, <1>7, <2>1, <2>2, <2>3, <2>4 DEF WorkStays
  <2>5. CASE "installPackages" \notin done
    <3>1. w \in later
      <4>1. w \notin AtOnce(ws)
        BY <2>2, <2>5 DEF AtOnce
      <4>2. x = s => w \in ws
        BY <1>3, <2>2
      <4> QED BY <2>1, <2>3, <2>5, <4>1, <4>2
    <3>2. "installPackages" \in done' <=> s = "installPackages"
      BY <1>2, <2>5
    <3> QED BY <1>4, <1>5, <2>2, <3>1, <3>2
  <2> QED BY <2>4, <2>5
<1> QED BY <1>7, <1>8, <1>9

LEMMA ExitWork ==
  ASSUME IInv, Finish \/ QuitEarly \/ ExitDeclined
  PROVE  /\ WaitsFor' /\ NotLost'
         /\ "installPackages" \in done => "installPackages" \in done' /\ WorkStays
<1>1. Control /\ WaitsFor /\ NotLost /\ Types
  BY DEF IInv, Control
<1>2. CASE QuitEarly
  <2>1. UNCHANGED <<done, toBeDone, settled, warned>>
    BY <1>2 DEF QuitEarly, work
  <2> QED BY <1>1, <2>1 DEF WaitsFor, NotLost, WorkStays
<1>3. CASE Finish \/ ExitDeclined
  <2>1. PICK s \in {"", "exitInstall"} : Leaving(s, Body(s, {}, TRUE))
    <3>1. CASE Finish
      <4>1. Leaving("exitInstall", Body("exitInstall", {}, TRUE))
        BY <3>1 DEF Finish
      <4> QED BY <4>1
    <3>2. CASE ExitDeclined
      <4>1. Leaving("", Body("", {}, TRUE))
        BY <3>2 DEF ExitDeclined
      <4> QED BY <4>1
    <3> QED BY <1>3, <3>1, <3>2
  <2> DEFINE body == Body(s, {}, TRUE)
  <2>2. /\ body.done = done \ Undone(s) /\ body.toBeDone = toBeDone
        /\ body.settled = settled /\ body.warned = warned
    BY DEF Body, AtOnce
  <2>3. Leaving(s, body) /\ reachable \subseteq Steps
    BY <1>1, <2>1 DEF Types
  <2> HIDE DEF body
  <2>4. /\ done' = body.done \union {s}
        /\ toBeDone' = {w \in body.toBeDone : Until(w) # s}
        /\ body.settled \subseteq settled' /\ body.warned \subseteq warned'
    BY <2>3, LeavingIs
  <2>5. Undone(s) = {} /\ \A w : Until(w) # s
    BY UndoneAre DEF Until
  <2>6. done' = done \union {s} /\ toBeDone' = toBeDone /\ WorkStays
    BY <2>2, <2>4, <2>5 DEF WorkStays
  <2>7. WaitsFor'
    BY <1>1, <2>5, <2>6 DEF WaitsFor
  <2>8. NotLost'
    <3>1. "installPackages" \in done
      BY <1>1, <1>3 DEF Finish, ExitDeclined, Control, BeforePackages, Early
    <3>2. \A x \in {"selectLanguage", "selectMouse", "miscellaneous"} : x \in done' => x \in done
      BY <2>1, <2>6
    <3> QED BY <1>1, <2>6, <3>1, <3>2 DEF NotLost, WorkStays
  <2> QED BY <2>6, <2>7, <2>8
<1> QED BY <1>2, <1>3

-----------------------------------------------------------------------------
(* The invariant, and what follows from it. *)

LEMMA InitHolds == Init => IInv
<1> SUFFICES ASSUME Init PROVE IInv
  OBVIOUS
<1>1. /\ step = "selectLanguage" /\ done = {} /\ reachable = {s \in Steps : Needs(s) = {}}
      /\ order \in Orders /\ auto \in BOOLEAN
      /\ toBeDone = {} /\ settled = {} /\ warned = {}
  BY NamesOfRows DEF Init, Orders
<1>2. \A s \in reachable : s \notin Late /\ s \notin {"doPartitionDisks", "formatPartitions",
                                                      "choosePackages", "installPackages"}
  BY <1>1, Table DEF Late
<1>3. Types /\ ExitOpen /\ Closed
  BY <1>1, Table, StepsAre DEF Types, ExitOpen, Closed, Early
<1>4. Founded
  BY <1>1, <1>2 DEF Founded, Late
<1>5. BeforePackages /\ AfterPackages
  BY <1>1 DEF BeforePackages, AfterPackages, Early
<1> QED BY <1>1, <1>3, <1>4, <1>5 DEF IInv, Control, WaitsFor, NotLost

LEMMA NextFollows ==
  ASSUME IInv, Next
  PROVE  /\ IInv'
         /\ "installPackages" \in done => "installPackages" \in done' /\ WorkStays
<1>1. Control
  BY DEF IInv
<1>2. CASE Finish \/ QuitEarly \/ ExitDeclined
  BY <1>1, <1>2, ExitFollows, ExitWork DEF IInv
<1>3. ASSUME NEW s \in Steps, StepEnds(s)
      PROVE  /\ IInv'
             /\ "installPackages" \in done => "installPackages" \in done' /\ WorkStays
  BY <1>1, <1>3, EndFollows, EndWork DEF IInv
<1>4. ASSUME NEW s \in Steps, StepFails(s) \/ ErrorFails(s) \/ ErrorExits(s)
      PROVE  /\ IInv'
             /\ "installPackages" \in done => "installPackages" \in done' /\ WorkStays
  <2>1. Dies(s)
    BY <1>4 DEF StepFails, ErrorFails, ErrorExits
  <2> QED BY <1>1, <1>4, <2>1, ErrorFollows, ErrorWork DEF IInv
<1> QED BY <1>2, <1>3, <1>4 DEF Next

(* Reachability, the packages and the work keep to the invariant, however  *)
(* steps end or die (real_main, leavingStep).                              *)
THEOREM InvariantHolds == Spec => []IInv
<1>1. IInv /\ [Next]_vars => IInv'
  <2> SUFFICES ASSUME IInv, [Next]_vars PROVE IInv'
    OBVIOUS
  <2>1. CASE Next
    BY <2>1, NextFollows
  <2>2. CASE UNCHANGED vars
    BY <2>2 DEF vars, work, IInv, Control, Types, ExitOpen, Closed, Founded, BeforePackages,
                AfterPackages, WaitsFor, NotLost
  <2> QED BY <2>1, <2>2
<1> QED BY <1>1, InitHolds, PTL DEF Spec

(* What runs is a step of the table, and the order has each step once.     *)
THEOREM TypeCorrect == Spec => []TypeOK
<1>1. IInv => TypeOK
  <2> SUFFICES ASSUME IInv PROVE TypeOK
    OBVIOUS
  <2>1. Types
    BY DEF IInv, Control
  <2>2. DOMAIN order = Rows /\ {order[i] : i \in Rows} = Steps
    BY <2>1, OrderTyped DEF Types
  <2> QED BY <2>1, <2>2 DEF TypeOK, Types, Ended
<1> QED BY <1>1, InvariantHolds, PTL

(* No step of the installer runs before the steps it needs, whatever died  *)
(* or was run again before, although leavingStep takes the reachability of *)
(* no step away and errorInStep runs any reachable one.                    *)
THEOREM NeedsDoneHolds == Spec => []NeedsDone
<1>1. IInv => NeedsDone
  <2> SUFFICES ASSUME IInv, ~Ended PROVE Needs(step) \subseteq done
    BY DEF NeedsDone
  <2>1. /\ step \in Early \union Late \union {"exitInstall"}
        /\ BeforePackages /\ AfterPackages
    BY StepsAre DEF IInv, Control, Types, Ended
  <2>2. CASE "installPackages" \notin done
    <3>1. step \in Early
      BY <2>1, <2>2 DEF BeforePackages, Ended
    <3>2. /\ step = "doPartitionDisks" => "selectInstallClass" \in done
          /\ step = "formatPartitions" => "doPartitionDisks" \in done
          /\ step = "choosePackages"   => "formatPartitions" \in done
          /\ step = "installPackages"  => {"formatPartitions", "selectInstallClass"} \subseteq done
      BY <2>1, <2>2 DEF BeforePackages, Early
    <3> QED BY <3>1, <3>2, Table DEF Early
  <2>3. CASE "installPackages" \in done
    <3>1. /\ step \in Late \union {"exitInstall"}
          /\ {"installPackages", "formatPartitions"} \subseteq done
          /\ step = "configureX" => "setupBootloader" \in done
      BY <2>1, <2>3 DEF AfterPackages, Early, Ended
    <3> QED BY <3>1, Table DEF Late
  <2> QED BY <2>2, <2>3
<1> QED BY <1>1, InvariantHolds, PTL

(* An installation is called complete only when all is done: exitInstall   *)
(* is the last of the list, so getNextStep only returns it when no other   *)
(* step is ready, and otherwise only an error in the services leads to it. *)
(* Then it asks, or, when it is automatic, passes over the services alone. *)
THEOREM CompleteWhenDoneHolds == Spec => []CompleteWhenDone
<1>1. IInv => CompleteWhenDone
  <2> SUFFICES ASSUME IInv, step = "finished"
               PROVE  /\ Steps \ {"configureServices"} \subseteq done
                      /\ ~auto => Steps \subseteq done
    BY DEF CompleteWhenDone
  <2>1. BeforePackages /\ AfterPackages
    BY DEF IInv, Control
  <2>2. "installPackages" \in done
    BY <2>1 DEF BeforePackages, Early
  <2>3. /\ Early \subseteq done /\ Late \ {"configureServices"} \subseteq done
        /\ "exitInstall" \in done /\ (auto \/ "configureServices" \in done)
    BY <2>1, <2>2 DEF AfterPackages
  <2> QED BY <2>3, StepsAre
<1> QED BY <1>1, InvariantHolds, PTL

(* What addToBeDone put off for the packages or the network is not lost:   *)
(* when the installation is complete leavingStep has run it on the root    *)
(* file system that is there, and where it died it has said so.            *)
THEOREM WorkDoneOrToldHolds == Spec => []WorkDoneOrTold
<1>1. IInv => WorkDoneOrTold
  <2> SUFFICES ASSUME IInv, step = "finished"
               PROVE  {"locale", "mouse", "security"} \subseteq settled \union warned /\ toBeDone = {}
    BY DEF WorkDoneOrTold
  <2>1. BeforePackages /\ AfterPackages /\ WaitsFor /\ NotLost /\ toBeDone \subseteq Work
    BY DEF IInv, Control, Types
  <2>2. "installPackages" \in done
    BY <2>1 DEF BeforePackages, Early
  <2>3. /\ {"selectLanguage", "selectMouse", "miscellaneous", "formatPartitions"} \subseteq done
        /\ "configureNetwork" \in done
    BY <2>1, <2>2 DEF AfterPackages, Early, Late
  <2>4. {"locale", "mouse", "security"} \subseteq settled \union warned
    <3>1. \A s \in {"selectLanguage", "selectMouse", "miscellaneous"} :
            PutOffBy(s) \ {"langs"} \subseteq settled \union warned
      BY <2>1, <2>2, <2>3 DEF NotLost
    <3> QED BY <3>1, WorkIs
  <2>5. toBeDone = {}
    BY <2>1, <2>2, <2>3 DEF WaitsFor, Until
  <2> QED BY <2>4, <2>5
<1> QED BY <1>1, InvariantHolds, PTL

(* Once installPackages is done no step takes that back, formats the root  *)
(* file system or loses what was written to it.                            *)
THEOREM PackagesStayHolds == Spec => PackagesStay
<1>1. IInv /\ [Next]_vars =>
        [("installPackages" \in done) =>
           ("installPackages" \in done' /\ settled \subseteq settled')]_vars
  BY NextFollows DEF WorkStays
<1> QED BY <1>1, InvariantHolds, PTL DEF Spec, PackagesStay

-----------------------------------------------------------------------------
(* The steps there may still be when none fails.  A step that ends is      *)
(* done, and undoes at most one that weighs less; one that was done        *)
(* already, as after an error, is followed by one that was not.            *)

Partitioning == {"doPartitionDisks", "formatPartitions", "choosePackages", "installPackages"}
Plain        == Steps \ Partitioning

ToDo(s, weight) == IF s \in done THEN 0 ELSE weight

Heavy ==
  ToDo("doPartitionDisks", 4) + ToDo("formatPartitions", 3)
    + ToDo("choosePackages", 2) + ToDo("installPackages", 1)
Again      == IF step \in done THEN 4 ELSE 0
NotTheEnd  == IF step = "exitInstall" /\ Asks THEN 1 ELSE 0
StepsLeft  == Cardinality(Plain \ done) + Heavy + Again + NotTheEnd

(* Thirteen steps are never undone.                                        *)
LEMMA PlainCount ==
  ASSUME NEW d
  PROVE  /\ IsFiniteSet(Plain \ d) /\ Cardinality(Plain \ d) \in 0 .. 13
         /\ \A s \in Plain \ d : Cardinality((Plain \ d) \ {s}) = Cardinality(Plain \ d) - 1
<1> DEFINE R    == (1 .. 17) \ (7 .. 10)
           name == [i \in R |-> installSteps[i].name]
<1>1. IsFiniteSet(R) /\ Cardinality(R) = 13
  <2>1. IsFiniteSet(1 .. 17) /\ Cardinality(1 .. 17) = 17
    <3>1. 1 \in Int /\ 17 \in Int /\ 17 - 1 + 1 = 17 /\ ~(1 > 17)
      OBVIOUS
    <3> QED BY ONLY <3>1, FS_Interval
  <2>2. Cardinality(7 .. 10) = 4
    <3>1. 7 \in Int /\ 10 \in Int /\ 10 - 7 + 1 = 4 /\ ~(7 > 10)
      OBVIOUS
    <3> QED BY ONLY <3>1, FS_Interval
  <2>3. (1 .. 17) \cap (7 .. 10) = 7 .. 10
    OBVIOUS
  <2>4. /\ IsFiniteSet((1 .. 17) \ (7 .. 10))
        /\ Cardinality((1 .. 17) \ (7 .. 10))
             = Cardinality(1 .. 17) - Cardinality((1 .. 17) \cap (7 .. 10))
    BY <2>1, FS_Difference
  <2> QED BY <2>1, <2>2, <2>3, <2>4
<1>2. \A i \in R : name[i] \in Plain
  BY NamesOfRows DEF Plain, Steps, Partitioning
<1>3. \A s \in Plain : \E i \in R : name[i] = s
  <2> SUFFICES ASSUME NEW s \in Plain
               PROVE  \E i \in R : name[i] = s
    OBVIOUS
  <2>1. PICK i \in 1 .. 17 : installSteps[i].name = s
    BY NamesOfRows DEF Plain, Steps
  <2>2. i \notin 7 .. 10
    BY <2>1, NamesOfRows DEF Plain, Partitioning
  <2> QED BY <2>1, <2>2
<1>4. name \in [R -> Plain]
  BY <1>2
<1> HIDE DEF R, name
<1>5. name \in Surjection(R, Plain)
  BY <1>3, <1>4 DEF Surjection
<1>6. IsFiniteSet(Plain) /\ Cardinality(Plain) <= 13
  BY <1>1, <1>5, FS_Surjection
<1>7. IsFiniteSet(Plain \ d) /\ Cardinality(Plain \ d) <= Cardinality(Plain)
  <2>1. Plain \ d \subseteq Plain
    OBVIOUS
  <2> QED BY <1>6, <2>1, FS_Subset
<1>8. Cardinality(Plain) \in Nat /\ Cardinality(Plain \ d) \in Nat
  BY <1>6, <1>7, FS_CardinalityType
<1>9. \A s \in Plain \ d : Cardinality((Plain \ d) \ {s}) = Cardinality(Plain \ d) - 1
  BY <1>7, FS_RemoveElement
<1> QED BY <1>6, <1>7, <1>8, <1>9

(* What is left is a number, before a step and after it.                   *)
LEMMA StepsLeftType ==
  /\ Cardinality(Plain \ done) \in 0 .. 13 /\ Cardinality(Plain \ done') \in 0 .. 13
  /\ Heavy \in 0 .. 10 /\ Heavy' \in 0 .. 10
  /\ Again \in {0, 4} /\ Again' \in {0, 4}
  /\ NotTheEnd \in {0, 1} /\ NotTheEnd' \in {0, 1}
  /\ StepsLeft \in 0 .. 28 /\ StepsLeft' \in 0 .. 28
<1>1. Heavy \in 0 .. 10 /\ Heavy' \in 0 .. 10
  BY DEF Heavy, ToDo
<1>2. /\ Again \in {0, 4} /\ Again' \in {0, 4}
      /\ NotTheEnd \in {0, 1} /\ NotTheEnd' \in {0, 1}
  BY DEF Again, NotTheEnd
<1>3. Cardinality(Plain \ done) \in 0 .. 13 /\ Cardinality(Plain \ done') \in 0 .. 13
  BY PlainCount
<1> QED BY <1>1, <1>2, <1>3 DEF StepsLeft

(* What runs next is not done, nor an exit that is not the end.            *)
LEMMA NextIsNew ==
  ASSUME reachable' \in SUBSET Steps, order' \in Orders, reachable' \ done' # {},
         step' = NextStep(done', reachable', order')
  PROVE  Again' = 0 /\ NotTheEnd' = 0
<1>1. step' \notin done'
  BY NextIsFirst
<1>2. step' = "exitInstall" => AllDone'
  BY DEF AllDone
<1> QED BY <1>1, <1>2 DEF Again, NotTheEnd, Asks

(* What a step that ends does to the steps that are done.                  *)
LEMMA DoneChanges ==
  ASSUME NEW s \in Steps,
         \/ done' = (done \ Undone(s)) \union {s}
         \/ s = "choosePackages" /\ done' = (done \ {"installPackages"}) \union {s}
  PROVE  IF s \in done
         THEN Cardinality(Plain \ done') <= Cardinality(Plain \ done) /\ Heavy' <= Heavy + 3
         ELSE \/ Cardinality(Plain \ done') = Cardinality(Plain \ done) - 1 /\ Heavy' = Heavy
              \/ Cardinality(Plain \ done') = Cardinality(Plain \ done) /\ Heavy' < Heavy
<1>1. CASE s \in Plain
  <2>1. done' = done \union {s} /\ s \notin Partitioning
    BY <1>1, UndoneAre DEF Plain, Partitioning
  <2>2. Heavy' = Heavy
    BY <2>1 DEF Heavy, ToDo, Partitioning
  <2>3. CASE s \in done
    <3>1. Plain \ done' = Plain \ done
      BY <2>1, <2>3
    <3> QED BY <2>2, <2>3, <3>1, PlainCount, StepsLeftType
  <2>4. CASE s \notin done
    <3>1. Plain \ done' = (Plain \ done) \ {s} /\ s \in Plain \ done
      BY <1>1, <2>1, <2>4
    <3> QED BY <2>2, <2>4, <3>1, PlainCount
  <2> QED BY <2>3, <2>4
<1>2. CASE s \in Partitioning
  <2>1. Plain \ done' = Plain \ done
    BY <1>2, UndoneAre DEF Plain, Partitioning
  <2>2. /\ s = "doPartitionDisks" => done' = (done \ {"formatPartitions"}) \union {s}
        /\ s = "formatPartitions" => done' = (done \ {"choosePackages"}) \union {s}
        /\ s = "choosePackages"   => \/ done' = done \union {s}
                                     \/ done' = (done \ {"installPackages"}) \union {s}
        /\ s = "installPackages"  => done' = done \union {s}
    BY <1>2, UndoneAre
  <2>3. IF s \in done THEN Heavy' <= Heavy + 3 ELSE Heavy' < Heavy
    <3>1. CASE s = "doPartitionDisks"
      BY <2>2, <3>1 DEF Heavy, ToDo
    <3>2. CASE s = "formatPartitions"
      BY <2>2, <3>2 DEF Heavy, ToDo
    <3>3. CASE s = "choosePackages"
      BY <2>2, <3>3 DEF Heavy, ToDo
    <3>4. CASE s = "installPackages"
      BY <2>2, <3>4 DEF Heavy, ToDo
    <3> QED BY <1>2, <3>1, <3>2, <3>3, <3>4 DEF Partitioning
  <2> QED BY <2>1, <2>3, StepsLeftType
<1> QED BY <1>1, <1>2 DEF Plain

(* A step ends that was to be done, or is done another time.               *)
LEMMA EndLeavesLess ==
  ASSUME Control, NEW s \in Steps, StepEnds(s)
  PROVE  StepsLeft' < StepsLeft
<1>1. /\ step = s /\ s # "exitInstall" /\ step' = NextStep(done', reachable', order')
      /\ \/ done' = (done \ Undone(s)) \union {s}
         \/ s = "choosePackages" /\ done' = (done \ {"installPackages"}) \union {s}
      /\ reachable' = (reachable \union ReachableNow(done')) \ ({s} \intersect {"exitInstall"})
      /\ order' \in Orders
  BY EndIs DEF Control
<1>2. Again' = 0 /\ NotTheEnd' = 0
  <2>1. step # "finished"
    BY <1>1, StepsAre DEF Early, Late
  <2>2. "exitInstall" \in reachable' \ done' /\ reachable' \in SUBSET Steps
    BY <1>1, <2>1 DEF Control, ExitOpen, Types, ReachableNow
  <2> QED BY <1>1, <2>2, NextIsNew
<1>3. NotTheEnd = 0 /\ Again = IF s \in done THEN 4 ELSE 0
  BY <1>1 DEF NotTheEnd, Again
<1>4. CASE s \in done
  <2>1. Cardinality(Plain \ done') <= Cardinality(Plain \ done) /\ Heavy' <= Heavy + 3
    BY <1>1, <1>4, DoneChanges
  <2> QED BY <1>2, <1>3, <1>4, <2>1, StepsLeftType DEF StepsLeft
<1>5. CASE s \notin done
  <2>1. \/ Cardinality(Plain \ done') = Cardinality(Plain \ done) - 1 /\ Heavy' = Heavy
        \/ Cardinality(Plain \ done') = Cardinality(Plain \ done) /\ Heavy' < Heavy
    BY <1>1, <1>5, DoneChanges
  <2> QED BY <1>2, <1>3, <1>5, <2>1, StepsLeftType DEF StepsLeft
<1> QED BY <1>4, <1>5

(* An exit that is declined leads to a step that is not done.              *)
LEMMA DeclinedLeavesLess ==
  ASSUME Control, ExitDeclined
  PROVE  StepsLeft' < StepsLeft
<1> DEFINE body == Body("", {}, TRUE)
<1>1. body.done = done
  BY UndoneAre DEF Body
<1>2. Leaving("", body) /\ reachable \subseteq Steps
  BY DEF ExitDeclined, Control, Types
<1> HIDE DEF body
<1>3. /\ done' = done \union {""}
      /\ reachable' = (reachable \union ReachableNow(done')) \ ({""} \intersect {"exitInstall"})
  BY <1>1, <1>2, LeavingIs
<1>4. "exitInstall" \in reachable \ done /\ step = "exitInstall" /\ Asks
  BY DEF ExitDeclined, Control, ExitOpen
<1>5. Again' = 0 /\ NotTheEnd' = 0
  <2>1. "exitInstall" \in reachable' \ done' /\ reachable' \in SUBSET Steps
    BY <1>2, <1>3, <1>4 DEF ReachableNow
  <2>2. order' \in Orders /\ step' = NextStep(done', reachable', order')
    BY DEF ExitDeclined, Control, Types
  <2> QED BY <2>1, <2>2, NextIsNew
<1>6. NotTheEnd = 1 /\ Again = 0
  BY <1>4 DEF NotTheEnd, Again
<1>7. Plain \ done' = Plain \ done /\ Heavy' = Heavy
  BY <1>3, StepsAre DEF Plain, Heavy, ToDo, Early, Late
<1> QED BY <1>5, <1>6, <1>7, StepsLeftType DEF StepsLeft

(* The installer cannot go round without an error: between two steps that  *)
(* fail, and after the last one, there are at most 28, although steps are  *)
(* run again, undo others and ask for others again, and the exit may be    *)
(* declined.                                                               *)
THEOREM FewStepsWithoutErrors ==
  Spec => [](StepsLeft \in 0 .. 28) /\ [][Failing \/ Ended' \/ StepsLeft' < StepsLeft]_vars
<1>1. StepsLeft \in 0 .. 28
  BY StepsLeftType
<1>2. IInv /\ [Next]_vars => [Failing \/ Ended' \/ StepsLeft' < StepsLeft]_vars
  <2> SUFFICES ASSUME IInv, Next, ~Failing, ~Ended' PROVE StepsLeft' < StepsLeft
    OBVIOUS
  <2>1. Control
    BY DEF IInv
  <2>2. ExitDeclined \/ \E s \in Steps : StepEnds(s)
    BY DEF Next, Failing, Ended, Finish, QuitEarly, ErrorExits
  <2> QED BY <2>1, <2>2, EndLeavesLess, DeclinedLeavesLess
<1> QED BY <1>1, <1>2, InvariantHolds, PTL DEF Spec
=============================================================================
