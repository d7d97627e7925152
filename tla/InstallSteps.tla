---------------------------- MODULE InstallSteps ----------------------------
(***************************************************************************)
(* The engine that runs the steps of the installer: the loop real_main of  *)
(* perl-install/install/install2.pm, leavingStep of install/steps.pm, the  *)
(* table of install/steps_list.pm and addToBeDone of install/any.pm.       *)
(*                                                                         *)
(* A step runs to its end or dies.  When it ends, the steps whose needs    *)
(* are done become reachable, and the work that was put off until this     *)
(* step is done; then the first reachable step that is not done runs.      *)
(* When it dies, the step its table row names runs instead.                *)
(***************************************************************************)
EXTENDS Integers

VARIABLES
  step,      \* $o->{step}, or how the installer ended
  done,      \* the steps with {done}
  reachable, \* the steps with {reachable}
  order,     \* $o->{orderedSteps}
  auto,      \* the {auto} of exitInstall
  toBeDone,  \* the work in the lists {toBeDone}
  settled,   \* work done on the root file system there is
  warned     \* work that died there, which was shown or logged

work == <<toBeDone, settled, warned>>
vars == <<step, done, reachable, order, auto, work>>

-----------------------------------------------------------------------------
(* The table of the steps; onError is relative to the row. *)

Step(n, r, e, needs) == [name |-> n, redoable |-> r, onError |-> e, needs |-> needs]

installSteps == <<
  Step("selectLanguage",          TRUE,   1, {}),
  Step("selectMouse",             TRUE,   1, {}),
  Step("setupSCSI",               TRUE,   0, {}),
  Step("selectInstallClass",      TRUE,   1, {}),
  Step("selectKeyboard",          TRUE,   1, {}),
  Step("miscellaneous",           TRUE,   1, {}),
  Step("doPartitionDisks",        TRUE,   0, {"selectInstallClass"}),
  Step("formatPartitions",        TRUE,  -1, {"doPartitionDisks"}),
  Step("choosePackages",          TRUE,  -2, {"formatPartitions"}),
  Step("installPackages",         TRUE,  -1, {"formatPartitions", "selectInstallClass"}),
  Step("setRootPassword_addUser", TRUE,   1, {"installPackages"}),
  Step("configureNetwork",        TRUE,   1, {"formatPartitions"}),
  Step("setupBootloader",         TRUE,   0, {"installPackages"}),
  Step("configureX",              TRUE,   1, {"formatPartitions", "setupBootloader"}),
  Step("summary",                 TRUE,   0, {"installPackages"}),
  Step("configureServices",       TRUE,   1, {"installPackages"}),
  Step("exitInstall",             FALSE,  0, {}) >>

Rows  == DOMAIN installSteps
Steps == {installSteps[i].name : i \in Rows}

RowOf(s)    == CHOOSE i \in Rows : installSteps[i].name = s
Needs(s)    == installSteps[RowOf(s)].needs
Redoable(s) == installSteps[RowOf(s)].redoable
OnError(s)  == installSteps[RowOf(s) + installSteps[RowOf(s)].onError].name

orderedInstallSteps == [i \in Rows |-> installSteps[i].name]

(* An upgrade partitions and formats right after selectInstallClass: the   *)
(* two, which stand together in the list, move up, and the steps they pass *)
(* move down.                                                              *)
UpgradeOrder(steps) ==
  LET i == CHOOSE i \in DOMAIN steps : steps[i] = "selectInstallClass"
      j == CHOOSE j \in DOMAIN steps : steps[j] = "formatPartitions"
  IN  [k \in DOMAIN steps |->
         CASE k = i + 1        -> "doPartitionDisks"
           [] k = i + 2        -> "formatPartitions"
           [] k \in i + 3 .. j -> steps[k - 2]
           [] OTHER            -> steps[k]]

(* getNextStep *)
NextStep(d, r, steps) ==
  LET ready == {i \in DOMAIN steps : steps[i] \in r \ d}
  IN  steps[CHOOSE i \in ready : \A j \in ready : i <= j]

-----------------------------------------------------------------------------
(* Work that a step puts off until another is done (addToBeDone): what is  *)
(* to be written to the root file system, and the step to wait for.        *)

Work == {"langs", "locale", "mouse", "keyboard", "security", "auth"}

Until(w) ==
  CASE w = "langs" -> "formatPartitions"
    [] w = "auth"  -> "configureNetwork"
    [] OTHER       -> "installPackages"

PutOffBy(s) ==
  CASE s = "selectLanguage"          -> {"langs", "locale"}
    [] s = "selectMouse"             -> {"mouse"}
    [] s = "selectKeyboard"          -> {"keyboard"}
    [] s = "miscellaneous"           -> {"security"}
    [] s = "setRootPassword_addUser" -> {"auth"}
    [] OTHER                         -> {}

(* The keyboard of an upgrade may be left as it is, and users need not be  *)
(* authenticated over the network.                                         *)
Optional == {"keyboard", "auth"}

-----------------------------------------------------------------------------
(* What a step does to the engine's state before it ends or dies. *)

(* Wrong: a step undoes what it needs and not what needs it. *)
UndoneNeeds(s) == IF s \in Steps THEN Needs(s) ELSE {}

(* Wrong: formatting asks for partitions again, not for packages. *)
UndoneBefore(s) ==
  CASE s = "doPartitionDisks" -> {"formatPartitions"}
    [] s = "formatPartitions" -> {"doPartitionDisks"}
    [] OTHER                  -> {}

(* The steps that have to be run again once s has begun. *)
Undone(s) ==
  CASE s = "doPartitionDisks" -> {"formatPartitions"}
    [] s = "formatPartitions" -> {"choosePackages"}
    [] OTHER                  -> {}

(* What stays on the root file system: formatPartitions may format it.     *)
Keeps(s) == IF s = "formatPartitions" THEN BOOLEAN ELSE {TRUE}

(* Wrong: work for a step that is done is put off all the same. *)
NothingAtOnce(ws) == {}

(* addToBeDone: work that waits for a step that is done is done at once.   *)
AtOnce(ws) == {w \in ws : Until(w) \in done}

(* The state after the body of s, which put off the work ws. *)
Body(s, ws, keeps) ==
  [done     |-> done \ Undone(s),
   toBeDone |-> (toBeDone \union ws) \ AtOnce(ws),
   settled  |-> (IF keeps THEN settled ELSE {}) \union AtOnce(ws),
   warned   |-> IF keeps THEN warned ELSE {}]

(* A body that dies may have put off only a part of its work, or died of   *)
(* the work it did at once.                                                *)
BodiesEnded(s) ==
  {Body(s, ws, keeps) : ws \in {w \in SUBSET PutOffBy(s) : PutOffBy(s) \ w \subseteq Optional},
                        keeps \in Keeps(s)}

BodiesDied(s) == {Body(s, ws, keeps) : ws \in SUBSET PutOffBy(s), keeps \in Keeps(s)}

(* choosePackages asks for an installation if packages are to be installed *)
(* although some were already.                                             *)
AskedAgain(s) == IF s = "choosePackages" THEN SUBSET {"installPackages"} ELSE {{}}

-----------------------------------------------------------------------------
(* Wrong: a step that needs several is not looked at. *)
ReachableOne(d) ==
  {s \in Steps : (s \notin d \/ Redoable(s)) /\ (Needs(s) = {} \/ \E t \in d : Needs(s) = {t})}

(* The steps leavingStep makes reachable. *)
ReachableNow(d) == {s \in Steps : (s \notin d \/ Redoable(s)) /\ Needs(s) \subseteq d}

(* The work that was put off until s is taken from its list, and each      *)
(* piece is done or dies, with a warning and for good.  One that was put   *)
(* off twice may do both.                                                  *)
DoWork(s, body) ==
  LET now == {w \in body.toBeDone : Until(w) = s}
  IN  \E well \in SUBSET now, ill \in SUBSET now :
        /\ well \union ill = now
        /\ toBeDone' = body.toBeDone \ now
        /\ settled' = body.settled \union well
        /\ warned' = body.warned \union ill

(* leavingStep makes no step unreachable but s. *)
Leaving(s, body) ==
  /\ done' = body.done \union {s}
  /\ reachable' = (reachable \union ReachableNow(done'))
                    \ {t \in Steps : t = s /\ ~Redoable(t)}
  /\ DoWork(s, body)

Init ==
  /\ step = installSteps[1].name
  /\ done = {} /\ reachable = {s \in Steps : Needs(s) = {}}
  /\ order = orderedInstallSteps
  /\ auto \in BOOLEAN
  /\ toBeDone = {} /\ settled = {} /\ warned = {}

(* The body of a step ends, and the next one runs. *)
StepEnds(s) ==
  /\ step = s /\ s # "exitInstall"
  /\ \E body \in BodiesEnded(s), again \in AskedAgain(s) :
       Leaving(s, [body EXCEPT !.done = @ \ again])
  /\ \/ UNCHANGED order
     \/ s = "selectInstallClass" /\ order' = UpgradeOrder(order)
  /\ step' = NextStep(done', reachable', order')
  /\ UNCHANGED auto

(* exitInstall asks first when there are other steps to do; an automatic   *)
(* one is another function, which does not look.                           *)
AllDone == NextStep(done, reachable, order) = "exitInstall"
Asks    == ~AllDone /\ ~auto

Finish ==
  /\ step = "exitInstall" /\ ~Asks
  /\ Leaving(step, Body(step, {}, TRUE))
  /\ step' = "finished"
  /\ UNCHANGED <<order, auto>>

QuitEarly ==
  /\ step = "exitInstall" /\ Asks
  /\ step' = "quit"
  /\ UNCHANGED <<done, reachable, order, auto, work>>

(* Wrong: the loop goes on with the step without a name. *)
ExitDeclinedStays ==
  /\ step = "exitInstall" /\ Asks
  /\ step' = ""
  /\ UNCHANGED <<done, reachable, order, auto, work>>

(* It leaves $o->{step} empty, for which leavingStep has nothing to add.   *)
ExitDeclined ==
  /\ step = "exitInstall" /\ Asks
  /\ Leaving("", Body("", {}, TRUE))
  /\ step' = NextStep(done', reachable', order)
  /\ UNCHANGED <<order, auto>>

(* The body of a step dies. *)
Dies(s) ==
  /\ step = s
  /\ \E body \in BodiesDied(s) :
       /\ done' = body.done
       /\ toBeDone' = body.toBeDone /\ settled' = body.settled /\ warned' = body.warned
  /\ UNCHANGED <<reachable, order>>

(* Wrong: the step to run after an error need not be reachable. *)
AfterErrorAny(s) == OnError(s)

(* The step that runs after an error in s. *)
AfterError(s) ==
  IF OnError(s) \in reachable THEN OnError(s) ELSE NextStep(done', reachable, order)

(* A step that failed is not automatic any more. *)
Shown(s) == auto' = (auto /\ s # "exitInstall")

(* The error is shown by errorInStep, or was before. *)
StepFails(s) == Dies(s) /\ step' = AfterError(s) /\ (Shown(s) \/ UNCHANGED auto)

(* errorInStep dies itself. *)
ErrorFails(s) == Dies(s) /\ step' = NextStep(done', reachable, order) /\ Shown(s)

(* Without a user to show it to, errorInStep ends the installer. *)
ErrorExits(s) == Dies(s) /\ step' = "quit" /\ UNCHANGED auto

Next ==
  \/ Finish \/ QuitEarly \/ ExitDeclined
  \/ \E s \in Steps : StepEnds(s) \/ StepFails(s) \/ ErrorFails(s) \/ ErrorExits(s)

Spec == Init /\ [][Next]_vars

(* Each step comes to its end, whatever that is. *)
FairSpec == Spec /\ WF_vars(Next)

-----------------------------------------------------------------------------
(* Properties. *)

Ended == step \in {"finished", "quit"}

(* Every variable has its type: what runs is a step, or nothing any more,  *)
(* and the order has each step once.                                       *)
TypeOK ==
  /\ step \in Steps \/ Ended
  /\ done \subseteq Steps \union {""} /\ reachable \subseteq Steps
  /\ DOMAIN order = Rows /\ {order[i] : i \in Rows} = Steps
  /\ auto \in BOOLEAN
  /\ toBeDone \subseteq Work /\ settled \subseteq Work /\ warned \subseteq Work

(* A step only runs when what it needs is done, although reachability goes *)
(* stale and an error may make any reachable step run.                     *)
NeedsDone == ~Ended => Needs(step) \subseteq done

(* Once the packages are installed they stay: no later step and no error   *)
(* leads back to the partitioning, which would format them away.           *)
PackagesStay ==
  [][("installPackages" \in done) =>
       ("installPackages" \in done' /\ settled \subseteq settled')]_vars

(* Work that was put off until the packages or the network were there is   *)
(* not lost: when the installation is complete it has been done on the     *)
(* file system that stays, or has died there with a warning, however often *)
(* steps were run again and whatever failed.                               *)
WorkDoneOrTold ==
  (step = "finished") =>
    /\ {"locale", "mouse", "security"} \subseteq settled \union warned
    /\ toBeDone = {}

(* The installer says that it is complete only when every step is done.    *)
(* An automatic exitInstall, run after an error, says so without looking:  *)
(* even then one step at most is not done, that of the services.           *)
CompleteWhenDone ==
  (step = "finished") =>
    /\ Steps \ {"configureServices"} \subseteq done
    /\ ~auto => Steps \subseteq done

(* If the steps stop failing, the installation ends. *)
Failing == \E s \in Steps : StepFails(s) \/ ErrorFails(s)

EndsUnlessFailing == []<><<Failing>>_vars \/ <>Ended
=============================================================================
