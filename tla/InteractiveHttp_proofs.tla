------------------------- MODULE InteractiveHttp_proofs -------------------------
(***************************************************************************)
(* For any number of requests and pages (module InteractiveHttp): types,   *)
(* and that an answer is used once, patient user or not; and that the page *)
(* a patient user looks at is the one the program waits for.               *)
(***************************************************************************)
EXTENDS InteractiveHttp, FiniteSetTheorems, TLAPS

Spots    == {None, File} \union Requests
Programs == [pc : ProgPcs, uid : Nat, at : Spots]
Cgis     == [pc : CgiPcs, uid : Nat, at : Spots, page : Nat]

(* A form comes from a page that reached the browser.                      *)
CgiOK ==
  /\ cgi \in [Requests -> Cgis]
  /\ \A c \in Requests :
       /\ cgi[c].page <= lastUid
       /\ cgi[c].pc \in {"sending", "receiving"} => Fifo(cgi[c].at)
       /\ cgi[c].pc \in {"send", "sending"} => cgi[c].uid \in seen

(* A question has a uid of its own, and none of an answer that was used.   *)
OwnUid ==
  /\ \A p \in Requests : prog[p].pc \in {"asked", "reading"} => prog[p].uid # 0
  /\ \A p, q \in Requests : prog[p].uid # 0 /\ prog[p].uid = prog[q].uid => p = q

ProgOK ==
  /\ prog \in [Requests -> Programs]
  /\ \A p \in Requests :
       /\ prog[p].uid <= lastUid
       /\ prog[p].pc \in {"opening", "reading"} => Fifo(prog[p].at)
  /\ OwnUid /\ AnswerUsedOnce

NamesOK ==
  /\ path \in [Paths -> Spots] /\ content \in [Paths -> 0 .. lastUid]
  /\ path["toProgram"] = File => content["toProgram"] \in seen
  /\ sent \in 0 .. MaxRequests /\ lastUid \in 0 .. MaxUid
  /\ seen \subseteq 1 .. lastUid /\ used \subseteq seen

IInv == CgiOK /\ ProgOK /\ NamesOK

LEMMA Constants == MaxRequests \in Nat \ {0} /\ MaxUid \in Nat \ {0} /\ Patient \in BOOLEAN
  BY ConstantsAssumption

LEMMA InitInv == Init => IInv
<1> SUFFICES ASSUME Init PROVE IInv
  OBVIOUS
<1>1. CgiOK
  BY DEF Init, CgiOK, NoCgi, Cgis, CgiPcs, Spots, None, NoPage
<1>2. ProgOK
  BY DEF Init, ProgOK, OwnUid, AnswerUsedOnce, NoProg, Programs, ProgPcs, Spots, None
<1>3. NamesOK
  BY Constants DEF Init, NamesOK, Paths, Spots, None, File, NoPage
<1> QED BY <1>1, <1>2, <1>3 DEF IInv

-----------------------------------------------------------------------------
(* What a change of one process, or of several, leaves as it was. *)

LEMMA CgiMoves ==
  ASSUME CgiOK, NEW c \in Requests, NEW pc \in CgiPcs \ {"send", "sending", "receiving"},
         cgi' = To(cgi, c, pc), UNCHANGED <<seen, lastUid>>
  PROVE  CgiOK'
<1>1. cgi' = [cgi EXCEPT ![c] = [cgi[c] EXCEPT !.pc = pc]]
  BY DEF To, CgiOK
<1> QED BY <1>1 DEF CgiOK, Cgis, Fifo

LEMMA ProgMoves ==
  ASSUME ProgOK, NEW p \in Requests, NEW pc \in ProgPcs \ {"opening", "asked", "reading"},
         prog' = To(prog, p, pc) \/ \E at \in Spots : prog' = ToAt(prog, p, pc, at),
         UNCHANGED <<used, lastUid>>
  PROVE  ProgOK'
<1>1. PICK at \in Spots : prog' = [prog EXCEPT ![p] = [prog[p] EXCEPT !.pc = pc, !.at = at]]
  <2>1. prog[p] \in Programs /\ prog[p].at \in Spots
    BY DEF ProgOK, Programs
  <2>2. CASE prog' = To(prog, p, pc)
    <3>1. [prog[p] EXCEPT !.pc = pc] = [prog[p] EXCEPT !.pc = pc, !.at = prog[p].at]
      BY <2>1 DEF Programs
    <3>2. prog' = [prog EXCEPT ![p] = [prog[p] EXCEPT !.pc = pc]]
      BY <2>2 DEF To, ProgOK
    <3> QED BY <2>1, <3>1, <3>2
  <2>3. CASE \E at \in Spots : prog' = ToAt(prog, p, pc, at)
    BY <2>3 DEF ToAt, ProgOK
  <2> QED BY <2>2, <2>3
<1>2. prog' \in [Requests -> Programs]
  BY <1>1 DEF ProgOK, Programs
<1>3. /\ prog'[p].pc = pc /\ prog'[p].uid = prog[p].uid
      /\ \A q \in Requests \ {p} : prog'[q] = prog[q]
  BY <1>1 DEF ProgOK, Programs
<1> QED BY <1>2, <1>3 DEF ProgOK, OwnUid, AnswerUsedOnce, Fifo

LEMMA Waits ==
  ASSUME ProgOK, NEW p \in Requests, NEW pc \in {"opening", "reading"}, NEW at \in Spots, Fifo(at),
         prog' = ToAt(prog, p, pc, at), pc = "reading" => prog[p].pc = "asked",
         UNCHANGED <<used, lastUid>>
  PROVE  ProgOK'
<1>1. prog' = [prog EXCEPT ![p] = [prog[p] EXCEPT !.pc = pc, !.at = at]]
  BY DEF ToAt, ProgOK
<1>2. prog' \in [Requests -> Programs]
  BY <1>1 DEF ProgOK, Programs, ProgPcs
<1>3. /\ prog'[p].pc = pc /\ prog'[p].uid = prog[p].uid /\ prog'[p].at = at
      /\ \A q \in Requests \ {p} : prog'[q] = prog[q]
  BY <1>1 DEF ProgOK, Programs
<1> QED BY <1>2, <1>3 DEF ProgOK, OwnUid, AnswerUsedOnce, Fifo

(* Programs that go on together. *)
LEMMA ProgsMove ==
  ASSUME ProgOK, prog' \in [Requests -> Programs], UNCHANGED <<used, lastUid>>,
         \A q \in Requests : \/ prog'[q] = prog[q]
                             \/ prog'[q].pc \in {"exit", "open"} /\ prog'[q].uid = prog[q].uid
  PROVE  ProgOK'
  BY DEF ProgOK, OwnUid, AnswerUsedOnce, Fifo

LEMMA NamesStay == NamesOK /\ UNCHANGED <<path, content, sent, lastUid, seen, used>> => NamesOK'
  BY DEF NamesOK

(* The names change, and what is under them as far as it is told here.     *)
LEMMA NamesMove ==
  ASSUME NamesOK, path' \in [Paths -> Spots], content' \in [Paths -> 0 .. lastUid],
         path'["toProgram"] = File =>
           \/ content'["toProgram"] \in seen
           \/ path["toProgram"] = File /\ content'["toProgram"] = content["toProgram"],
         UNCHANGED <<sent, lastUid, seen, used>>
  PROVE  NamesOK'
  BY DEF NamesOK

-----------------------------------------------------------------------------
LEMMA UserKeeps == IInv /\ User => IInv'
<1> SUFFICES ASSUME IInv, User PROVE IInv'
  OBVIOUS
<1> USE DEF IInv
<1>1. CASE AskNew
  <2>1. sent' \in Requests /\ sent' = sent + 1 /\ UNCHANGED <<path, content, prog, lastUid, seen, used>>
    BY <1>1, Constants DEF AskNew, NamesOK, Requests
  <2>2. NamesOK' /\ ProgOK'
    BY <2>1 DEF NamesOK, ProgOK, OwnUid, AnswerUsedOnce, Requests
  <2>3. cgi' = To(cgi, sent', "force")
    BY <1>1 DEF AskNew
  <2>4. CgiOK'
    BY <2>1, <2>3, CgiMoves DEF CgiPcs
  <2> QED BY <2>2, <2>4
<1>2. ASSUME NEW u \in Uids, SendForm(u) PROVE IInv'
  <2>1. sent' \in Requests /\ sent' = sent + 1 /\ u \in seen /\ UNCHANGED <<path, content, prog, lastUid, seen, used>>
    BY <1>2, Constants DEF SendForm, NamesOK, Requests
  <2>2. NamesOK' /\ ProgOK'
    BY <2>1 DEF NamesOK, ProgOK, OwnUid, AnswerUsedOnce, Requests
  <2>3. cgi' = [cgi EXCEPT ![sent'] = [cgi[sent'] EXCEPT !.pc = "send", !.uid = u]]
    BY <1>2, <2>1 DEF SendForm, CgiOK
  <2>4. u \in Nat
    BY <1>2, Constants DEF Uids
  <2>5. CgiOK'
    BY <2>1, <2>3, <2>4 DEF CgiOK, Cgis, CgiPcs, Fifo
  <2> QED BY <2>2, <2>5
<1> QED BY <1>1, <1>2 DEF User

LEMMA CgiKeeps ==
  ASSUME IInv, NEW c \in Requests, CgiStep(c)
  PROVE  IInv'
<1> USE DEF IInv
<1>1. CASE NobodyToForce(c) \/ SeesGone(c) \/ WaitsTooLong(c) \/ Refuse(c)
  <2>1. UNCHANGED <<path, content, prog, sent, lastUid, seen, used>>
    BY <1>1 DEF NobodyToForce, SeesGone, WaitsTooLong, Refuse
  <2>2. \E pc \in {"mkfifo1", "returned"} : cgi' = To(cgi, c, pc)
    BY <1>1 DEF NobodyToForce, SeesGone, WaitsTooLong, Refuse
  <2>3. CgiOK'
    BY <2>1, <2>2, CgiMoves DEF CgiPcs
  <2>4. ProgOK'
    BY <2>1 DEF ProgOK, OwnUid, AnswerUsedOnce
  <2> QED BY <2>1, <2>3, <2>4, NamesStay
<1>2. CASE ForceExit(c)
  <2>1. UNCHANGED <<path, content, sent, lastUid, seen, used>> /\ cgi' = To(cgi, c, "wait")
    BY <1>2 DEF ForceExit
  <2>2. PICK p \in Requests :
          prog' = [q \in Requests |-> IF q = p THEN [prog[q] EXCEPT !.pc = "exit", !.at = None]
                                     ELSE IF q \in Readers(path["toProgram"])
                                     THEN [prog[q] EXCEPT !.pc = "open"] ELSE prog[q]]
    BY <1>2 DEF ForceExit, Readers
  <2>3. \A q \in Requests :
          \/ prog'[q] = prog[q]
          \/ prog'[q] = [prog[q] EXCEPT !.pc = "open"]
          \/ prog'[q] = [prog[q] EXCEPT !.pc = "exit", !.at = None]
    BY <2>2
  <2>4. \A q \in Requests : /\ prog'[q] \in Programs
                            /\ \/ prog'[q] = prog[q]
                               \/ prog'[q].pc \in {"exit", "open"} /\ prog'[q].uid = prog[q].uid
    <3> SUFFICES ASSUME NEW q \in Requests
                 PROVE  /\ prog'[q] \in Programs
                        /\ \/ prog'[q] = prog[q]
                           \/ prog'[q].pc \in {"exit", "open"} /\ prog'[q].uid = prog[q].uid
      OBVIOUS
    <3>1. prog[q] \in Programs
      BY DEF ProgOK
    <3>2. CASE prog'[q] = prog[q]
      BY <3>1, <3>2
    <3>3. CASE prog'[q] = [prog[q] EXCEPT !.pc = "open"]
      BY <3>1, <3>3 DEF Programs, ProgPcs
    <3>4. CASE prog'[q] = [prog[q] EXCEPT !.pc = "exit", !.at = None]
      BY <3>1, <3>4 DEF Programs, ProgPcs, Spots
    <3> QED BY <2>3, <3>2, <3>3, <3>4
  <2>5. prog' \in [Requests -> Programs]
    BY <2>2, <2>4
  <2>6. ProgOK'
    BY <2>1, <2>4, <2>5, ProgsMove
  <2>7. CgiOK'
    BY <2>1, CgiMoves DEF CgiPcs
  <2> QED BY <2>1, <2>6, <2>7, NamesStay
<1>3. ASSUME NEW n \in Paths, NEW before, NEW after \in {"mkfifo2", "spawn"}, MkFifo(c, n, before, after)
      PROVE  IInv'
  <2>1. /\ UNCHANGED <<content, prog, sent, lastUid, seen, used>> /\ cgi' = To(cgi, c, after)
        /\ path' = path \/ path' = [path EXCEPT ![n] = c]
    BY <1>3 DEF MkFifo
  <2>2. CgiOK'
    BY <2>1, CgiMoves DEF CgiPcs
  <2>3. ProgOK'
    BY <2>1 DEF ProgOK, OwnUid, AnswerUsedOnce
  <2>4. path' \in [Paths -> Spots] /\ (path'["toProgram"] = File => path["toProgram"] = File)
    BY <2>1 DEF NamesOK, Spots, Paths, File, Requests
  <2>5. NamesOK'
    BY <2>1, <2>4 DEF NamesOK
  <2> QED BY <2>2, <2>3, <2>5
<1>4. CASE Spawn(c)
  <2>1. /\ UNCHANGED <<path, content, sent, lastUid, seen, used>>
        /\ cgi' = To(cgi, c, "read")
    BY <1>4 DEF Spawn
  <2>0. PICK pc \in {"open", "gone", "end"} : prog' = To(prog, c, pc)
    BY <1>4 DEF Spawn
  <2>2. CgiOK'
    BY <2>1, CgiMoves DEF CgiPcs
  <2>3. ProgOK'
    BY <2>0, <2>1, ProgMoves DEF ProgPcs
  <2> QED BY <2>1, <2>2, <2>3, NamesStay
<1>5. CASE Write(c)
  <2>1. UNCHANGED <<prog, sent, lastUid, seen, used>> /\ cgi[c].pc = "send"
    BY <1>5 DEF Write
  <2>2. ProgOK'
    BY <2>1 DEF ProgOK, OwnUid, AnswerUsedOnce
  <2>3. CASE Fifo(path["toProgram"])
    <3>1. UNCHANGED <<path, content>> /\ cgi' = ToAt(cgi, c, "sending", path["toProgram"])
      BY <1>5, <2>3 DEF Write
    <3>2. cgi' = [cgi EXCEPT ![c] = [cgi[c] EXCEPT !.pc = "sending", !.at = path["toProgram"]]]
      BY <3>1 DEF ToAt, CgiOK
    <3>3. cgi[c] \in Cgis /\ path["toProgram"] \in Spots
      BY <2>3 DEF CgiOK, Fifo, Spots
    <3>4. cgi' \in [Requests -> Cgis]
      BY <3>2, <3>3 DEF CgiOK, Cgis, CgiPcs
    <3>5. /\ cgi'[c].pc = "sending" /\ cgi'[c].uid = cgi[c].uid /\ cgi'[c].page = cgi[c].page
          /\ cgi'[c].at = path["toProgram"] /\ \A d \in Requests \ {c} : cgi'[d] = cgi[d]
      BY <3>2, <3>3 DEF CgiOK, Cgis
    <3>6. CgiOK'
      BY <2>1, <2>3, <3>4, <3>5 DEF CgiOK, Fifo
    <3> QED BY <2>1, <2>2, <3>1, <3>6, NamesStay
  <2>4. CASE ~Fifo(path["toProgram"])
    <3>1. /\ path' = [path EXCEPT !["toProgram"] = File]
          /\ content' = [content EXCEPT !["toProgram"] = cgi[c].uid] /\ cgi' = To(cgi, c, "read")
      BY <1>5, <2>4 DEF Write
    <3>2. CgiOK'
      BY <2>1, <3>1, CgiMoves DEF CgiPcs
    <3>3. cgi[c].uid \in seen /\ cgi[c].uid \in 0 .. lastUid
      <4>1. \A u \in seen : u \in 0 .. lastUid
        BY Constants DEF NamesOK
      <4> QED BY <2>1, <4>1 DEF CgiOK
    <3>4. /\ path' \in [Paths -> Spots] /\ content' \in [Paths -> 0 .. lastUid]
          /\ content'["toProgram"] = cgi[c].uid
      BY <3>1, <3>3 DEF NamesOK, Paths, Spots
    <3>5. NamesOK'
      BY <2>1, <3>3, <3>4, NamesMove
    <3> QED BY <2>2, <3>2, <3>5
  <2> QED BY <2>3, <2>4
<1>6. CASE Read(c)
  <2> DEFINE at == path["toBrowser"]
             page == IF at = File THEN content["toBrowser"] ELSE NoPage
  <2>1. /\ UNCHANGED <<path, content, prog, sent, lastUid, used>> /\ cgi[c].pc = "read"
        /\ seen' = seen \union ({page} \ {NoPage})
        /\ cgi' = IF Fifo(at) THEN ToAt(cgi, c, "receiving", at)
                  ELSE [cgi EXCEPT ![c].pc = "returned", ![c].page = page]
    BY <1>6 DEF Read
  <2>2. page \in 0 .. lastUid /\ at \in Spots /\ lastUid \in Nat
    BY Constants DEF NamesOK, Paths, NoPage
  <2> HIDE DEF at, page
  <2>3. ProgOK'
    BY <2>1 DEF ProgOK, OwnUid, AnswerUsedOnce
  <2>4. NamesOK'
    BY <2>1, <2>2 DEF NamesOK, NoPage
  <2>5. \/ /\ Fifo(at) /\ cgi' = [cgi EXCEPT ![c] = [cgi[c] EXCEPT !.pc = "receiving", !.at = at]]
        \/ cgi' = [cgi EXCEPT ![c] = [cgi[c] EXCEPT !.pc = "returned", !.page = page]]
    BY <2>1 DEF ToAt, CgiOK
  <2>6. cgi[c] \in Cgis /\ cgi[c].page <= lastUid /\ page \in Nat
    BY <2>2 DEF CgiOK
  <2>7. cgi' \in [Requests -> Cgis]
    <3>1. CASE cgi' = [cgi EXCEPT ![c] = [cgi[c] EXCEPT !.pc = "receiving", !.at = at]]
      BY <2>2, <2>6, <3>1 DEF CgiOK, Cgis, CgiPcs
    <3>2. CASE cgi' = [cgi EXCEPT ![c] = [cgi[c] EXCEPT !.pc = "returned", !.page = page]]
      BY <2>6, <3>2 DEF CgiOK, Cgis, CgiPcs
    <3> QED BY <2>5, <3>1, <3>2
  <2>8. /\ cgi'[c].pc \in {"receiving", "returned"} /\ cgi'[c].page \in {cgi[c].page, page}
        /\ cgi'[c].pc = "receiving" => cgi'[c].at = at /\ Fifo(at)
        /\ \A d \in Requests \ {c} : cgi'[d] = cgi[d]
    BY <2>5, <2>6 DEF CgiOK, Cgis
  <2>9. seen \subseteq seen' /\ page <= lastUid /\ lastUid' = lastUid
    BY <2>1, <2>2
  <2>10. CgiOK'
    BY <2>6, <2>7, <2>8, <2>9 DEF CgiOK, Fifo
  <2> QED BY <2>3, <2>4, <2>10
<1> QED BY <1>1, <1>2, <1>3, <1>4, <1>5, <1>6 DEF CgiStep, Paths

-----------------------------------------------------------------------------
(* A page that is closed reaches whom it reaches, and nobody else.         *)
LEMMA CloseKeeps ==
  ASSUME CgiOK, NamesOK, NEW p, NEW page \in 0 .. lastUid', CloseStdout(p, page),
         lastUid' \in lastUid .. MaxUid, UNCHANGED <<path, sent, used>>
  PROVE  CgiOK' /\ NamesOK'
<1> DEFINE at == prog[p].at
           left == Printing(at) \ {p}
<1>1. PICK whole \in SUBSET Receivers(at) :
        /\ cgi' = [c \in Requests |->
                    IF c \notin Receivers(at) THEN cgi[c]
                    ELSE [cgi[c] EXCEPT !.pc = IF left = {} THEN "returned" ELSE @,
                                        !.page = IF c \in whole /\ page # NoPage THEN page ELSE @]]
        /\ seen' = IF whole = {} THEN seen ELSE seen \union ({page} \ {NoPage})
  BY DEF CloseStdout
<1>2. content' = content \/ content' = [content EXCEPT !["toBrowser"] = page]
  BY DEF CloseStdout
<1>3. lastUid \in Nat /\ lastUid' \in Nat /\ lastUid <= lastUid' /\ page \in Nat /\ page <= lastUid'
  BY Constants DEF NamesOK
<1>4. seen' \subseteq 1 .. lastUid' /\ seen \subseteq seen'
  <2>1. seen' \subseteq seen \union ({page} \ {0}) /\ seen \subseteq seen'
    BY <1>1 DEF NoPage
  <2>2. \A u \in seen : u \in 1 .. lastUid'
    BY <1>3 DEF NamesOK
  <2>3. page # 0 => page \in 1 .. lastUid'
    BY <1>3
  <2> QED BY <2>1, <2>2, <2>3
<1>5. \A c \in Requests :
        /\ cgi'[c] \in Cgis /\ cgi'[c].uid = cgi[c].uid /\ cgi'[c].at = cgi[c].at
        /\ cgi'[c].pc \in {cgi[c].pc, "returned"} /\ cgi'[c].page \in {cgi[c].page, page}
  <2> SUFFICES ASSUME NEW c \in Requests
               PROVE  /\ cgi'[c] \in Cgis /\ cgi'[c].uid = cgi[c].uid /\ cgi'[c].at = cgi[c].at
                      /\ cgi'[c].pc \in {cgi[c].pc, "returned"} /\ cgi'[c].page \in {cgi[c].page, page}
    OBVIOUS
  <2>1. cgi[c] \in Cgis
    BY DEF CgiOK
  <2>2. \E pc \in {cgi[c].pc, "returned"}, g \in {cgi[c].page, page} :
          cgi'[c] = [cgi[c] EXCEPT !.pc = pc, !.page = g]
    BY <1>1, <2>1 DEF Cgis
  <2>3. PICK pc \in {cgi[c].pc, "returned"}, g \in {cgi[c].page, page} :
          cgi'[c] = [cgi[c] EXCEPT !.pc = pc, !.page = g]
    BY <2>2
  <2>4. pc \in CgiPcs /\ g \in Nat
    BY <1>3, <2>1 DEF Cgis, CgiPcs
  <2>5. /\ cgi'[c].uid = cgi[c].uid /\ cgi'[c].at = cgi[c].at
        /\ cgi'[c].pc = pc /\ cgi'[c].page = g
    BY <2>1, <2>3 DEF Cgis
  <2>6. cgi'[c] \in Cgis
    BY <2>1, <2>3, <2>4 DEF Cgis
  <2> QED BY <2>5, <2>6
<1>6. CgiOK'
  <2>1. cgi' \in [Requests -> Cgis]
    BY <1>1, <1>5
  <2> QED BY <1>3, <1>4, <1>5, <2>1 DEF CgiOK, Cgis, Fifo
<1>7. content' \in [Paths -> 0 .. lastUid'] /\ content'["toProgram"] = content["toProgram"]
  BY <1>2, <1>3 DEF NamesOK, Paths
<1>8. NamesOK'
  <2>1. lastUid' \in 0 .. MaxUid
    BY <1>3, Constants
  <2>2. path' = path /\ sent' = sent /\ used' = used
    OBVIOUS
  <2> QED BY <1>4, <1>7, <2>1, <2>2 DEF NamesOK
<1> QED BY <1>6, <1>8

(* A program takes the answer to its own question only; it does not wait   *)
(* for that one any more, and no other has this question.                  *)
LEMMA TakesKeep ==
  ASSUME ProgOK, NamesOK, NEW p \in Requests, prog[p].pc \in {"asked", "reading"},
         NEW u \in seen, Takes(p, u), UNCHANGED <<path, content, sent, lastUid, seen>>
  PROVE  ProgOK' /\ NamesOK'
<1>1. \A q \in Requests :
        /\ prog'[q] = prog[q] \/ prog'[q] = [prog[q] EXCEPT !.pc = "open"]
        /\ q = p => prog'[q] = [prog[q] EXCEPT !.pc = "open"]
  BY DEF Takes
<1>2. \A q \in Requests :
        /\ prog'[q] \in Programs /\ prog'[q].uid = prog[q].uid /\ prog'[q].at = prog[q].at
        /\ prog'[q].pc \in {prog[q].pc, "open"} /\ (q = p => prog'[q].pc = "open")
  <2> SUFFICES ASSUME NEW q \in Requests
               PROVE  /\ prog'[q] \in Programs /\ prog'[q].uid = prog[q].uid /\ prog'[q].at = prog[q].at
                      /\ prog'[q].pc \in {prog[q].pc, "open"} /\ (q = p => prog'[q].pc = "open")
    OBVIOUS
  <2>1. prog[q] \in Programs
    BY DEF ProgOK
  <2>2. CASE prog'[q] = [prog[q] EXCEPT !.pc = "open"]
    BY <2>1, <2>2 DEF Programs, ProgPcs
  <2>3. CASE prog'[q] = prog[q] /\ q # p
    BY <2>1, <2>3
  <2> QED BY <1>1, <2>2, <2>3
<1>3. prog' \in [Requests -> Programs]
  BY <1>2 DEF Takes
<1>4. used' \subseteq seen /\ used' \subseteq used \union {prog[p].uid}
  BY DEF Takes, NamesOK
<1>5. NamesOK'
  BY <1>4 DEF NamesOK
<1>6. AnswerUsedOnce'
  <2> SUFFICES ASSUME NEW q \in Requests, prog'[q].pc \in {"asked", "reading"}
               PROVE  prog'[q].uid \notin used'
    BY DEF AnswerUsedOnce
  <2>1. q # p /\ prog[q].pc \in {"asked", "reading"} /\ prog'[q].uid = prog[q].uid
    BY <1>2
  <2>2. prog[q].uid # prog[p].uid /\ prog[q].uid \notin used
    BY <2>1 DEF ProgOK, OwnUid, AnswerUsedOnce
  <2> QED BY <1>4, <2>1, <2>2
<1>7. OwnUid'
  BY <1>2 DEF ProgOK, OwnUid
<1> QED BY <1>2, <1>3, <1>5, <1>6, <1>7 DEF ProgOK, Fifo

LEMMA AskKeeps ==
  ASSUME IInv, NEW p \in Requests, Ask(p)
  PROVE  IInv'
<1> USE DEF IInv
<1>1. /\ lastUid < MaxUid /\ lastUid' = lastUid + 1 /\ UNCHANGED <<path, sent, used>>
      /\ prog' = [prog EXCEPT ![p] = [prog[p] EXCEPT !.pc = "asked", !.uid = lastUid']]
  BY DEF Ask, NewUid, ProgOK
<1>2. lastUid \in Nat /\ lastUid' \in lastUid .. MaxUid /\ lastUid' \in 0 .. lastUid' /\ lastUid' \in Nat
  BY <1>1, Constants DEF NamesOK
<1>3. CgiOK' /\ NamesOK'
  BY <1>1, <1>2, CloseKeeps DEF Ask
<1>4. /\ prog' \in [Requests -> Programs] /\ prog'[p].uid = lastUid' /\ prog'[p].pc = "asked"
      /\ \A q \in Requests \ {p} : prog'[q] = prog[q]
  BY <1>1, <1>2 DEF ProgOK, Programs, ProgPcs
<1>5. used \subseteq 1 .. lastUid
  BY DEF NamesOK
<1>6. AnswerUsedOnce'
  BY <1>1, <1>2, <1>4, <1>5 DEF ProgOK, AnswerUsedOnce
<1>7. OwnUid'
  BY <1>1, <1>2, <1>4 DEF ProgOK, OwnUid, Programs
<1>8. ProgOK'
  BY <1>1, <1>2, <1>4, <1>6, <1>7 DEF ProgOK, Programs, Fifo
<1> QED BY <1>3, <1>8

(* The steps of a program that closes nothing, and those of its end.       *)
LEMMA ProgKeeps ==
  ASSUME IInv, NEW p \in Requests, ProgStep(p)
  PROVE  IInv'
<1> USE DEF IInv
<1>1. CASE OpenStdout(p)
  <2>1. UNCHANGED <<cgi, sent, lastUid, seen, used>> /\ prog[p].pc = "open"
    BY <1>1 DEF OpenStdout
  <2>2. CgiOK'
    BY <2>1 DEF CgiOK
  <2>3. CASE Fifo(path["toBrowser"])
    <3>1. UNCHANGED <<path, content>> /\ prog' = ToAt(prog, p, "opening", path["toBrowser"])
      BY <1>1, <2>3 DEF OpenStdout
    <3>2. ProgOK'
      BY <2>1, <2>3, <3>1, Waits DEF NamesOK, Paths
    <3> QED BY <2>1, <2>2, <3>1, <3>2, NamesStay
  <2>4. CASE ~Fifo(path["toBrowser"])
    <3>1. /\ prog' = ToAt(prog, p, "printing", File) /\ path' = [path EXCEPT !["toBrowser"] = File]
          /\ content' = [content EXCEPT !["toBrowser"] = NoPage]
      BY <1>1, <2>4 DEF OpenStdout
    <3>2. File \in Spots
      BY DEF Spots
    <3>3. ProgOK'
      BY <2>1, <3>1, <3>2, ProgMoves DEF ProgPcs
    <3>4. 0 \in 0 .. lastUid
      BY Constants DEF NamesOK
    <3>5. NamesOK'
      BY <2>1, <3>1, <3>2, <3>4 DEF NamesOK, Paths, NoPage
    <3> QED BY <2>2, <3>3, <3>5
  <2> QED BY <2>3, <2>4
<1>2. CASE StdoutOpened(p) \/ NoMore(p)
  <2>1. UNCHANGED <<path, content, cgi, sent, lastUid, seen, used>>
    BY <1>2 DEF StdoutOpened, NoMore
  <2>2. \E pc \in {"printing", "end"} : prog' = To(prog, p, pc)
    BY <1>2 DEF StdoutOpened, NoMore
  <2>3. ProgOK'
    BY <2>1, <2>2, ProgMoves DEF ProgPcs
  <2> QED BY <2>1, <2>3, NamesStay DEF CgiOK
<1>3. CASE OpenForm(p)
  <2>1. UNCHANGED <<path, content, cgi, sent, lastUid, seen>> /\ prog[p].pc = "asked"
    BY <1>3 DEF OpenForm
  <2>2. CgiOK'
    BY <2>1 DEF CgiOK
  <2>3. CASE path["toProgram"] = File
    <3>1. Takes(p, content["toProgram"]) /\ content["toProgram"] \in seen
      BY <1>3, <2>3 DEF OpenForm, NamesOK
    <3> QED BY <2>1, <2>2, <3>1, TakesKeep
  <2>4. CASE path["toProgram"] = None
    <3>1. prog' = ToAt(prog, p, "end", None) /\ used' = used /\ None \in Spots
      BY <1>3, <2>4 DEF OpenForm, None, File, Spots
    <3>2. ProgOK'
      BY <2>1, <3>1, ProgMoves DEF ProgPcs
    <3> QED BY <2>1, <2>2, <3>1, <3>2, NamesStay
  <2>5. CASE path["toProgram"] \notin {None, File}
    <3>1. prog' = ToAt(prog, p, "reading", path["toProgram"]) /\ used' = used
      BY <1>3, <2>5 DEF OpenForm
    <3>2. path["toProgram"] \in Spots /\ Fifo(path["toProgram"])
      BY <2>5 DEF NamesOK, Paths, Spots, Fifo
    <3>3. ProgOK'
      BY <2>1, <3>1, <3>2, Waits
    <3> QED BY <2>1, <2>2, <3>1, <3>3, NamesStay
  <2> QED BY <2>3, <2>4, <2>5
<1>4. CASE ReadForm(p)
  <2>1. UNCHANGED <<path, content, sent, lastUid, seen>> /\ prog[p].pc = "reading"
    BY <1>4 DEF ReadForm
  <2>2. PICK c \in Senders(prog[p].at), killed \in SUBSET Senders(prog[p].at) :
          /\ Takes(p, cgi[c].uid)
          /\ cgi' = [d \in Requests |->
                       IF d \notin Senders(prog[p].at) THEN cgi[d]
                       ELSE [cgi[d] EXCEPT !.pc = IF d \in killed THEN "returned" ELSE "read"]]
    BY <1>4 DEF ReadForm
  <2>3. cgi[c].uid \in seen
    BY DEF Senders, CgiOK
  <2>4. ProgOK' /\ NamesOK'
    BY <2>1, <2>2, <2>3, TakesKeep
  <2>5. ASSUME NEW d \in Requests
        PROVE  /\ cgi'[d] \in Cgis /\ cgi'[d].page = cgi[d].page
               /\ cgi'[d] = cgi[d] \/ cgi'[d].pc \in {"returned", "read"}
    <3>1. cgi[d] \in Cgis
      BY DEF CgiOK
    <3>2. \/ cgi'[d] = cgi[d]
          \/ cgi'[d] = [cgi[d] EXCEPT !.pc = "returned"]
          \/ cgi'[d] = [cgi[d] EXCEPT !.pc = "read"]
      BY <2>2
    <3> QED BY <3>1, <3>2 DEF Cgis, CgiPcs
  <2>6. cgi' \in [Requests -> Cgis]
    BY <2>2, <2>5
  <2>7. CgiOK'
    BY <2>1, <2>5, <2>6 DEF CgiOK
  <2> QED BY <2>4, <2>7
<1>5. ASSUME NEW pc, NEW unlinks \in {"exit:unlink1", "end:unlink1"}, NEW next \in {"end", "gone"},
             Ending(p, pc, unlinks, next)
      PROVE  IInv'
  <2>1. CloseStdout(p, NoPage) /\ UNCHANGED <<path, sent, lastUid, used>>
    BY <1>5 DEF Ending
  <2>2. NoPage \in 0 .. lastUid' /\ lastUid' \in lastUid .. MaxUid
    BY <2>1, Constants DEF NamesOK, NoPage
  <2>3. CgiOK' /\ NamesOK'
    BY <2>1, <2>2, CloseKeeps
  <2>4. \E q \in {next, unlinks} : prog' = ToAt(prog, p, q, None)
    BY <1>5 DEF Ending
  <2>5. ProgOK'
    BY <2>1, <2>4, ProgMoves DEF ProgPcs, Spots
  <2> QED BY <2>3, <2>5
<1>6. ASSUME NEW n \in Paths, NEW pc, NEW next \in {"exit:unlink2", "end:unlink2", "end", "gone"},
             Unlink(p, n, pc, next)
      PROVE  IInv'
  <2>1. /\ UNCHANGED <<content, cgi, sent, lastUid, seen, used>> /\ prog' = To(prog, p, next)
        /\ path' = [path EXCEPT ![n] = None]
    BY <1>6 DEF Unlink
  <2>2. ProgOK'
    BY <2>1, ProgMoves DEF ProgPcs
  <2>3. CgiOK'
    BY <2>1 DEF CgiOK
  <2>4. path' \in [Paths -> Spots] /\ (path'["toProgram"] = File => path["toProgram"] = File)
    BY <2>1 DEF NamesOK, Spots, Paths, None, File
  <2>5. NamesOK'
    BY <2>1, <2>4 DEF NamesOK
  <2> QED BY <2>2, <2>3, <2>5
<1> QED BY <1>1, <1>2, <1>3, <1>4, <1>5, <1>6, AskKeeps DEF ProgStep, Exit, End, Paths

LEMMA StepKeeps == IInv /\ [Next]_vars => IInv'
<1>1. CASE UNCHANGED vars
  BY <1>1 DEF vars, IInv, CgiOK, ProgOK, NamesOK, OwnUid, AnswerUsedOnce
<1> QED BY <1>1, UserKeeps, CgiKeeps, ProgKeeps DEF Next

LEMMA Invariance == Spec => []IInv
  BY InitInv, StepKeeps, PTL DEF Spec

-----------------------------------------------------------------------------
(* A patient user has one program, the first request's, and one request    *)
(* under way, the last one.  What holds at each place of that request:     *)

Named(b, t) == path["toBrowser"] = b /\ path["toProgram"] = t

Prog1At(pcs) ==
  /\ prog[1].pc \in pcs
  /\ prog[1].pc \in {"opening", "printing", "reading", "end"} => prog[1].at = 1

(* the first request makes the names and spawns the program;               *)
Starts ==
  /\ sent <= 1 /\ prog[1].pc = "none" /\ prog[1].at = None
  /\ sent = 0 => Named(None, None)
  /\ sent = 1 => \/ cgi[1].pc \in {"force", "mkfifo1"} /\ Named(None, None)
                 \/ cgi[1].pc = "mkfifo2" /\ Named(1, None)
                 \/ cgi[1].pc = "spawn" /\ Named(1, 1)
  /\ cgi[1].page = NoPage

(* a form is on its way to the program that waits for one;                 *)
Sends ==
  /\ sent \in Requests /\ Named(1, 1) /\ Prog1At({"asked", "reading"})
  /\ cgi[sent].page = NoPage
  /\ \/ cgi[sent].pc = "send"
     \/ cgi[sent].pc = "sending" /\ cgi[sent].at = 1

(* the request waits for the page, and the program makes it;               *)
Gets ==
  /\ sent \in Requests /\ Named(1, 1) /\ cgi[sent].page = NoPage
  /\ \/ cgi[sent].pc = "read" /\ Prog1At({"open", "opening"})
     \/ /\ cgi[sent].pc = "receiving" /\ cgi[sent].at = 1
        /\ Prog1At({"open", "opening", "printing", "end"})

(* the page is there, and the program waits for its answer;                *)
Shown ==
  /\ sent \in Requests /\ Named(1, 1) /\ Prog1At({"asked", "reading"})
  /\ Answered(sent) /\ cgi[sent].page # NoPage /\ prog[1].uid = cgi[sent].page

(* or there is no page, because the program was refused, or ended; one     *)
(* that died before it opened its output may leave the request waiting.    *)
Over ==
  /\ sent \in Requests /\ cgi[sent].page = NoPage
  /\ \/ Answered(sent) /\ prog[1].pc = "none"
     \/ /\ cgi[sent].pc \in {"read", "receiving", "returned"}
        /\ \/ prog[1].pc \in {"end:unlink1", "end:unlink2", "gone"}
           \/ prog[1].pc = "end" /\ prog[1].at = None
        /\ path["toBrowser"] \in {None, 1}

Turn == Starts \/ Sends \/ Gets \/ Shown \/ Over

Alone ==
  /\ \A p \in Requests \ {1} : prog[p].pc = "none"
  /\ \A c \in Requests : /\ c < sent => Answered(c)
                         /\ sent < c => cgi[c].pc = "unsent" /\ cgi[c].page = NoPage

OneAtATime == Patient => Alone /\ Turn

One == 1 \in Requests
LEMMA OneRequest == One /\ Requests \subseteq Nat
  BY Constants DEF Requests, One

LEMMA InitTurn == Init => Alone /\ Turn
  BY OneRequest DEF Init, Alone, Turn, Starts, Named, Paths, NoProg, NoCgi, NoPage, None, One

(* What a change of one record leaves.                                     *)
LEMMA CgiChanges ==
  ASSUME CgiOK, NEW c \in Requests, NEW pc, cgi' = To(cgi, c, pc)
  PROVE  /\ cgi'[c].pc = pc /\ cgi'[c].page = cgi[c].page
         /\ \A d \in Requests \ {c} : cgi'[d] = cgi[d]
  BY DEF CgiOK, Cgis, To

LEMMA CgiOpens ==
  ASSUME CgiOK, NEW c \in Requests, NEW pc, NEW at, cgi' = ToAt(cgi, c, pc, at)
  PROVE  /\ cgi'[c].pc = pc /\ cgi'[c].at = at /\ cgi'[c].page = cgi[c].page
         /\ \A d \in Requests \ {c} : cgi'[d] = cgi[d]
  BY DEF CgiOK, Cgis, ToAt

LEMMA ProgChanges ==
  ASSUME ProgOK, NEW p \in Requests, NEW pc, prog' = To(prog, p, pc)
  PROVE  /\ prog'[p].pc = pc /\ prog'[p].at = prog[p].at /\ prog'[p].uid = prog[p].uid
         /\ \A q \in Requests \ {p} : prog'[q] = prog[q]
  BY DEF ProgOK, Programs, To

LEMMA ProgOpens ==
  ASSUME ProgOK, NEW p \in Requests, NEW pc, NEW at, prog' = ToAt(prog, p, pc, at)
  PROVE  /\ prog'[p].pc = pc /\ prog'[p].at = at /\ prog'[p].uid = prog[p].uid
         /\ \A q \in Requests \ {p} : prog'[q] = prog[q]
  BY DEF ProgOK, Programs, ToAt

(* Only the last request and the first program can be anywhere.            *)
LEMMA OnlyThese ==
  ASSUME Alone, NamesOK, NEW at
  PROVE  /\ Senders(at) \subseteq {sent} /\ Receivers(at) \subseteq {sent}
         /\ Readers(at) \subseteq {1} /\ Printing(at) \subseteq {1}
         /\ \A c \in Requests : CgiStep(c) => c = sent /\ ~Answered(c)
         /\ \A p \in Requests : ProgStep(p) => p = 1 /\ prog[p].pc # "none"
<1>1. sent \in Nat /\ \A c \in Requests : c \in Nat
  BY OneRequest, Constants DEF NamesOK
<1>2. \A c \in Requests : c # sent => cgi[c].pc \in {"returned", "unsent"}
  BY <1>1 DEF Alone, Answered
<1>3. Senders(at) \subseteq {sent} /\ Receivers(at) \subseteq {sent}
  BY <1>2 DEF Senders, Receivers
<1>4. Readers(at) \subseteq {1} /\ Printing(at) \subseteq {1}
  BY DEF Alone, Readers, Printing
<1>5. ASSUME NEW c \in Requests, CgiStep(c) PROVE cgi[c].pc \notin {"returned", "unsent"}
  BY <1>5 DEF CgiStep, ForceExit, NobodyToForce, SeesGone, WaitsTooLong, MkFifo, Refuse, Spawn, Write, Read
<1>6. ASSUME NEW p \in Requests, ProgStep(p) PROVE prog[p].pc # "none"
  BY <1>6 DEF ProgStep, OpenStdout, StdoutOpened, Ask, NoMore, OpenForm, ReadForm, Exit, End,
              Ending, Unlink
<1> QED BY <1>2, <1>3, <1>4, <1>5, <1>6 DEF Alone, Answered

(* As long as only these two change, they stay alone.                      *)
LEMMA StayAlone ==
  ASSUME Alone, NamesOK, sent' = sent,
         \A c \in Requests \ {sent} : cgi'[c] = cgi[c],
         \A p \in Requests \ {1} : prog'[p] = prog[p]
  PROVE  Alone'
<1>1. sent \in Nat /\ \A c \in Requests : c \in Nat
  BY OneRequest, Constants DEF NamesOK
<1> QED BY <1>1 DEF Alone, Answered

-----------------------------------------------------------------------------
LEMMA UserTurn ==
  ASSUME Patient, IInv, Alone, Turn, User
  PROVE  Alone' /\ Turn'
<1> USE DEF IInv
<1>1. sent \in Nat /\ \A c \in Requests : c \in Nat
  BY OneRequest, Constants DEF NamesOK
<1>2. CASE AskNew
  <2>1. sent = 0 /\ sent' = 1 /\ cgi' = To(cgi, 1, "force") /\ UNCHANGED <<path, prog>>
    BY <1>2 DEF AskNew
  <2>2. Starts /\ 1 \in Requests
    BY <2>1, OneRequest DEF Turn, Sends, Gets, Shown, Over, Requests, One
  <2>3. /\ cgi'[1].pc = "force" /\ cgi'[1].page = cgi[1].page
        /\ \A c \in Requests \ {1} : cgi'[c] = cgi[c]
    BY <2>1, <2>2, CgiChanges
  <2>4. Starts'
    BY <2>1, <2>2, <2>3 DEF Starts, Named
  <2>5. Alone'
    BY <1>1, <2>1, <2>3 DEF Alone, Answered, Requests
  <2> QED BY <2>4, <2>5 DEF Turn
<1>3. ASSUME NEW u \in Uids, SendForm(u) PROVE Alone' /\ Turn'
  <2>1. /\ sent' = sent + 1 /\ sent' \in Requests /\ sent \in Requests
        /\ UNCHANGED <<path, prog>>
        /\ Answered(sent) /\ cgi[sent].page # NoPage
    BY <1>1, <1>3, Constants DEF SendForm, Requests
  <2>2. cgi' = [cgi EXCEPT ![sent'] = [cgi[sent'] EXCEPT !.pc = "send", !.uid = u]]
    BY <1>3, <2>1 DEF SendForm, CgiOK
  <2>3. /\ cgi'[sent'].pc = "send" /\ cgi'[sent'].page = cgi[sent'].page
        /\ \A c \in Requests \ {sent'} : cgi'[c] = cgi[c]
    BY <2>2, <2>1 DEF CgiOK, Cgis
  <2>4. Shown
    BY <1>1, <2>1 DEF Turn, Starts, Sends, Gets, Over, Answered, Requests
  <2>5. cgi[sent'].page = NoPage
    BY <1>1, <2>1 DEF Alone
  <2>6. Sends'
    BY <2>1, <2>3, <2>4, <2>5 DEF Sends, Shown, Named, Prog1At
  <2>7. Alone'
    BY <1>1, <2>3, <2>1 DEF Alone, Answered
  <2> QED BY <2>6, <2>7 DEF Turn
<1> QED BY <1>2, <1>3 DEF User

LEMMA CgiTurn ==
  ASSUME IInv, Alone, Turn, NEW c \in Requests, CgiStep(c)
  PROVE  Alone' /\ Turn'
<1> USE DEF IInv
<1>1. c = sent /\ ~Answered(c) /\ sent' = sent
  <2>1. sent' = sent
    BY DEF CgiStep, ForceExit, NobodyToForce, SeesGone, WaitsTooLong, MkFifo, Refuse, Spawn, Write, Read
  <2> QED BY <2>1, OnlyThese
<1>2. 1 \in Requests /\ Fifo(1) /\ ~Fifo(None) /\ path \in [Paths -> Spots]
  BY OneRequest DEF One, Fifo, None, Requests, NamesOK
<1>3. CASE Starts
  <2>1. sent = 1 /\ cgi[1].page = NoPage /\ prog[1].pc = "none" /\ prog[1].at = None
    BY <1>1, <1>3 DEF Starts, Requests
  <2>2. CASE cgi[1].pc \in {"force", "mkfifo1"} /\ Named(None, None)
    <3>1. NobodyToForce(1) \/ MkFifo(1, "toBrowser", "mkfifo1", "mkfifo2")
      BY <1>1, <1>2, <2>1, <2>2
         DEF CgiStep, ForceExit, SeesGone, WaitsTooLong, MkFifo, Refuse, Spawn, Write, Read, Named
    <3>2. CASE NobodyToForce(1)
      <4>1. cgi' = To(cgi, 1, "mkfifo1") /\ UNCHANGED <<path, prog>>
        BY <3>2 DEF NobodyToForce
      <4>2. /\ cgi'[1].pc = "mkfifo1" /\ cgi'[1].page = cgi[1].page
            /\ \A d \in Requests \ {1} : cgi'[d] = cgi[d]
        BY <1>2, <4>1, CgiChanges
      <4>3. Starts'
        BY <1>1, <2>1, <2>2, <4>1, <4>2 DEF Starts, Named
      <4> QED BY <1>1, <2>1, <4>1, <4>2, <4>3, StayAlone DEF Turn
    <3>3. CASE MkFifo(1, "toBrowser", "mkfifo1", "mkfifo2")
      <4>1. cgi' = To(cgi, 1, "mkfifo2") /\ UNCHANGED prog
        BY <3>3 DEF MkFifo
      <4>2. Named(1, None)'
        BY <1>2, <2>2, <3>3 DEF MkFifo, Named, Paths
      <4>3. /\ cgi'[1].pc = "mkfifo2" /\ cgi'[1].page = cgi[1].page
            /\ \A d \in Requests \ {1} : cgi'[d] = cgi[d]
        BY <1>2, <4>1, CgiChanges
      <4>4. Starts'
        BY <1>1, <2>1, <4>1, <4>2, <4>3 DEF Starts
      <4> QED BY <1>1, <2>1, <4>1, <4>3, <4>4, StayAlone DEF Turn
    <3> QED BY <3>1, <3>2, <3>3
  <2>3. CASE cgi[1].pc = "mkfifo2" /\ Named(1, None)
    <3>1. MkFifo(1, "toProgram", "mkfifo2", "spawn")
      BY <1>1, <2>1, <2>3
         DEF CgiStep, ForceExit, NobodyToForce, SeesGone, WaitsTooLong, MkFifo, Refuse, Spawn, Write, Read
    <3>2. cgi' = To(cgi, 1, "spawn") /\ UNCHANGED prog
      BY <3>1 DEF MkFifo
    <3>3. Named(1, 1)'
      BY <1>2, <2>3, <3>1 DEF MkFifo, Named, Paths
    <3>4. /\ cgi'[1].pc = "spawn" /\ cgi'[1].page = cgi[1].page
          /\ \A d \in Requests \ {1} : cgi'[d] = cgi[d]
      BY <1>2, <3>2, CgiChanges
    <3>5. Starts'
      BY <1>1, <2>1, <3>2, <3>3, <3>4 DEF Starts
    <3> QED BY <1>1, <2>1, <3>2, <3>4, <3>5, StayAlone DEF Turn
  <2>4. CASE cgi[1].pc = "spawn" /\ Named(1, 1)
    <3>1. Refuse(1) \/ Spawn(1)
      BY <1>1, <2>1, <2>4
         DEF CgiStep, ForceExit, NobodyToForce, SeesGone, WaitsTooLong, MkFifo, Write, Read
    <3>2. CASE Refuse(1)
      <4>1. cgi' = To(cgi, 1, "returned") /\ UNCHANGED <<path, prog>>
        BY <3>2 DEF Refuse
      <4>2. /\ cgi'[1].pc = "returned" /\ cgi'[1].page = cgi[1].page
            /\ \A d \in Requests \ {1} : cgi'[d] = cgi[d]
        BY <1>2, <4>1, CgiChanges
      <4>3. Over'
        BY <1>1, <1>2, <2>1, <4>1, <4>2 DEF Over, Answered
      <4> QED BY <1>1, <2>1, <4>1, <4>2, <4>3, StayAlone DEF Turn
    <3>3. CASE Spawn(1)
      <4>1. cgi' = To(cgi, 1, "read") /\ UNCHANGED path
        BY <3>3 DEF Spawn
      <4>2. PICK pc \in {"open", "gone", "end"} : prog' = To(prog, 1, pc)
        BY <3>3 DEF Spawn
      <4>3. /\ cgi'[1].pc = "read" /\ cgi'[1].page = cgi[1].page
            /\ \A d \in Requests \ {1} : cgi'[d] = cgi[d]
        BY <1>2, <4>1, CgiChanges
      <4>4. /\ prog'[1].pc = pc /\ prog'[1].at = prog[1].at
            /\ \A q \in Requests \ {1} : prog'[q] = prog[q]
        BY <1>2, <4>2, ProgChanges
      <4>5. CASE pc = "open"
        BY <1>1, <1>2, <2>1, <2>4, <4>1, <4>3, <4>4, <4>5, StayAlone
           DEF Gets, Named, Prog1At, Turn
      <4>6. CASE pc \in {"gone", "end"}
        <5>1. Over'
          BY <1>1, <1>2, <1>3, <2>1, <2>4, <4>1, <4>3, <4>4, <4>6 DEF Over, Starts, Named
        <5> QED BY <1>1, <2>1, <4>3, <4>4, <5>1, StayAlone DEF Turn
      <4> QED BY <4>5, <4>6
    <3> QED BY <3>1, <3>2, <3>3
  <2> QED BY <1>3, <2>1, <2>2, <2>3, <2>4 DEF Starts
<1>4. CASE Sends
  <2>1. Write(c) /\ path["toProgram"] = 1
    BY <1>1, <1>4 DEF CgiStep, ForceExit, NobodyToForce, SeesGone, WaitsTooLong, MkFifo, Refuse, Spawn,
                      Read, Sends, Named
  <2>2. cgi' = ToAt(cgi, c, "sending", 1) /\ UNCHANGED <<path, prog>>
    BY <1>2, <2>1 DEF Write
  <2>3. /\ cgi'[c].pc = "sending" /\ cgi'[c].at = 1 /\ cgi'[c].page = cgi[c].page
        /\ \A d \in Requests \ {c} : cgi'[d] = cgi[d]
    BY <2>2, CgiOpens
  <2>4. Sends'
    BY <1>1, <1>4, <2>2, <2>3 DEF Sends, Named, Prog1At
  <2> QED BY <1>1, <2>2, <2>3, <2>4, StayAlone DEF Turn
<1>5. CASE Gets
  <2>1. Read(c) /\ path["toBrowser"] = 1 /\ cgi[c].pc = "read"
    BY <1>1, <1>5 DEF CgiStep, ForceExit, NobodyToForce, SeesGone, WaitsTooLong, MkFifo, Refuse, Spawn,
                      Write, Read, Gets, Named
  <2>2. cgi' = ToAt(cgi, c, "receiving", 1) /\ UNCHANGED <<path, prog>>
    BY <1>2, <2>1 DEF Read
  <2>3. /\ cgi'[c].pc = "receiving" /\ cgi'[c].at = 1 /\ cgi'[c].page = cgi[c].page
        /\ \A d \in Requests \ {c} : cgi'[d] = cgi[d]
    BY <2>2, CgiOpens
  <2>4. Gets'
    BY <1>1, <1>5, <2>1, <2>2, <2>3 DEF Gets, Named, Prog1At
  <2> QED BY <1>1, <2>2, <2>3, <2>4, StayAlone DEF Turn
<1>6. CASE Over
  <2>1. /\ sent \in Requests /\ cgi[sent].page = NoPage /\ cgi[sent].pc \in {"read", "receiving"}
        /\ path["toBrowser"] \in {None, 1}
    BY <1>1, <1>6 DEF Over, Answered
  <2>2. Read(c) /\ cgi[c].pc = "read"
    BY <1>1, <2>1 DEF CgiStep, ForceExit, NobodyToForce, SeesGone, WaitsTooLong, MkFifo, Refuse,
                      Spawn, Write, Read
  <2>3. UNCHANGED <<path, prog>> /\ path["toBrowser"] # File
    BY <1>2, <2>1, <2>2 DEF Read, File, Fifo, None
  <2>4. \/ cgi' = ToAt(cgi, c, "receiving", path["toBrowser"])
        \/ cgi' = [cgi EXCEPT ![c] = [cgi[c] EXCEPT !.pc = "returned", !.page = NoPage]]
    BY <2>2, <2>3 DEF Read, CgiOK
  <2>5. /\ cgi'[c].pc \in {"receiving", "returned"} /\ cgi'[c].page = NoPage
        /\ \A d \in Requests \ {c} : cgi'[d] = cgi[d]
    <3>1. CASE cgi' = ToAt(cgi, c, "receiving", path["toBrowser"])
      BY <1>1, <2>1, <3>1, CgiOpens
    <3>2. CASE cgi' = [cgi EXCEPT ![c] = [cgi[c] EXCEPT !.pc = "returned", !.page = NoPage]]
      BY <3>2 DEF CgiOK, Cgis
    <3> QED BY <2>4, <3>1, <3>2
  <2>6. Over'
    BY <1>1, <1>6, <2>1, <2>2, <2>3, <2>5 DEF Over, Answered
  <2> QED BY <1>1, <2>3, <2>5, <2>6, StayAlone DEF Turn
<1> QED BY <1>1, <1>3, <1>4, <1>5, <1>6 DEF Turn, Shown

(* The only reader has the page the program closes.                        *)
LEMMA PageArrives ==
  ASSUME IInv, Alone, sent \in Requests, cgi[sent].pc = "receiving", cgi[sent].at = prog[1].at,
         cgi[sent].page = NoPage, NEW page, CloseStdout(1, page)
  PROVE  /\ cgi'[sent].pc = "returned" /\ cgi'[sent].page = page
         /\ \A c \in Requests \ {sent} : cgi'[c] = cgi[c]
<1> DEFINE at == prog[1].at
<1>1. Receivers(at) = {sent} /\ Printing(at) \ {1} = {}
  BY OnlyThese DEF IInv, Receivers
<1>2. Cardinality({sent}) = 1
  BY FS_Singleton
<1>3. cgi' = [c \in Requests |->
               IF c \notin {sent} THEN cgi[c]
               ELSE [cgi[c] EXCEPT !.pc = "returned",
                                   !.page = IF c \in {sent} /\ page # NoPage THEN page ELSE @]]
  BY <1>1, <1>2 DEF CloseStdout
<1>4. cgi[sent] \in Cgis
  BY DEF IInv, CgiOK
<1> QED BY <1>3, <1>4 DEF Cgis

LEMMA ProgTurn ==
  ASSUME IInv, Alone, Turn, NEW p \in Requests, ProgStep(p)
  PROVE  Alone' /\ Turn'
<1> USE DEF IInv
<1>1. p = 1 /\ prog[1].pc # "none" /\ sent' = sent
  <2>1. sent' = sent
    BY DEF ProgStep, OpenStdout, StdoutOpened, Ask, NoMore, OpenForm, ReadForm, Exit, End,
           Ending, Unlink
  <2> QED BY <2>1, OnlyThese
<1>2. 1 \in Requests /\ Fifo(1) /\ None # 1 /\ File # 1
  BY OneRequest DEF One, Fifo, None, File
<1> DEFINE Others == \A q \in Requests \ {1} : prog'[q] = prog[q]
<1>3. ASSUME Sends \/ Shown, OpenForm(1)
      PROVE  Alone' /\ Turn'
  <2>1. path["toProgram"] = 1
    BY <1>3 DEF Sends, Shown, Named
  <2>2. prog' = ToAt(prog, 1, "reading", 1) /\ UNCHANGED <<path, cgi>>
    BY <1>2, <1>3, <2>1 DEF OpenForm
  <2>3. /\ prog'[1].pc = "reading" /\ prog'[1].at = 1 /\ prog'[1].uid = prog[1].uid
        /\ Others
    BY <1>2, <2>2, ProgOpens
  <2>4. Sends' \/ Shown'
    BY <1>1, <1>3, <2>2, <2>3 DEF Sends, Shown, Named, Prog1At, Answered
  <2> QED BY <1>1, <2>2, <2>3, <2>4, StayAlone DEF Turn
<1>4. ASSUME ReadForm(1), prog[1].at = 1, sent \in Requests, cgi[sent].page = NoPage, Named(1, 1)
      PROVE  Alone' /\ Turn'
  <2> DEFINE at == prog[1].at
  <2>1. PICK c \in Senders(at) : \E killed \in SUBSET (Senders(at) \ {c}) :
          /\ Takes(1, cgi[c].uid)
          /\ cgi' = [d \in Requests |->
                       IF d \notin Senders(at) THEN cgi[d]
                       ELSE [cgi[d] EXCEPT !.pc = IF d \in killed THEN "returned" ELSE "read"]]
    BY <1>4 DEF ReadForm
  <2>2. Senders(at) = {sent} /\ c = sent
    BY OnlyThese
  <2>3. cgi' = [d \in Requests |-> IF d # sent THEN cgi[d] ELSE [cgi[d] EXCEPT !.pc = "read"]]
    BY <2>1, <2>2
  <2>4. /\ cgi'[sent].pc = "read" /\ cgi'[sent].page = NoPage
        /\ \A d \in Requests \ {sent} : cgi'[d] = cgi[d]
    BY <1>4, <2>3 DEF CgiOK, Cgis
  <2>5. prog' = [q \in Requests |-> IF q = 1 \/ (prog[1].pc = "reading" /\ q \in Readers(prog[1].at))
                                    THEN [prog[q] EXCEPT !.pc = "open"] ELSE prog[q]]
    BY <2>1 DEF Takes
  <2>6. prog'[1].pc = "open" /\ Others
    <3>1. \A q \in Requests \ {1} : q \notin Readers(prog[1].at)
      BY OnlyThese
    <3> QED BY <1>2, <2>5, <3>1 DEF ProgOK, Programs
  <2>7. path' = path
    BY <1>4 DEF ReadForm
  <2>8. Gets'
    BY <1>1, <1>4, <2>4, <2>6, <2>7 DEF Gets, Named, Prog1At
  <2> QED BY <1>1, <2>4, <2>6, <2>8, StayAlone DEF Turn
<1>5. CASE Sends \/ Shown
  <2>1. prog[1].pc \in {"asked", "reading"} /\ sent \in Requests /\ Named(1, 1)
    BY <1>5 DEF Sends, Shown, Prog1At
  <2>2. OpenForm(1) \/ ReadForm(1)
    BY <1>1, <2>1 DEF ProgStep, OpenStdout, StdoutOpened, Ask, NoMore, Exit, End, Ending, Unlink
  <2>3. CASE ReadForm(1)
    <3>1. prog[1].pc = "reading" /\ Senders(prog[1].at) # {}
      BY <2>3 DEF ReadForm
    <3>2. prog[1].at = 1
      BY <1>5, <3>1 DEF Sends, Shown, Prog1At
    <3>3. cgi[sent].pc = "sending"
      BY <3>1, OnlyThese DEF Senders
    <3>4. cgi[sent].page = NoPage
      BY <1>5, <3>3 DEF Sends, Shown, Answered
    <3> QED BY <1>4, <2>1, <2>3, <3>2, <3>4
  <2> QED BY <1>3, <1>5, <2>2, <2>3
<1>6. CASE Gets
  <2>1. prog[1].pc \in {"open", "opening", "printing", "end"} /\ sent \in Requests
        /\ Named(1, 1) /\ cgi[sent].page = NoPage
    BY <1>6 DEF Gets, Prog1At
  <2>2. OpenStdout(1) \/ StdoutOpened(1) \/ Ask(1) \/ NoMore(1) \/ Ending(1, "end", "end:unlink1", "gone")
    BY <1>1, <2>1 DEF ProgStep, OpenForm, ReadForm, Exit, End, Ending, Unlink
  <2>3. CASE OpenStdout(1)
    <3>1. prog' = ToAt(prog, 1, "opening", 1) /\ UNCHANGED <<path, cgi>>
      BY <1>2, <2>1, <2>3 DEF OpenStdout, Named
    <3>2. prog'[1].pc = "opening" /\ prog'[1].at = 1 /\ Others
      BY <1>2, <3>1, ProgOpens
    <3>3. Gets'
      BY <1>1, <1>6, <2>1, <3>1, <3>2 DEF Gets, Named, Prog1At
    <3> QED BY <1>1, <3>1, <3>2, <3>3, StayAlone DEF Turn
  <2>4. CASE StdoutOpened(1) \/ NoMore(1)
    <3>1. PICK pc \in {"printing", "end"} : prog' = To(prog, 1, pc)
      BY <2>4 DEF StdoutOpened, NoMore
    <3>2. UNCHANGED <<path, cgi>>
      BY <2>4 DEF StdoutOpened, NoMore
    <3>3. /\ cgi[sent].pc = "receiving" /\ cgi[sent].at = 1 /\ prog[1].at = 1
      <4>1. CASE StdoutOpened(1)
        <5>1. Receivers(prog[1].at) # {} /\ prog[1].pc = "opening"
          BY <4>1 DEF StdoutOpened
        <5>2. cgi[sent].pc = "receiving"
          BY <5>1, OnlyThese DEF Receivers
        <5> QED BY <1>6, <5>1, <5>2 DEF Gets, Prog1At
      <4>2. CASE NoMore(1)
        BY <1>6, <4>2 DEF NoMore, Gets, Prog1At
      <4> QED BY <2>4, <4>1, <4>2
    <3>4. prog'[1].pc = pc /\ prog'[1].at = 1 /\ Others
      BY <1>2, <3>1, <3>3, ProgChanges
    <3>5. Gets'
      BY <1>1, <2>1, <3>1, <3>2, <3>3, <3>4 DEF Gets, Named, Prog1At
    <3> QED BY <1>1, <3>2, <3>4, <3>5, StayAlone DEF Turn
  <2>5. CASE Ask(1)
    <3>1. /\ prog[1].pc = "printing" /\ CloseStdout(1, lastUid') /\ path' = path
          /\ lastUid' = lastUid + 1
          /\ prog' = [prog EXCEPT ![1] = [prog[1] EXCEPT !.pc = "asked", !.uid = lastUid']]
      BY <1>2, <2>5 DEF Ask, NewUid, ProgOK
    <3>2. cgi[sent].pc = "receiving" /\ cgi[sent].at = prog[1].at
      BY <1>6, <3>1 DEF Gets, Prog1At
    <3>3. /\ cgi'[sent].pc = "returned" /\ cgi'[sent].page = lastUid'
          /\ \A c \in Requests \ {sent} : cgi'[c] = cgi[c]
      BY <2>1, <3>1, <3>2, PageArrives
    <3>4. prog'[1].pc = "asked" /\ prog'[1].uid = lastUid' /\ Others
      BY <1>2, <3>1 DEF ProgOK, Programs
    <3>5. lastUid' # NoPage
      BY <3>1, Constants DEF NamesOK, NoPage
    <3>6. Shown'
      BY <1>1, <2>1, <3>1, <3>3, <3>4, <3>5 DEF Shown, Named, Prog1At, Answered
    <3> QED BY <1>1, <3>3, <3>4, <3>6, StayAlone DEF Turn
  <2>6. CASE Ending(1, "end", "end:unlink1", "gone")
    <3>1. CloseStdout(1, NoPage) /\ prog[1].pc = "end" /\ path["toProgram"] # None
      BY <1>2, <2>1, <2>6 DEF Ending, Named
    <3>2. prog' = ToAt(prog, 1, "end:unlink1", None)
      BY <2>6, <3>1 DEF Ending
    <3>3. cgi[sent].pc = "receiving" /\ cgi[sent].at = prog[1].at
      BY <1>6, <3>1 DEF Gets, Prog1At
    <3>4. /\ cgi'[sent].pc = "returned" /\ cgi'[sent].page = NoPage
          /\ \A c \in Requests \ {sent} : cgi'[c] = cgi[c]
      BY <2>1, <3>1, <3>3, PageArrives
    <3>5. prog'[1].pc = "end:unlink1" /\ Others
      BY <1>2, <3>2, ProgOpens
    <3>6. Over'
      BY <1>1, <2>1, <2>6, <3>4, <3>5 DEF Over, Answered, Ending, Named
    <3> QED BY <1>1, <3>4, <3>5, <3>6, StayAlone DEF Turn
  <2> QED BY <2>2, <2>3, <2>4, <2>5, <2>6
<1>7. CASE Over
  <2>1. /\ sent \in Requests /\ cgi[sent].page = NoPage
        /\ cgi[sent].pc \in {"read", "receiving", "returned"}
        /\ \/ prog[1].pc \in {"end:unlink1", "end:unlink2", "gone"}
           \/ prog[1].pc = "end" /\ prog[1].at = None
        /\ path["toBrowser"] \in {None, 1}
    BY <1>1, <1>7 DEF Over
  <2>2. \/ Ending(1, "end", "end:unlink1", "gone") /\ prog[1].pc = "end"
        \/ \E n \in Paths, next \in {"end:unlink2", "gone"} : Unlink(1, n, prog[1].pc, next)
    BY <1>1, <2>1 DEF ProgStep, OpenStdout, StdoutOpened, Ask, NoMore, OpenForm, ReadForm, Exit,
                      End, Ending, Unlink, Paths
  <2>3. CASE Ending(1, "end", "end:unlink1", "gone") /\ prog[1].pc = "end"
    <3>1. Receivers(None) = {} /\ prog[1].at = None
      BY <2>1, <2>3 DEF Receivers, CgiOK, Fifo, None, Requests
    <3>2. cgi' = cgi
      <4>1. cgi' = [c \in Requests |-> cgi[c]]
        BY <2>3, <3>1 DEF Ending, CloseStdout
      <4> QED BY <4>1 DEF CgiOK
    <3>3. PICK pc \in {"end:unlink1", "gone"} : prog' = ToAt(prog, 1, pc, None)
      BY <2>3 DEF Ending
    <3>4. prog'[1].pc = pc /\ Others
      BY <1>2, <3>3, ProgOpens
    <3>5. path' = path
      BY <2>3 DEF Ending
    <3>6. Over'
      BY <1>1, <2>1, <3>2, <3>4, <3>5 DEF Over, Answered
    <3> QED BY <1>1, <3>2, <3>4, <3>6, StayAlone DEF Turn
  <2>4. ASSUME NEW n \in Paths, NEW next \in {"end:unlink2", "gone"}, Unlink(1, n, prog[1].pc, next)
        PROVE  Alone' /\ Turn'
    <3>1. prog' = To(prog, 1, next) /\ UNCHANGED cgi /\ path' = [path EXCEPT ![n] = None]
      BY <2>4 DEF Unlink
    <3>2. prog'[1].pc = next /\ Others
      BY <1>2, <3>1, ProgChanges
    <3>3. path'["toBrowser"] \in {None, 1}
      BY <1>2, <2>1, <3>1 DEF NamesOK
    <3>4. Over'
      BY <1>1, <2>1, <3>1, <3>2, <3>3 DEF Over, Answered
    <3> QED BY <1>1, <3>1, <3>2, <3>4, StayAlone DEF Turn
  <2> QED BY <2>2, <2>3, <2>4
<1> QED BY <1>1, <1>5, <1>6, <1>7 DEF Turn, Starts

LEMMA StepTurn ==
  IInv /\ OneAtATime /\ [Next]_vars => OneAtATime'
<1> SUFFICES ASSUME IInv, Patient, Alone, Turn, [Next]_vars PROVE Alone' /\ Turn'
  BY DEF OneAtATime
<1>1. CASE UNCHANGED vars
  BY <1>1 DEF vars, Alone, Turn, Starts, Sends, Gets, Shown, Over, Named, Prog1At, Answered
<1> QED BY <1>1, UserTurn, CgiTurn, ProgTurn DEF Next

-----------------------------------------------------------------------------
(* The two names, the processes and the uids have their types: every uid   *)
(* was made, and only answers to pages that reached the browser are used.  *)
THEOREM TypeCorrect == Spec => []TypeOK
<1>1. IInv => TypeOK
  <2> SUFFICES ASSUME IInv PROVE TypeOK
    OBVIOUS
  <2> USE DEF IInv
  <2>1. path \in [Paths -> Spots] /\ content \in [Paths -> 0 .. MaxUid]
    BY Constants DEF NamesOK
  <2>2. ASSUME NEW x \in Requests
        PROVE  /\ cgi[x].pc \in CgiPcs /\ prog[x].pc \in ProgPcs
               /\ cgi[x].pc \in {"sending", "receiving"} => Fifo(cgi[x].at)
               /\ prog[x].pc \in {"opening", "reading"} => Fifo(prog[x].at)
               /\ cgi[x].page \in 0 .. lastUid /\ prog[x].uid \in 0 .. lastUid
    <3>1. cgi[x] \in Cgis /\ prog[x] \in Programs /\ lastUid \in Nat
      BY Constants DEF CgiOK, ProgOK, NamesOK
    <3> QED BY <3>1 DEF CgiOK, ProgOK, Cgis, Programs
  <2> QED BY <2>1, <2>2 DEF TypeOK, Spots, NamesOK
<1> QED BY Invariance, <1>1, PTL

(* No answer is used twice, by one program or by two, however many forms   *)
(* are sent from however many pages.                                       *)
THEOREM AnswerUsedOnceHolds == Spec => []AnswerUsedOnce
<1>1. IInv => AnswerUsedOnce
  BY DEF IInv, ProgOK
<1> QED BY Invariance, <1>1, PTL

(* A patient user looks at the page that his program waits for an answer   *)
(* to: however often he goes back to the form of an earlier page, the      *)
(* program, the CGI and the FIFOs are then at the same place.              *)
THEOREM PageIsAskedHolds == Spec => []PageIsAsked
<1>1. Init => OneAtATime
  BY InitTurn DEF OneAtATime
<1>2. IInv /\ OneAtATime => PageIsAsked
  <2> SUFFICES ASSUME IInv, Patient, Alone, Turn, sent > 0, Answered(sent), cgi[sent].page # NoPage
               PROVE  \E p \in Requests : /\ prog[p].pc \in {"asked", "reading"}
                                          /\ prog[p].uid = cgi[sent].page
    BY DEF OneAtATime, PageIsAsked
  <2>1. sent \in Nat
    BY Constants DEF IInv, NamesOK
  <2>2. Shown
    BY <2>1 DEF Turn, Starts, Sends, Gets, Over, Answered
  <2> QED BY <2>2, OneRequest DEF Shown, Prog1At, One
<1> QED BY Invariance, StepTurn, <1>1, <1>2, PTL DEF Spec
=============================================================================
