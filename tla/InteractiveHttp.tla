--------------------------- MODULE InteractiveHttp ---------------------------
(***************************************************************************)
(* The web front-end: a configuration program that uses                    *)
(* perl-install/interactive/http.pm, and interactive_http.cgi of           *)
(* perl-install/standalone/interactive_http, which runs once for every     *)
(* request of the browser.  They meet on two FIFOs with fixed names: a     *)
(* form goes to the program on one, a page comes back on the other.        *)
(*                                                                         *)
(* Opening a FIFO waits for another process to open its other end; opening *)
(* a name that does not exist for writing makes a regular file.  A process *)
(* that has or waits for a FIFO keeps it when its name is removed.         *)
(***************************************************************************)
EXTENDS Integers, FiniteSets

CONSTANTS
  MaxRequests,  \* bound: requests the browser sends
  MaxUid,       \* bound: pages with a question
  Patient       \* the user asks for one program, and waits for each answer

Requests == 1 .. MaxRequests
Uids     == 1 .. MaxUid

ASSUME ConstantsAssumption ==
  MaxRequests \in Nat \ {0} /\ MaxUid \in Nat \ {0} /\ Patient \in BOOLEAN

(* What a name stands for; a FIFO is known by the request that made it. *)
None == 0
File == -1
Paths == {"toProgram", "toBrowser"}
Fifo(x) == x \in Requests

VARIABLES
  path,      \* what the two names stand for
  content,   \* the uid a regular file under either name holds
  prog,      \* the programs, by the request that spawned them
  cgi,       \* the requests
  sent,      \* number of requests sent
  lastUid,   \* the uid made last
  seen,      \* the uids of the pages that reached the browser
  used       \* the uids whose answers a program took

vars == <<path, content, prog, cgi, sent, lastUid, seen, used>>

NoPage   == 0    \* a page without a question, or none
NoProg   == [pc |-> "none", uid |-> 0, at |-> None]
NoCgi    == [pc |-> "unsent", uid |-> 0, at |-> None, page |-> NoPage]

To(f, x, pc)       == [f EXCEPT ![x].pc = pc]
ToAt(f, x, pc, at) == [f EXCEPT ![x].pc = pc, ![x].at = at]

Init ==
  /\ path = [n \in Paths |-> None] /\ content = [n \in Paths |-> NoPage]
  /\ prog = [p \in Requests |-> NoProg] /\ cgi = [c \in Requests |-> NoCgi]
  /\ sent = 0 /\ lastUid = 0 /\ seen = {}
  /\ used = {}

-----------------------------------------------------------------------------
(* The user asks for a program, or sends a form, the one of an earlier     *)
(* page too.                                                               *)

Answered(c) == cgi[c].pc = "returned"

AskNew ==
  /\ sent < MaxRequests /\ (Patient => sent = 0)
  /\ sent' = sent + 1
  /\ cgi' = To(cgi, sent', "force")
  /\ UNCHANGED <<path, content, prog, lastUid, seen, used>>

SendForm(u) ==
  /\ sent \in 1 .. MaxRequests - 1 /\ u \in seen
  /\ Patient => Answered(sent) /\ cgi[sent].page # NoPage
  /\ sent' = sent + 1
  /\ cgi' = [cgi EXCEPT ![sent'].pc = "send", ![sent'].uid = u]
  /\ UNCHANGED <<path, content, prog, lastUid, seen, used>>

-----------------------------------------------------------------------------
(* interactive_http.cgi *)

Readers(at) == {p \in Requests : prog[p].pc = "reading" /\ prog[p].at = at}

(* force_exit_dead_prog: the program that waits for a form, if any does,   *)
(* is told to exit.                                                        *)
ForceExit(c) ==
  /\ cgi[c].pc = "force"
  /\ \E p \in Readers(path["toProgram"]) :
       /\ Fifo(path["toProgram"])
       /\ prog' = [q \in Requests |-> IF q = p THEN [prog[q] EXCEPT !.pc = "exit", !.at = None]
                                   ELSE IF q \in Readers(path["toProgram"])
                                   THEN [prog[q] EXCEPT !.pc = "open"] ELSE prog[q]]
       /\ cgi' = To(cgi, c, "wait")
  /\ UNCHANGED <<path, content, sent, lastUid, seen, used>>

NobodyToForce(c) ==
  /\ cgi[c].pc = "force"
  /\ ~Fifo(path["toProgram"]) \/ Readers(path["toProgram"]) = {}
  /\ cgi' = To(cgi, c, "mkfifo1")
  /\ UNCHANGED <<path, content, prog, sent, lastUid, seen, used>>

(* It waits until the name is gone, for ten seconds.                       *)
SeesGone(c) ==
  /\ cgi[c].pc = "wait" /\ ~Fifo(path["toProgram"])
  /\ cgi' = To(cgi, c, "mkfifo1")
  /\ UNCHANGED <<path, content, prog, sent, lastUid, seen, used>>

WaitsTooLong(c) ==
  /\ cgi[c].pc = "wait" /\ Fifo(path["toProgram"])
  /\ cgi' = To(cgi, c, "returned")
  /\ UNCHANGED <<path, content, prog, sent, lastUid, seen, used>>

(* mkfifo, of one name and then the other; a FIFO that is there is kept.   *)
MkFifo(c, n, before, after) ==
  /\ cgi[c].pc = before
  /\ path' = IF Fifo(path[n]) THEN path ELSE [path EXCEPT ![n] = c]
  /\ cgi' = To(cgi, c, after)
  /\ UNCHANGED <<content, prog, sent, lastUid, seen, used>>

(* spawn_server, of a program that is not among the authorised ones. *)
Refuse(c) ==
  /\ cgi[c].pc = "spawn"
  /\ cgi' = To(cgi, c, "returned")
  /\ UNCHANGED <<path, content, prog, sent, lastUid, seen, used>>

(* A program is spawned.  It may die before http->new opens its output: it *)
(* is not there to be executed or is killed, or it dies of itself once     *)
(* http.pm, whose END block then runs, is loaded.                          *)
Spawn(c) ==
  /\ cgi[c].pc = "spawn"
  /\ \E pc \in {"open", "gone", "end"} : prog' = To(prog, c, pc)
  /\ cgi' = To(cgi, c, "read")
  /\ UNCHANGED <<path, content, sent, lastUid, seen, used>>

(* write_: the name is opened; a FIFO makes it wait for a reader. *)
Write(c) ==
  /\ cgi[c].pc = "send"
  /\ IF Fifo(path["toProgram"])
       THEN /\ cgi' = ToAt(cgi, c, "sending", path["toProgram"])
            /\ UNCHANGED <<path, content>>
       ELSE /\ path' = [path EXCEPT !["toProgram"] = File]
            /\ content' = [content EXCEPT !["toProgram"] = cgi[c].uid]
            /\ cgi' = To(cgi, c, "read")
  /\ UNCHANGED <<prog, sent, lastUid, seen, used>>

(* read_: the name is opened; a FIFO makes it wait for a writer. *)
Read(c) ==
  /\ cgi[c].pc = "read"
  /\ LET at == path["toBrowser"]
         page == IF at = File THEN content["toBrowser"] ELSE NoPage
     IN  /\ cgi' = IF Fifo(at) THEN ToAt(cgi, c, "receiving", at)
                   ELSE [cgi EXCEPT ![c].pc = "returned", ![c].page = page]
         /\ seen' = seen \union ({page} \ {NoPage})
  /\ UNCHANGED <<path, content, prog, sent, lastUid, used>>

-----------------------------------------------------------------------------
(* The program. *)

(* open_stdout *)
OpenStdout(p) ==
  /\ prog[p].pc = "open"
  /\ IF Fifo(path["toBrowser"])
       THEN /\ prog' = ToAt(prog, p, "opening", path["toBrowser"])
            /\ UNCHANGED <<path, content>>
       ELSE /\ prog' = ToAt(prog, p, "printing", File)
            /\ path' = [path EXCEPT !["toBrowser"] = File]
            /\ content' = [content EXCEPT !["toBrowser"] = NoPage]
  /\ UNCHANGED <<cgi, sent, lastUid, seen, used>>

Receivers(at) == {c \in Requests : cgi[c].pc = "receiving" /\ cgi[c].at = at}

StdoutOpened(p) ==
  /\ prog[p].pc = "opening" /\ Receivers(prog[p].at) # {}
  /\ prog' = To(prog, p, "printing")
  /\ UNCHANGED <<path, content, cgi, sent, lastUid, seen, used>>

(* The program closes its output: those that read it have the page, and   *)
(* are at the end of it unless another program prints there.  When several *)
(* read, each has a part of the page, or one has all of it.                *)
Printing(at) == {p \in Requests : prog[p].pc \in {"printing", "end"} /\ prog[p].at = at}

CloseStdout(p, page) ==
  LET at   == prog[p].at
      left == Printing(at) \ {p}
  IN  /\ \E whole \in SUBSET Receivers(at) :
           /\ Cardinality(whole) <= 1
           /\ Cardinality(Receivers(at)) = 1 => whole = Receivers(at)
           /\ cgi' = [c \in Requests |->
                       IF c \notin Receivers(at) THEN cgi[c]
                       ELSE [cgi[c] EXCEPT
                               !.pc = IF left = {} THEN "returned" ELSE @,
                               !.page = IF c \in whole /\ page # NoPage THEN page ELSE @]]
           /\ seen' = IF whole = {} THEN seen ELSE seen \union ({page} \ {NoPage})
      /\ content' = IF at = File /\ path["toBrowser"] = File
                    THEN [content EXCEPT !["toBrowser"] = page] ELSE content

(* Wrong: a question keeps its uid when it is displayed again. *)
SameUid(p) ==
  /\ lastUid < MaxUid
  /\ lastUid' = IF prog[p].uid = 0 THEN lastUid + 1 ELSE lastUid
  /\ prog' = [prog EXCEPT ![p].pc = "asked",
                          ![p].uid = IF @ = 0 THEN lastUid' ELSE @]

(* new_uid *)
NewUid(p) ==
  /\ lastUid < MaxUid
  /\ lastUid' = lastUid + 1
  /\ prog' = [prog EXCEPT ![p].pc = "asked", ![p].uid = lastUid']

(* Wrong: the form of the next page has the uid of the one before, as      *)
(* CGI's hidden fields keep the value that was sent.                       *)
AskStale(p) ==
  /\ prog[p].pc = "printing"
  /\ NewUid(p)
  /\ CloseStdout(p, IF prog[p].uid = 0 THEN lastUid' ELSE prog[p].uid)
  /\ UNCHANGED <<path, sent, used>>

(* ask_fromW: a page with a question. *)
Ask(p) ==
  /\ prog[p].pc = "printing"
  /\ NewUid(p)
  /\ CloseStdout(p, lastUid')
  /\ UNCHANGED <<path, sent, used>>

(* The program has no more questions: it ends, its output still open. *)
NoMore(p) ==
  /\ prog[p].pc = "printing"
  /\ prog' = To(prog, p, "end")
  /\ UNCHANGED <<path, content, cgi, sent, lastUid, seen, used>>

(* Wrong: a form that is not its own is passed over without a page. *)
TakesOnly(p, u) ==
  /\ prog' = To(prog, p, IF u = prog[p].uid THEN "open" ELSE "asked")
  /\ used' = IF u = prog[p].uid THEN used \union {u} ELSE used

(* What the program does with a form.  Others that wait for one there find *)
(* nothing, and display their question again as they do for another's form. *)
Takes(p, u) ==
  /\ prog' = [q \in Requests |->
                IF q = p \/ (prog[p].pc = "reading" /\ q \in Readers(prog[p].at))
                THEN [prog[q] EXCEPT !.pc = "open"] ELSE prog[q]]
  /\ used' = IF u = prog[p].uid THEN used \union {u} ELSE used

(* Wrong: it goes on when there is nothing to open. *)
OpenFormAny(p) ==
  /\ prog[p].pc = "asked"
  /\ IF path["toProgram"] = File THEN Takes(p, content["toProgram"])
     ELSE prog' = ToAt(prog, p, "reading", path["toProgram"]) /\ UNCHANGED used
  /\ UNCHANGED <<path, content, cgi, sent, lastUid, seen>>

(* It opens the other name, or dies without one. *)
OpenForm(p) ==
  /\ prog[p].pc = "asked"
  /\ IF path["toProgram"] = File THEN Takes(p, content["toProgram"])
     ELSE /\ prog' = IF path["toProgram"] = None THEN ToAt(prog, p, "end", None)
                     ELSE ToAt(prog, p, "reading", path["toProgram"])
          /\ UNCHANGED used
  /\ UNCHANGED <<path, content, cgi, sent, lastUid, seen>>

Senders(at) == {c \in Requests : cgi[c].pc = "sending" /\ cgi[c].at = at}

(* Several that wait to write go on at once; one form is read, the others  *)
(* are lost, or their writers die of a broken pipe.                        *)
ReadForm(p) ==
  /\ prog[p].pc = "reading"
  /\ \E c \in Senders(prog[p].at) : \E killed \in SUBSET (Senders(prog[p].at) \ {c}) :
       /\ Takes(p, cgi[c].uid)
       /\ cgi' = [d \in Requests |->
                    IF d \notin Senders(prog[p].at) THEN cgi[d]
                    ELSE [cgi[d] EXCEPT !.pc = IF d \in killed THEN "returned" ELSE "read"]]
  /\ UNCHANGED <<path, content, sent, lastUid, seen>>

(* end(), when force_exit_dead_prog says so and again in the END block:    *)
(* nothing when the name toProgram is gone, else the last page is closed   *)
(* and the two names are removed.                                          *)
Ending(p, pc, unlinks, next) ==
  /\ prog[p].pc = pc
  /\ CloseStdout(p, NoPage)
  /\ IF path["toProgram"] = None
       THEN prog' = ToAt(prog, p, next, None) ELSE prog' = ToAt(prog, p, unlinks, None)
  /\ UNCHANGED <<path, sent, lastUid, used>>

Unlink(p, n, pc, next) ==
  /\ prog[p].pc = pc
  /\ path' = [path EXCEPT ![n] = None]
  /\ prog' = To(prog, p, next)
  /\ UNCHANGED <<content, cgi, sent, lastUid, seen, used>>

Exit(p) ==
  \/ Ending(p, "exit", "exit:unlink1", "end")
  \/ Unlink(p, "toProgram", "exit:unlink1", "exit:unlink2")
  \/ Unlink(p, "toBrowser", "exit:unlink2", "end")

End(p) ==
  \/ Ending(p, "end", "end:unlink1", "gone")
  \/ Unlink(p, "toProgram", "end:unlink1", "end:unlink2")
  \/ Unlink(p, "toBrowser", "end:unlink2", "gone")

-----------------------------------------------------------------------------
CgiStep(c) ==
  \/ ForceExit(c) \/ NobodyToForce(c) \/ SeesGone(c) \/ WaitsTooLong(c)
  \/ MkFifo(c, "toBrowser", "mkfifo1", "mkfifo2")
  \/ MkFifo(c, "toProgram", "mkfifo2", "spawn")
  \/ Refuse(c) \/ Spawn(c) \/ Write(c) \/ Read(c)

ProgStep(p) ==
  \/ OpenStdout(p) \/ StdoutOpened(p) \/ Ask(p) \/ NoMore(p)
  \/ OpenForm(p) \/ ReadForm(p) \/ Exit(p) \/ End(p)

User == AskNew \/ \E u \in Uids : SendForm(u)

Next == User \/ \E x \in Requests : CgiStep(x) \/ ProgStep(x)

Spec == Init /\ [][Next]_vars

(* The processes run; the user need not do anything. *)
FairSpec ==
  Spec /\ \A x \in Requests : WF_vars(CgiStep(x)) /\ WF_vars(ProgStep(x))

-----------------------------------------------------------------------------
(* Properties. *)

CgiPcs == {"unsent", "force", "wait", "mkfifo1", "mkfifo2", "spawn", "send",
           "sending", "read", "receiving", "returned"}

ProgPcs == {"none", "open", "opening", "printing", "asked", "reading",
            "exit", "exit:unlink1", "exit:unlink2",
            "end", "end:unlink1", "end:unlink2", "gone"}

(* Every variable has its type. *)
TypeOK ==
  /\ path \in [Paths -> {None, File} \union Requests] /\ content \in [Paths -> 0 .. MaxUid]
  /\ \A x \in Requests :
       /\ cgi[x].pc \in CgiPcs /\ prog[x].pc \in ProgPcs
       /\ cgi[x].pc \in {"sending", "receiving"} => Fifo(cgi[x].at)
       /\ prog[x].pc \in {"opening", "reading"} => Fifo(prog[x].at)
       /\ cgi[x].page \in 0 .. lastUid /\ prog[x].uid \in 0 .. lastUid
  /\ sent \in 0 .. MaxRequests /\ lastUid \in 0 .. MaxUid
  /\ seen \subseteq 1 .. lastUid /\ used \subseteq seen

(* An answer is used once, by one program, however often the form is sent, *)
(* from wherever in the browser's history, and whatever programs there are.*)
AnswerUsedOnce ==
  \A p \in Requests : prog[p].pc \in {"asked", "reading"} => prog[p].uid \notin used

(* The page a patient user looks at is the one its program waits for.      *)
PageIsAsked ==
  Patient /\ sent > 0 /\ Answered(sent) /\ cgi[sent].page # NoPage
    => \E p \in Requests : /\ prog[p].pc \in {"asked", "reading"}
                           /\ prog[p].uid = cgi[sent].page

(* The first request of a patient user is answered, unless its program     *)
(* dies before it opens its output: then read_ may wait for ever.  Every   *)
(* other is, also when it sends the form of an earlier page.               *)
RequestAnswered ==
  Patient =>
    /\ sent = 1 ~> Answered(1) \/ prog[1].pc # "none"
    /\ prog[1].pc = "open" ~> Answered(1)
    /\ \A c \in Requests \ {1} : sent = c ~> Answered(c)
=============================================================================
