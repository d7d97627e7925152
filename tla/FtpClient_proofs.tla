--------------------------- MODULE FtpClient_proofs ---------------------------
(***************************************************************************)
(* For any number of replies that come late: what the FTP client loads is  *)
(* the image of the path stage2 is told, commands and replies stay in step *)
(* with a server that answers in time, at most four ports are opened, and  *)
(* an attempt has a bounded number of steps and can always go on (module   *)
(* FtpClient).  The dialogue around it tells of the place it loaded from,  *)
(* and cancelling does not go round in it, nor does the automatic mode     *)
(* unless the network does not come up (module Fetch).                     *)
(***************************************************************************)
EXTENDS FtpClient, TLAPS, SequenceTheorems

Passive  == {"pasv", "pasv2"}
Commands == [cmd : Asking, path : Paths]
Replies  == [to : Asking, path : Paths, ok : BOOLEAN, port : Nat]

Types ==
  /\ files \subseteq Paths /\ path \in Paths
  /\ step \in Asking \union {"listing", "load", "got", "failed", "unloaded"}
  /\ phase \in {"send", "connect", "wait"}
  /\ sock \in BOOLEAN /\ eof \in BOOLEAN /\ ports \in Nat
  /\ out \in Seq(Commands) /\ in \in Seq(Replies)
  /\ busy \in [cmd : {"none", "list", "retr"}, path : Paths]

(* When the client waits and connects, and what a closed connection leaves. *)
Flow ==
  /\ phase = "wait" => step \in Asking
  /\ phase = "connect" => step \in {"list", "retr"}
  /\ step \in {"end", "final"} => phase = "wait"
  /\ ~sock => /\ phase = "send" /\ step # "listing"
              /\ out = <<>> /\ in = <<>> /\ busy = Idle

(* Nothing is asked of the subdirectory before the directory was tried.    *)
PlainFirst ==
  path = "plain" => (\A i \in DOMAIN out : out[i].path = "plain") /\ busy.path = "plain"

(* As long as the client tries the directory no port is on its way to it,  *)
(* but for the one that it waits for.                                      *)
NoPort  == \A i \in DOMAIN in : in[i].port = 0
NoPasv  == \A i \in DOMAIN out : out[i].cmd \notin Passive
OnePort == \A i, j \in DOMAIN in : in[i].port # 0 /\ in[j].port # 0 => i = j
OnePasv == \A i, j \in DOMAIN out : out[i].cmd \in Passive /\ out[j].cmd \in Passive => i = j
Awaited == phase = "wait" /\ step \in Passive

Quiet ==
  path = "plain" =>
    /\ Awaited => OnePort /\ OnePasv /\ (NoPort \/ NoPasv)
    /\ ~Awaited => NoPort /\ NoPasv

(* A port that comes after the file of the directory was asked for is the  *)
(* answer to a later command: the server has the file's transfer behind it *)
(* by then.                                                                *)
OfPlain(c) == c.cmd = "retr" /\ c.path = "plain"

Behind ==
  /\ OfPlain(busy) => NoPort
  /\ \A i \in DOMAIN out :
       OfPlain(out[i]) => NoPort /\ \A j \in DOMAIN out : j <= i => out[j].cmd \notin Passive

(* So a port of the subdirectory leads to nothing but the subdirectory.    *)
Beyond ==
  path = "arch" /\ step \in {"list", "listing", "end", "retr", "load"} =>
    ~OfPlain(busy) /\ \A i \in DOMAIN out : ~OfPlain(out[i])

Found == busy.cmd = "retr" => busy.path \in files

IInv == Types /\ Flow /\ PlainFirst /\ Quiet /\ Behind /\ Beyond /\ Found /\ LoadedIsTold

-----------------------------------------------------------------------------
(* Sequences. *)

LEMMA AppendParts ==
  ASSUME NEW S, NEW s \in Seq(S), NEW e \in S
  PROVE  /\ Append(s, e) \in Seq(S) /\ DOMAIN Append(s, e) = 1 .. Len(s) + 1
         /\ \A i \in DOMAIN s : Append(s, e)[i] = s[i]
         /\ Append(s, e)[Len(s) + 1] = e /\ DOMAIN s = 1 .. Len(s) /\ Len(s) \in Nat
  BY AppendProperties, LenProperties

LEMMA TailParts ==
  ASSUME NEW S, NEW s \in Seq(S), s # <<>>
  PROVE  /\ Tail(s) \in Seq(S) /\ Head(s) = s[1] /\ 1 \in DOMAIN s /\ s[1] \in S
         /\ \A i \in DOMAIN Tail(s) : i \in Nat /\ i + 1 \in DOMAIN s /\ Tail(s)[i] = s[i + 1]
  BY HeadTailProperties, LenProperties, ElementOfSeq

LEMMA RestParts ==
  ASSUME NEW S, NEW s \in Seq(S), NEW k \in DOMAIN s
  PROVE  /\ SubSeq(s, k + 1, Len(s)) \in Seq(S)
         /\ \A i \in DOMAIN SubSeq(s, k + 1, Len(s)) :
              i \in Nat \ {0} /\ k + i \in DOMAIN s /\ SubSeq(s, k + 1, Len(s))[i] = s[k + i]
<1>1. k \in 1 .. Len(s) /\ Len(s) \in Nat /\ DOMAIN s = 1 .. Len(s) /\ \A i \in 1 .. Len(s) : s[i] \in S
  BY LenProperties, ElementOfSeq
<1>2. CASE k + 1 <= Len(s)
  BY <1>1, <1>2, SubSeqProperties
<1>3. CASE k = Len(s)
  <2>1. SubSeq(s, k + 1, Len(s)) = <<>>
    BY <1>1, <1>3, SubSeqEmpty
  <2> QED BY <2>1
<1> QED BY <1>1, <1>2, <1>3

-----------------------------------------------------------------------------
(* The client's steps. *)

LEMMA InitInv == Init => IInv
<1> SUFFICES ASSUME Init PROVE IInv
  OBVIOUS
<1>1. Command("greet") = [cmd |-> "greet", path |-> "plain"]
  BY DEF Init, Command
<1>2. /\ out \in Seq(Commands) /\ DOMAIN out = {1}
      /\ out[1].cmd = "greet" /\ out[1].path = "plain"
  BY <1>1 DEF Init, Commands, Asking, Paths
<1>3. in \in Seq(Replies) /\ DOMAIN in = {}
  BY DEF Init
<1>4. /\ step = "greet" /\ phase = "wait" /\ path = "plain" /\ sock = TRUE /\ eof = FALSE
      /\ ports = 0 /\ busy = Idle /\ files \subseteq Paths
  BY DEF Init
<1>5. Types
  BY <1>2, <1>3, <1>4 DEF Types, Asking, Paths, Idle
<1>6. Flow
  BY <1>4 DEF Flow, Asking
<1>7. PlainFirst /\ Found /\ LoadedIsTold /\ Beyond
  BY <1>2, <1>4 DEF PlainFirst, Found, LoadedIsTold, Beyond, Idle
<1>8. Quiet /\ Behind
  BY <1>2, <1>3, <1>4 DEF Quiet, Behind, NoPort, NoPasv, Awaited, Passive, OfPlain, Idle
<1> QED BY <1>5, <1>6, <1>7, <1>8 DEF IInv

(* A failure leaves no more replies than there were and asks for nothing;  *)
(* only with PASV the connection is closed as well, or the subdirectory    *)
(* next.                                                                   *)
LEMMA FailsKeep ==
  ASSUME IInv, step \in Asking, NEW replies \in Seq(Replies),
         \A i \in DOMAIN replies : \E j \in DOMAIN in : replies[i] = in[j],
         Fails(replies), UNCHANGED <<port, image, server, world>>
  PROVE  IInv'
<1> USE DEF IInv
<1>1. step' = Otherwise /\ phase' = "send" /\ path' = IF step \in {"pasv2", "retr"} THEN "arch" ELSE path
  BY DEF Fails, Goto, Otherwise
<1>2. step' \in {"failed", "pasv2", "cwd", "got"} /\ (step' = "got" => step = "final")
  BY <1>1 DEF Otherwise, Asking
<1>3. UNCHANGED <<image, files, eof, ports>>
  BY DEF server, world
<1>4. CASE Closing
  <2>1. sock' = FALSE /\ in' = <<>> /\ out' = <<>> /\ busy' = Idle
    BY <1>4 DEF Fails, Closing
  <2>2. Types'
    BY <1>1, <1>2, <1>3, <2>1, EmptySeq DEF Types, Asking, Paths, Idle
  <2>3. Flow'
    BY <1>1, <1>2, <2>1 DEF Flow
  <2>4. PlainFirst' /\ Quiet' /\ Behind' /\ Beyond' /\ Found'
    BY <1>2, <2>1 DEF PlainFirst, Quiet, Behind, Beyond, Found, Idle, OfPlain, NoPort, NoPasv,
                      OnePort, OnePasv
  <2>5. LoadedIsTold'
    BY <1>2, <1>4 DEF Closing, LoadedIsTold
  <2> QED BY <2>2, <2>3, <2>4, <2>5
<1>5. CASE ~Closing
  <2>1. (sock' <=> sock) /\ sock' \in BOOLEAN /\ in' = replies /\ out' = out /\ busy' = busy
    BY <1>5 DEF Fails, Types
  <2>2. ~sock => replies = <<>>
    <3> SUFFICES ASSUME ~sock PROVE replies = <<>>
      OBVIOUS
    <3>1. DOMAIN in = {}
      BY DEF Flow
    <3>2. DOMAIN replies = {}
      BY <3>1
    <3> QED BY <3>2, LenProperties, EmptySeq
  <2>3. Types'
    BY <1>1, <1>2, <1>3, <2>1 DEF Types, Asking, Paths
  <2>4. Flow'
    BY <1>1, <1>2, <2>1, <2>2 DEF Flow
  <2>5. PlainFirst'
    BY <1>1, <2>1 DEF PlainFirst
  <2>6. NoPort => NoPort'
    BY <2>1 DEF NoPort
  <2>7. Quiet'
    <3> SUFFICES ASSUME path' = "plain" PROVE NoPort' /\ NoPasv'
      BY <1>1 DEF Quiet, Awaited
    <3>1. path = "plain" /\ step \notin {"pasv2", "retr"}
      BY <1>1
    <3>2. ~Awaited
      BY <1>5, <3>1 DEF Closing, Awaited, Passive, Flow
    <3> QED BY <2>1, <2>6, <3>1, <3>2 DEF Quiet, NoPasv
  <2>8. Behind'
    BY <2>1, <2>6 DEF Behind
  <2>9. Beyond'
    BY <1>2 DEF Beyond
  <2>10. Found'
    BY <1>3, <2>1 DEF Found
  <2>11. LoadedIsTold'
    BY <1>1, <1>2, <1>3 DEF LoadedIsTold
  <2> QED BY <2>3, <2>4, <2>5, <2>7, <2>8, <2>9, <2>10, <2>11
<1> QED BY <1>4, <1>5

LEMMA SendKeeps == IInv /\ Send => IInv'
<1> SUFFICES ASSUME IInv, Send PROVE IInv'
  OBVIOUS
<1> USE DEF IInv, Types, Flow, PlainFirst, Quiet, Behind, Beyond, Found, LoadedIsTold,
            NoPort, NoPasv, OnePort, OnePasv, Awaited, Passive, OfPlain
<1>1. /\ UNCHANGED <<step, path, sock, image, in, eof, ports, busy, files>> /\ sock /\ phase = "send"
      /\ step \in Asking /\ phase' = IF step \in {"list", "retr"} THEN "connect" ELSE "wait"
  BY DEF Send, server, world
<1>2. CASE out' = out
  BY <1>1, <1>2
<1>3. CASE out' = Append(out, Command(step))
  <2>1. Command(step) \in Commands /\ Command(step).cmd = step /\ Command(step).path = path
    BY <1>1 DEF Command, Commands
  <2>2. /\ out' \in Seq(Commands) /\ DOMAIN out' = 1 .. Len(out) + 1
        /\ \A i \in DOMAIN out : out'[i] = out[i]
        /\ out'[Len(out) + 1] = Command(step) /\ DOMAIN out = 1 .. Len(out) /\ Len(out) \in Nat
    BY <1>3, <2>1, AppendParts
  <2>3. Types' /\ Flow' /\ Found' /\ LoadedIsTold'
    BY <1>1, <2>2
  <2>4. PlainFirst'
    BY <1>1, <2>1, <2>2
  <2>5. Quiet'
    BY <1>1, <2>1, <2>2
  <2>6. Behind'
    <3>1. path = "plain" => NoPort /\ NoPasv
      BY <1>1
    <3>2. \A i \in DOMAIN out' : i \in DOMAIN out \/ i = Len(out) + 1
      BY <2>2
    <3>3. ASSUME NEW i \in DOMAIN out', OfPlain(out'[i])
          PROVE  NoPort' /\ \A j \in DOMAIN out' : j <= i => out'[j].cmd \notin Passive
      <4>1. CASE i \in DOMAIN out
        <5>1. \A j \in DOMAIN out' : j <= i => j \in DOMAIN out
          BY <2>2, <4>1
        <5> QED BY <1>1, <2>2, <3>3, <4>1, <5>1
      <4>2. CASE i = Len(out) + 1
        <5>1. step = "retr" /\ path = "plain"
          BY <2>1, <2>2, <3>3, <4>2
        <5> QED BY <1>1, <2>1, <2>2, <3>1, <3>2, <5>1
      <4> QED BY <3>2, <4>1, <4>2
    <3> QED BY <1>1, <3>3
  <2>7. Beyond'
    BY <1>1, <2>1, <2>2
  <2> QED BY <2>3, <2>4, <2>5, <2>6, <2>7
<1> QED BY <1>2, <1>3 DEF Send

LEMMA ConnectKeeps == IInv /\ Connect => IInv'
  BY DEF Connect, IInv, Types, Flow, PlainFirst, Quiet, Behind, Beyond, Found, LoadedIsTold, Asking,
         NoPort, NoPasv, OnePort, OnePasv, Awaited, Passive, OfPlain, server, world

LEMMA ReadListingKeeps == IInv /\ ReadListing => IInv'
<1> SUFFICES ASSUME IInv, ReadListing PROVE IInv'
  OBVIOUS
<1> USE DEF IInv
<1>1. /\ UNCHANGED <<path, sock, image, out, in, eof, ports, busy, files>>
      /\ step = "listing" /\ step' = "end" /\ phase' = "wait"
  BY DEF ReadListing, Goto, server, world
<1>2. sock /\ ~Awaited /\ ~Awaited'
  BY <1>1 DEF Awaited, Flow, Types, Passive
<1>3. Types' /\ Flow'
  BY <1>1, <1>2 DEF Types, Flow, Asking
<1>4. PlainFirst' /\ Behind' /\ Beyond' /\ Found' /\ LoadedIsTold'
  BY <1>1 DEF PlainFirst, Behind, NoPort, Beyond, Found, LoadedIsTold
<1>5. Quiet'
  BY <1>1, <1>2 DEF Quiet, NoPort, NoPasv
<1> QED BY <1>3, <1>4, <1>5

(* With the reply that tells the port the last one is read that was on its *)
(* way; on the subdirectory it shows that no file of the directory is.     *)
LEMMA UnderstandKeeps ==
  ASSUME IInv, NEW k \in DOMAIN in, Understand(k)
  PROVE  IInv'
<1> USE DEF IInv, Types, Flow, PlainFirst, Quiet, Behind, Beyond, Found, LoadedIsTold,
            NoPort, NoPasv, OnePort, OnePasv, Awaited, Passive, OfPlain
<1>1. /\ UNCHANGED <<path, sock, image, out, eof, ports, busy, files>> /\ sock /\ phase = "wait"
      /\ step' = After[step] /\ phase' = IF step' \in {"end", "final"} THEN "wait" ELSE "send"
      /\ step \in Passive => in[k].port # 0
  BY DEF Understand, Goto, Good, Pasv, server, world
<1>2. /\ in' \in Seq(Replies)
      /\ \A i \in DOMAIN in' : i \in Nat \ {0} /\ k + i \in DOMAIN in /\ in'[i] = in[k + i]
  BY RestParts DEF Understand, Rest
<1>3. step \in Asking /\ k \in Nat
  BY <1>1, LenProperties
<1>4. /\ step' \in {"user", "pass", "type", "cwd", "pasv", "list", "listing", "pasv2", "retr", "load", "got"}
      /\ step' = "list" => step = "pasv"
      /\ step' = "retr" => step = "pasv2"
      /\ step' = "listing" => step = "list"
      /\ step' = "load" => step = "retr"
      /\ step' = "got" => step = "final"
  BY <1>1, <1>3 DEF After, Asking
<1>5. Types' /\ Flow' /\ PlainFirst' /\ Found' /\ LoadedIsTold'
  BY <1>1, <1>2, <1>4 DEF Asking
<1>6. NoPort => NoPort'
  BY <1>2
<1>7. Quiet'
  <2> SUFFICES ASSUME path = "plain" PROVE NoPort' /\ NoPasv'
    BY <1>1, <1>4
  <2>1. CASE step \notin Passive
    BY <1>1, <1>6, <2>1
  <2>2. CASE step \in Passive
    <3>1. in[k].port # 0 /\ OnePort /\ NoPasv
      BY <1>1, <2>2
    <3>2. \A i \in DOMAIN in' : k + i # k
      BY <1>2, <1>3
    <3> QED BY <1>1, <1>2, <3>1, <3>2
  <2> QED BY <2>1, <2>2
<1>8. Behind'
  BY <1>1, <1>6
<1>9. Beyond'
  <2>1. CASE step \in Passive
    <3>1. ~NoPort
      BY <1>1, <2>1
    <3> QED BY <1>1, <3>1
  <2>2. CASE step \notin Passive
    BY <1>1, <1>4, <2>2
  <2> QED BY <2>1, <2>2
<1> QED BY <1>5, <1>7, <1>8, <1>9

(* What is loaded is what the server sends at the time: the file of the    *)
(* path, since the other one is not asked for or is over.                  *)
LEMMA LoadKeeps == IInv /\ Load => IInv'
<1> SUFFICES ASSUME IInv, Load PROVE IInv'
  OBVIOUS
<1> USE DEF IInv
<1>1. /\ UNCHANGED <<path, sock, out, eof, ports, files>> /\ step = "load" /\ busy' = Idle
      /\ step' \in {"final", "unloaded"} /\ phase' = IF step' = "final" THEN "wait" ELSE "send"
      /\ step' = "final" => busy.cmd = "retr" /\ image' = busy.path
      /\ \/ in' = in /\ step' = "unloaded"
         \/ busy.cmd = "retr" /\ in' = Append(in, Reply([cmd |-> "final", path |-> busy.path], TRUE, 0))
  BY DEF Load, Goto, server, world
<1>2. CASE in' = in /\ step' = "unloaded"
  <2>1. Types' /\ Flow'
    BY <1>1, <1>2 DEF Types, Flow, Idle, Paths
  <2>2. PlainFirst' /\ Quiet' /\ Behind' /\ Beyond' /\ Found' /\ LoadedIsTold'
    BY <1>1, <1>2 DEF PlainFirst, Quiet, Behind, Beyond, Found, LoadedIsTold, Idle, OfPlain, NoPort,
                      NoPasv, Awaited, Passive
  <2> QED BY <2>1, <2>2
<1> DEFINE r == Reply([cmd |-> "final", path |-> busy.path], TRUE, 0)
<1>3. CASE busy.cmd = "retr" /\ in' = Append(in, r)
  <2>1. r \in Replies /\ r.port = 0
    BY DEF Types, Reply, Replies, Asking
  <2>2. in' \in Seq(Replies) /\ (NoPort => NoPort')
    <3> HIDE DEF r
    <3> QED BY <1>3, <2>1, AppendParts DEF Types, NoPort
  <2>3. sock
    BY <1>3 DEF Flow, Idle
  <2>4. Types' /\ Flow'
    BY <1>1, <2>2, <2>3 DEF Types, Flow, Idle, Paths, Asking
  <2>5. PlainFirst' /\ Beyond' /\ Found'
    BY <1>1 DEF PlainFirst, Beyond, Found, Idle
  <2>6. Quiet' /\ Behind'
    BY <1>1, <2>2 DEF Quiet, Behind, NoPasv, Awaited, Passive, Idle, OfPlain
  <2>7. busy.path = path
    BY <1>1, <1>3 DEF PlainFirst, Beyond, OfPlain, Types, Paths
  <2>8. LoadedIsTold'
    BY <1>1, <1>3, <2>7 DEF LoadedIsTold, Found
  <2> QED BY <2>4, <2>5, <2>6, <2>8
<1> QED BY <1>1, <1>2, <1>3

-----------------------------------------------------------------------------
(* The server's steps. *)

(* The end of a transfer: a reply without a port.                          *)
LEMMA EndKeeps ==
  ASSUME IInv, busy # Idle, NEW r \in Replies, r.port = 0,
         in' = Append(in, r), busy' = Idle, UNCHANGED <<client, out, eof, ports, world>>
  PROVE  IInv'
<1> USE DEF IInv
<1>1. UNCHANGED <<step, phase, path, sock, image, out, eof, ports, files>>
  BY DEF client, world
<1>2. sock
  BY DEF Flow
<1>3. in' \in Seq(Replies) /\ (NoPort => NoPort') /\ (OnePort => OnePort')
  BY AppendParts DEF Types, NoPort, OnePort
<1>4. Types' /\ Flow'
  BY <1>1, <1>2, <1>3 DEF Types, Flow, Idle, Paths
<1>5. PlainFirst' /\ Beyond' /\ Found' /\ LoadedIsTold'
  BY <1>1 DEF PlainFirst, Beyond, Found, Idle, OfPlain, LoadedIsTold
<1>6. Quiet'
  BY <1>1, <1>3 DEF Quiet, NoPasv, OnePasv, Awaited
<1>7. Behind'
  BY <1>1, <1>3 DEF Behind, Idle, OfPlain
<1> QED BY <1>4, <1>5, <1>6, <1>7

(* The server takes the first command.  It tells a port only for PASV: the *)
(* only one the client waits for, and with no file of the directory asked  *)
(* for behind it.                                                          *)
LEMMA TakeKeeps ==
  ASSUME IInv, out # <<>>, NEW r \in Replies, in' = Append(in, r), out' = Tail(out),
         r.port # 0 => Head(out).cmd \in Passive, ports' \in Nat,
         \/ busy' = Idle
         \/ busy' = Head(out) /\ busy'.cmd \in {"list", "retr"} /\ (busy'.cmd = "retr" => busy'.path \in files),
         UNCHANGED <<client, eof, world>>
  PROVE  IInv'
<1> USE DEF IInv
<1>1. UNCHANGED <<step, phase, path, sock, image, eof, files>>
  BY DEF client, world
<1>2. sock
  BY DEF Flow
<1>3. /\ out' \in Seq(Commands) /\ Head(out) = out[1] /\ 1 \in DOMAIN out /\ out[1] \in Commands
      /\ \A i \in DOMAIN out' : i \in Nat /\ i + 1 \in DOMAIN out /\ out'[i] = out[i + 1]
  BY TailParts DEF Types
<1>4. /\ in' \in Seq(Replies) /\ DOMAIN in' = DOMAIN in \union {Len(in) + 1}
      /\ \A i \in DOMAIN in : in'[i] = in[i]
      /\ in'[Len(in) + 1] = r
  BY AppendParts DEF Types
<1>5. NoPort /\ r.port = 0 => NoPort'
  BY <1>4 DEF NoPort
<1>6. NoPasv => NoPasv' /\ r.port = 0
  BY <1>3 DEF NoPasv
<1>7. Types' /\ Flow'
  BY <1>1, <1>2, <1>3, <1>4 DEF Types, Flow, Commands, Paths, Idle
<1>8. PlainFirst'
  BY <1>1, <1>3 DEF PlainFirst, Idle
<1>9. Quiet'
  <2> SUFFICES ASSUME path = "plain"
               PROVE  /\ Awaited => OnePort' /\ OnePasv' /\ (NoPort' \/ NoPasv')
                      /\ ~Awaited => NoPort' /\ NoPasv'
    BY <1>1 DEF Quiet, Awaited
  <2>1. ~Awaited => NoPort' /\ NoPasv'
    BY <1>5, <1>6 DEF Quiet
  <2>2. CASE Awaited /\ r.port = 0
    <3>1. OnePort'
      BY <1>4, <2>2 DEF Quiet, OnePort
    <3>2. OnePasv'
      BY <1>3, <2>2 DEF Quiet, OnePasv
    <3> QED BY <1>5, <1>6, <2>2, <3>1, <3>2 DEF Quiet
  <2>3. CASE Awaited /\ r.port # 0
    <3>1. out[1].cmd \in Passive /\ OnePasv /\ NoPort
      BY <1>3, <2>3 DEF Quiet, NoPasv
    <3>2. NoPasv'
      BY <1>3, <3>1 DEF OnePasv, NoPasv
    <3>3. OnePasv'
      BY <3>2 DEF OnePasv, NoPasv
    <3>4. OnePort'
      BY <1>4, <3>1 DEF NoPort, OnePort
    <3> QED BY <2>3, <3>2, <3>3, <3>4
  <2> QED BY <2>1, <2>2, <2>3
<1>10. Behind'
  <2>1. ASSUME OfPlain(busy') PROVE NoPort'
    <3>1. OfPlain(out[1])
      BY <1>3, <2>1 DEF OfPlain, Idle
    <3>2. NoPort /\ r.port = 0
      BY <1>3, <3>1 DEF Behind, OfPlain, Passive
    <3> QED BY <1>5, <3>2
  <2>2. ASSUME NEW i \in DOMAIN out', OfPlain(out'[i])
        PROVE  NoPort' /\ \A j \in DOMAIN out' : j <= i => out'[j].cmd \notin Passive
    <3>1. OfPlain(out[i + 1]) /\ i + 1 \in DOMAIN out /\ i \in Nat
      BY <1>3, <2>2
    <3>2. NoPort /\ \A j \in DOMAIN out : j <= i + 1 => out[j].cmd \notin Passive
      BY <3>1 DEF Behind
    <3>3. r.port = 0
      BY <1>3, <3>1, <3>2
    <3> QED BY <1>3, <1>5, <3>1, <3>2, <3>3
  <2> QED BY <2>1, <2>2 DEF Behind
<1>11. Beyond' /\ Found' /\ LoadedIsTold'
  BY <1>1, <1>3 DEF Beyond, Found, LoadedIsTold, Idle, OfPlain
<1> QED BY <1>7, <1>8, <1>9, <1>10, <1>11

LEMMA ServerKeeps == IInv /\ Server => IInv'
<1> SUFFICES ASSUME IInv, Server PROVE IInv'
  OBVIOUS
<1>1. CASE Serve
  <2> DEFINE p == IF Head(out).cmd \in {"pasv", "pasv2"} THEN ports + 1 ELSE 0
             r == Reply(Head(out), TRUE, p)
  <2>1. Head(out) \in Commands /\ ports \in Nat
    BY <1>1, TailParts DEF Serve, IInv, Types
  <2>2. r \in Replies /\ r.port = p /\ p \in Nat
    BY <2>1 DEF Reply, Replies, Commands
  <2>3. in' = Append(in, r) /\ ports' \in Nat
    BY <1>1, <2>1 DEF Serve
  <2>4. \/ busy' = Idle
        \/ busy' = Head(out) /\ busy'.cmd \in {"list", "retr"} /\ (busy'.cmd = "retr" => busy'.path \in files)
    BY <1>1 DEF Serve, Possible
  <2>5. out # <<>> /\ out' = Tail(out) /\ UNCHANGED <<client, eof, world>>
    BY <1>1 DEF Serve
  <2>6. r.port # 0 => Head(out).cmd \in Passive
    BY <2>2 DEF Passive
  <2> HIDE DEF r
  <2> QED BY <2>2, <2>3, <2>4, <2>5, <2>6, TakeKeeps
<1>2. CASE Refuse
  <2>1. Head(out) \in Commands /\ ports \in Nat
    BY <1>2, TailParts DEF Refuse, IInv, Types
  <2>2. Reply(Head(out), FALSE, 0) \in Replies /\ Reply(Head(out), FALSE, 0).port = 0
    BY <2>1 DEF Reply, Replies, Commands
  <2>3. /\ in' = Append(in, Reply(Head(out), FALSE, 0)) /\ ports' \in Nat /\ busy' = busy
        /\ out # <<>> /\ out' = Tail(out) /\ UNCHANGED <<client, eof, world>> /\ busy = Idle
    BY <1>2, <2>1 DEF Refuse
  <2> QED BY <2>2, <2>3, TakeKeeps
<1>3. ASSUME busy # Idle, busy' = Idle, UNCHANGED <<client, out, eof, ports, world>>,
             NEW ok \in BOOLEAN, in' = Append(in, Reply(EndOf(busy), ok, 0))
      PROVE  IInv'
  <2>1. Reply(EndOf(busy), ok, 0) \in Replies /\ Reply(EndOf(busy), ok, 0).port = 0
    BY DEF IInv, Types, Reply, EndOf, Replies, Asking
  <2> QED BY <1>3, <2>1, EndKeeps
<1>4. CASE Listed
  <2>1. busy # Idle
    BY <1>4 DEF Listed, Idle
  <2> QED BY <1>3, <1>4, <2>1 DEF Listed
<1>5. CASE Abort
  BY <1>3, <1>5 DEF Abort, server
<1> QED BY <1>1, <1>2, <1>4, <1>5 DEF Server

LEMMA ServerClosesKeeps == IInv /\ ServerCloses => IInv'
<1> SUFFICES ASSUME IInv, ServerCloses PROVE IInv'
  OBVIOUS
<1> USE DEF IInv
<1>1. /\ UNCHANGED <<step, phase, path, sock, image, in, ports, files>> /\ sock
      /\ eof' = TRUE /\ out' = <<>> /\ busy' = Idle
  BY DEF ServerCloses, client, world
<1>2. Types' /\ Flow'
  BY <1>1, EmptySeq DEF Types, Flow, Idle, Paths
<1>3. PlainFirst' /\ Behind' /\ Beyond' /\ Found' /\ LoadedIsTold'
  BY <1>1 DEF PlainFirst, Behind, Beyond, Found, LoadedIsTold, OfPlain, Idle
<1>4. Quiet'
  BY <1>1 DEF Quiet, NoPort, NoPasv, OnePort, OnePasv, Awaited
<1> QED BY <1>2, <1>3, <1>4

-----------------------------------------------------------------------------
LEMMA ClientKeeps == IInv /\ Client => IInv'
<1> SUFFICES ASSUME IInv, Client PROVE IInv'
  OBVIOUS
<1>1. in \in Seq(Replies) /\ \A i \in DOMAIN in : \E j \in DOMAIN in : in[i] = in[j]
  BY DEF IInv, Types
<1>2. CASE SendFails
  BY <1>1, <1>2, FailsKeep DEF SendFails
<1>3. CASE ConnectFails
  <2>1. step \in Asking
    BY <1>3 DEF ConnectFails, IInv, Flow, Asking
  <2> QED BY <1>1, <1>3, <2>1, FailsKeep DEF ConnectFails
<1>4. CASE Timeout
  <2>1. step \in Asking
    BY <1>4 DEF Timeout, IInv, Flow
  <2> QED BY <1>1, <1>4, <2>1, FailsKeep DEF Timeout
<1>5. ASSUME NEW k \in DOMAIN in, GetError(k) PROVE IInv'
  <2>1. step \in Asking
    BY <1>5 DEF GetError, IInv, Flow
  <2>2. /\ Rest(k) \in Seq(Replies)
        /\ \A i \in DOMAIN Rest(k) : k + i \in DOMAIN in /\ Rest(k)[i] = in[k + i]
    BY <1>1, RestParts DEF Rest
  <2>3. \A i \in DOMAIN Rest(k) : \E j \in DOMAIN in : Rest(k)[i] = in[j]
    BY <2>2
  <2> QED BY <1>5, <2>1, <2>2, <2>3, FailsKeep DEF GetError
<1> QED BY <1>2, <1>3, <1>4, <1>5, SendKeeps, ConnectKeeps, ReadListingKeeps, LoadKeeps, UnderstandKeeps
        DEF Client

LEMMA StepKeeps == IInv /\ [Next]_vars => IInv'
<1>1. CASE UNCHANGED vars
  BY <1>1 DEF vars, client, server, world, IInv, Types, Flow, PlainFirst, Quiet, Behind, Beyond, Found,
              LoadedIsTold, NoPort, NoPasv, OnePort, OnePasv, Awaited
<1> QED BY <1>1, ClientKeeps, ServerKeeps, ServerClosesKeeps DEF Next

-----------------------------------------------------------------------------
(* Commands and replies in step, as long as the server answers in time,    *)
(* stays, and listens to the port it told.                                 *)

Calm == late = 0 /\ ~eof /\ ~firewall /\ keepsPort /\ sock

(* What is under way between the two.                                      *)
Only(s)  == Len(in) = 1 /\ in[1].to = s /\ in[1].path = path
Silent   == out = <<>> /\ in = <<>> /\ busy = Idle
Asked    == out = <<Command(step)>> /\ in = <<>> /\ busy = Idle
Answered == out = <<>> /\ busy = Idle /\ Only(step)
Refused  == Answered /\ ~in[1].ok
Serving  == out = <<>> /\ busy = Command(step) /\ Only(step) /\ in[1].ok
Served   == /\ out = <<>> /\ busy = Idle /\ Len(in) = 2 /\ in[1].ok
            /\ in[1].to = step /\ in[1].path = path /\ in[2].to = "end" /\ in[2].path = path

(* It is nothing before a command, and then the command, what the server   *)
(* does for it, or the answer.                                             *)
Turns ==
  /\ phase = "send" /\ step \in Asking => Silent
  /\ phase = "connect" \/ (phase = "wait" /\ step = "retr") => Asked \/ Refused \/ Serving
  /\ phase = "wait" /\ step = "list" => Asked \/ Refused \/ Serving \/ Served
  /\ phase = "wait" /\ step = "end" => Silent \/ Answered
  /\ phase = "wait" /\ step = "final" => Answered
  /\ phase = "wait" /\ step \notin {"list", "retr", "end", "final"} => Asked \/ Answered
  /\ step = "listing" => /\ out = <<>>
                         /\ \/ busy = [cmd |-> "list", path |-> path] /\ in = <<>>
                            \/ busy = Idle /\ (in = <<>> \/ Only("end"))
  /\ step = "load" => out = <<>> /\ in = <<>> /\ busy = [cmd |-> "retr", path |-> path]

(* The port the client uses is the one the server listens to, and nobody   *)
(* is on it but for a transfer.                                            *)
Transferring == step \in {"listing", "load"} \/ (phase = "wait" /\ step \in {"list", "retr"})

DataPort ==
  /\ step \in {"list", "listing", "retr", "load"} => port = passive /\ passive # 0
  /\ conn = IF Transferring THEN passive ELSE 0
  /\ Awaited /\ in # <<>> => in[1].port \in {0, passive}

InTurn == Calm => Turns /\ DataPort

LEMMA RestShort ==
  ASSUME NEW S, NEW s \in Seq(S), NEW k \in DOMAIN s, Len(s) \in {1, 2}
  PROVE  /\ k = Len(s) => SubSeq(s, k + 1, Len(s)) = <<>>
         /\ k # Len(s) => Len(SubSeq(s, k + 1, Len(s))) = 1 /\ SubSeq(s, k + 1, Len(s))[1] = s[2]
<1>1. k \in 1 .. Len(s) /\ \A i \in 1 .. Len(s) : s[i] \in S
  BY LenProperties, ElementOfSeq
<1>2. CASE k = Len(s)
  BY <1>1, <1>2, SubSeqEmpty
<1>3. CASE k # Len(s)
  <2>1. k = 1 /\ Len(s) = 2
    BY <1>1, <1>3
  <2>2. /\ SubSeq(s, 2, 2) \in Seq(S) /\ Len(SubSeq(s, 2, 2)) = 1 /\ SubSeq(s, 2, 2)[1] = s[2]
    BY <2>1, <1>1, SubSeqProperties
  <2> QED BY <2>1, <2>2
<1> QED BY <1>2, <1>3

LEMMA AppendShort ==
  ASSUME NEW S, NEW s \in Seq(S), NEW e \in S
  PROVE  /\ s = <<>> => Len(Append(s, e)) = 1 /\ Append(s, e)[1] = e
         /\ Len(s) = 1 => Len(Append(s, e)) = 2 /\ Append(s, e)[1] = s[1] /\ Append(s, e)[2] = e
<1>1. /\ Len(Append(s, e)) = Len(s) + 1 /\ Append(s, e)[Len(s) + 1] = e
      /\ \A i \in 1 .. Len(s) : Append(s, e)[i] = s[i]
  BY AppendProperties, LenProperties
<1>2. CASE s = <<>>
  <2>1. Len(s) = 0
    BY <1>2, EmptySeq
  <2> QED BY <1>1, <1>2, <2>1
<1>3. CASE Len(s) = 1
  <2>1. CASE s = <<>>
    BY <1>3, <2>1, EmptySeq
  <2>2. CASE s # <<>>
    BY <1>1, <1>3, <2>2
  <2> QED BY <2>1, <2>2
<1>4. CASE s # <<>> /\ Len(s) # 1
  BY <1>4
<1> QED BY <1>2, <1>3, <1>4

LEMMA InitInTurn == Init => InTurn
<1> SUFFICES ASSUME Init PROVE Turns /\ DataPort
  BY DEF InTurn
<1>1. /\ step = "greet" /\ phase = "wait" /\ in = <<>> /\ busy = Idle /\ out = <<Command(step)>>
      /\ port = 0 /\ conn = 0
  BY DEF Init
<1> QED BY <1>1 DEF Turns, DataPort, Asked, Transferring, Awaited, Passive

(* A step that fails and leaves the connection open leaves nothing on it.  *)
LEMMA FailsInTurn ==
  ASSUME Calm', NEW replies, Fails(replies), step \in Asking,
         step # "final" => (~Closing => out = <<>> /\ replies = <<>> /\ busy = Idle)
  PROVE  Turns' /\ DataPort'
<1>1. step' = Otherwise /\ phase' = "send" /\ conn' = 0
  BY DEF Fails, Goto, Otherwise
<1>2. step' \in {"failed", "pasv2", "cwd", "got"} /\ (step' # "got" => step # "final")
  BY <1>1 DEF Otherwise, Asking
<1>3. ~Closing
  BY DEF Calm, Fails
<1>4. in' = replies /\ out' = out /\ busy' = busy
  BY <1>3 DEF Fails
<1>5. Turns'
  BY <1>1, <1>2, <1>3, <1>4 DEF Turns, Silent, Asking
<1>6. DataPort'
  BY <1>1, <1>2 DEF DataPort, Transferring, Awaited
<1> QED BY <1>5, <1>6

(* While a command is under way the client waits for its answer, unless it *)
(* has ended.                                                              *)
LEMMA OutIsAsked ==
  ASSUME IInv, Turns, out # <<>>
  PROVE  \/ step \in {"got", "failed", "unloaded"} /\ phase = "send"
         \/ /\ Asked /\ phase \in {"connect", "wait"}
            /\ step \in Asking \ {"end", "final"}
            /\ phase = "connect" => step \in {"list", "retr"}
  BY DEF IInv, Types, Flow, Turns, Silent, Asked, Answered, Refused, Serving, Served, Asking

(* As long as a transfer goes on the client is there.                      *)
LEMMA BusyIsServing ==
  ASSUME IInv, Turns, busy # Idle
  PROVE  \/ step \in {"got", "failed", "unloaded"} /\ phase = "send"
         \/ Serving /\ phase \in {"connect", "wait"} /\ step \in {"list", "retr"}
         \/ step = "listing" /\ busy = [cmd |-> "list", path |-> path] /\ in = <<>> /\ out = <<>>
         \/ step = "load" /\ busy = [cmd |-> "retr", path |-> path] /\ in = <<>> /\ out = <<>>
  BY DEF IInv, Types, Flow, Turns, Silent, Asked, Answered, Refused, Serving, Served, Asking

LEMMA SendInTurn ==
  ASSUME IInv, Turns, DataPort, Calm, Calm', Send
  PROVE  Turns' /\ DataPort'
<1>1. /\ UNCHANGED <<step, path, port, conn, in, passive, busy>> /\ phase = "send" /\ step \in Asking
      /\ phase' = IF step \in {"list", "retr"} THEN "connect" ELSE "wait"
      /\ out' = Append(out, Command(step))
  BY DEF Send, Calm, server
<1>2. step \notin {"end", "final"}
  BY <1>1 DEF IInv, Flow
<1>3. Asked'
  BY <1>1 DEF Turns, Silent, Asked, Command
<1>4. Turns'
  BY <1>1, <1>2, <1>3 DEF Turns, Asking
<1>5. in = <<>> /\ conn = 0
  BY <1>1 DEF Turns, Silent, DataPort, Transferring, Asking
<1>6. DataPort'
  BY <1>1, <1>5 DEF DataPort, Transferring, Awaited, Asking
<1> QED BY <1>4, <1>6

LEMMA ConnectInTurn ==
  ASSUME IInv, Turns, DataPort, Connect
  PROVE  Turns' /\ DataPort'
<1>1. /\ UNCHANGED <<step, path, port, in, out, passive, busy>> /\ phase = "connect" /\ phase' = "wait"
      /\ conn' = port /\ port = passive
  BY DEF Connect, server
<1>2. step \in {"list", "retr"}
  BY <1>1 DEF IInv, Flow
<1>3. Asked' \/ Refused' \/ Serving'
  BY <1>1 DEF Turns, Asked, Answered, Refused, Serving, Only, Command
<1>4. Turns'
  BY <1>1, <1>2, <1>3 DEF Turns
<1>5. DataPort'
  BY <1>1, <1>2 DEF DataPort, Transferring, Awaited, Passive
<1> QED BY <1>4, <1>5

LEMMA ReadListingInTurn ==
  ASSUME IInv, Turns, DataPort, ReadListing
  PROVE  Turns' /\ DataPort'
<1>1. /\ UNCHANGED <<path, port, in, out, passive, busy>> /\ step = "listing" /\ busy.cmd # "list"
      /\ step' = "end" /\ phase' = "wait" /\ conn' = 0
  BY DEF ReadListing, Goto, server
<1>2. out = <<>> /\ busy = Idle /\ (in = <<>> \/ Only("end"))
  BY <1>1 DEF Turns
<1>3. Silent' \/ Answered'
  BY <1>1, <1>2 DEF Silent, Answered, Only
<1> QED BY <1>1, <1>3 DEF Turns, DataPort, Transferring, Awaited, Passive

LEMMA LoadInTurn ==
  ASSUME IInv, Turns, DataPort, Calm, Load
  PROVE  Turns' /\ DataPort'
<1> DEFINE r == Reply([cmd |-> "final", path |-> busy.path], TRUE, 0)
<1>1. step = "load" /\ in = <<>> /\ out = <<>> /\ busy = [cmd |-> "retr", path |-> path] /\ conn = passive
  BY DEF Load, Turns, DataPort, Transferring
<1>2. /\ UNCHANGED <<path, port, out, passive>> /\ busy' = Idle /\ conn' = 0
      /\ step' = "final" /\ phase' = "wait" /\ in' = Append(in, r)
  BY <1>1 DEF Load, Calm, Goto, server
<1>3. r \in Replies /\ r.to = "final" /\ r.path = path
  BY <1>1 DEF Reply, Replies, Asking, IInv, Types
<1>4. Len(in') = 1 /\ in'[1] = r
  <2> HIDE DEF r
  <2> QED BY <1>1, <1>2, <1>3, AppendShort DEF IInv, Types
<1>5. Answered'
  BY <1>1, <1>2, <1>3, <1>4 DEF Answered, Only
<1> QED BY <1>2, <1>5 DEF Turns, DataPort, Transferring, Awaited, Passive

(* What is read is the answer, with the end of the listing at most.        *)
LEMMA UnderstandInTurn ==
  ASSUME IInv, Turns, DataPort, NEW k \in DOMAIN in, Understand(k)
  PROVE  Turns' /\ DataPort'
<1>1. /\ UNCHANGED <<path, conn, out, passive, busy>> /\ phase = "wait" /\ in[1].ok /\ step \in Asking
      /\ step' = After[step] /\ phase' = IF step' \in {"end", "final"} THEN "wait" ELSE "send"
      /\ in' = Rest(k)
      /\ IF step \in Passive THEN port' = in[k].port /\ in[k].port # 0 ELSE port' = port
  BY DEF Understand, Goto, Good, Pasv, Passive, server, IInv, Flow
<1>2. in # <<>> /\ in \in Seq(Replies)
  BY DEF IInv, Types
<1>3. CASE step = "list"
  <2>1. step' = "listing" /\ phase' = "send" /\ conn = passive /\ port = passive /\ passive # 0 /\ port' = port
    BY <1>1, <1>3 DEF After, DataPort, Transferring, Passive
  <2>2. Serving \/ Served
    BY <1>1, <1>2, <1>3 DEF Turns, Asked, Refused
  <2>3. CASE Serving
    <3>1. in' = <<>>
      <4>1. Len(in) = 1 /\ k = 1
        BY <1>2, <2>3, LenProperties DEF Serving, Only
      <4> QED BY <1>1, <1>2, <4>1, RestShort DEF Rest
    <3> QED BY <1>1, <1>3, <2>1, <2>3, <3>1
            DEF Turns, DataPort, Serving, Command, Transferring, Awaited, Passive, Asking
  <2>4. CASE Served
    <3>1. in' = <<>> \/ (Len(in') = 1 /\ in'[1] = in[2])
      BY <1>1, <1>2, <2>4, RestShort DEF Rest, Served
    <3>2. in' = <<>> \/ Only("end")'
      BY <1>1, <2>4, <3>1 DEF Only, Served
    <3> QED BY <1>1, <1>3, <2>1, <2>4, <3>2
            DEF Turns, DataPort, Served, Transferring, Awaited, Passive, Asking
  <2> QED BY <2>2, <2>3, <2>4
<1>4. CASE step = "retr"
  <2>1. step' = "load" /\ phase' = "send" /\ conn = passive /\ port = passive /\ passive # 0 /\ port' = port
    BY <1>1, <1>4 DEF After, DataPort, Transferring, Passive
  <2>2. Serving
    BY <1>1, <1>2, <1>4 DEF Turns, Asked, Refused
  <2>3. in' = <<>>
    <3>1. Len(in) = 1 /\ k = 1
      BY <1>2, <2>2, LenProperties DEF Serving, Only
    <3> QED BY <1>1, <1>2, <3>1, RestShort DEF Rest
  <2> QED BY <1>1, <1>4, <2>1, <2>2, <2>3
          DEF Turns, DataPort, Serving, Command, Transferring, Awaited, Passive, Asking
<1>5. CASE step \notin {"list", "retr"}
  <2>1. Answered
    BY <1>1, <1>2, <1>5 DEF Turns, Asked, Silent
  <2>2. Len(in) = 1 /\ k = 1
    BY <1>2, <2>1, LenProperties DEF Answered, Only
  <2>3. in' = <<>>
    BY <1>1, <1>2, <2>2, RestShort DEF Rest
  <2>4. Silent'
    BY <1>1, <2>1, <2>3 DEF Silent, Answered
  <2>5. /\ step' \in {"user", "pass", "type", "cwd", "pasv", "list", "pasv2", "retr", "got"} /\ phase' = "send"
        /\ step' \in {"list", "retr"} => step \in Passive
    BY <1>1, <1>5 DEF After, Asking, Passive
  <2>6. Turns'
    BY <2>4, <2>5 DEF Turns
  <2>7. conn' = 0
    BY <1>1, <1>5 DEF DataPort, Transferring, Asking
  <2>8. step \in Passive => port' = passive /\ passive # 0
    BY <1>1, <1>2, <2>2 DEF DataPort, Awaited
  <2>9. DataPort'
    BY <1>1, <2>5, <2>7, <2>8 DEF DataPort, Transferring, Awaited
  <2> QED BY <2>6, <2>9
<1> QED BY <1>3, <1>4, <1>5

LEMMA GetErrorInTurn ==
  ASSUME IInv, Turns, Calm', NEW k \in DOMAIN in, GetError(k)
  PROVE  Turns' /\ DataPort'
<1>1. phase = "wait" /\ step \in Asking /\ (~in[1].ok \/ step \in Passive) /\ Fails(Rest(k)) /\ sock
  BY DEF GetError, Good, Pasv, Passive, IInv, Flow
<1>2. in # <<>> /\ in \in Seq(Replies)
  BY DEF IInv, Types
<1>3. ASSUME ~Closing, step # "final" PROVE out = <<>> /\ Rest(k) = <<>> /\ busy = Idle
  <2>1. step \in {"greet", "cwd", "pasv2", "retr"}
    BY <1>1, <1>3 DEF Closing, Asking
  <2>2. Answered
    BY <1>1, <1>2, <2>1 DEF Turns, Asked, Refused, Serving, Passive
  <2>3. Len(in) = 1 /\ k = 1
    BY <1>2, <2>2, LenProperties DEF Answered, Only
  <2> QED BY <1>2, <2>2, <2>3, RestShort DEF Rest, Answered
<1> QED BY <1>1, <1>3, FailsInTurn

(* Nothing is given up while an answer is to come.                         *)
LEMMA TimeoutInTurn ==
  ASSUME IInv, Turns, Calm', late \in Nat, Timeout
  PROVE  Turns' /\ DataPort'
<1>1. phase = "wait" /\ step \in Asking /\ Fails(in) /\ sock /\ NothingComes
  BY DEF Timeout, Calm, IInv, Flow
<1>2. in = <<>> /\ out = <<>>
  BY <1>1 DEF NothingComes
<1>3. busy = Idle \/ step = "list"
  <2>1. CASE step = "retr"
    <3>1. \A s : ~Only(s)
      BY <1>2, EmptySeq DEF Only
    <3>2. ~Asked
      BY <1>2, LenProperties DEF Asked
    <3> QED BY <1>1, <2>1, <3>1, <3>2 DEF Turns, Refused, Answered, Serving
  <2> QED BY <1>1, <2>1 DEF Turns, Silent, Asked, Answered
<1>4. step = "list" => Closing
  BY <1>1 DEF Closing
<1> QED BY <1>1, <1>2, <1>3, <1>4, FailsInTurn

-----------------------------------------------------------------------------
LEMMA AnswersInTurn ==
  ASSUME IInv, Turns, DataPort, Calm, out # <<>>, busy = Idle, NEW r \in Replies,
         r.to = Head(out).cmd, r.path = Head(out).path,
         in' = Append(in, r), out' = Tail(out), UNCHANGED client,
         \/ busy' = Idle /\ (r.ok => Head(out).cmd \notin {"list", "retr"})
         \/ busy' = Head(out) /\ r.ok /\ Head(out).cmd \in {"list", "retr"},
         IF r.port = 0 THEN passive' = passive
                       ELSE Head(out).cmd \in Passive /\ passive' = r.port
  PROVE  Turns' /\ DataPort'
<1>1. UNCHANGED <<step, phase, path, port, conn>>
  BY DEF client
<1>2. CASE step \in {"got", "failed", "unloaded"} /\ phase = "send"
  BY <1>1, <1>2 DEF Turns, DataPort, Transferring, Awaited, Asking
<1>3. CASE /\ Asked /\ phase \in {"connect", "wait"} /\ step \in Asking \ {"end", "final"}
           /\ phase = "connect" => step \in {"list", "retr"}
  <2>1. Head(out) = [cmd |-> step, path |-> path] /\ Tail(out) = <<>>
    BY <1>3 DEF Asked, Command
  <2>2. Len(in') = 1 /\ in'[1] = r /\ r.to = step /\ r.path = path
    BY <1>3, <2>1, AppendShort DEF Asked, IInv, Types
  <2>3. out' = <<>> /\ Only(step)'
    BY <1>1, <2>1, <2>2 DEF Only
  <2>4. IF step \in {"list", "retr"} THEN Refused' \/ Serving' ELSE Answered'
    BY <1>1, <2>1, <2>2, <2>3 DEF Refused, Serving, Answered, Command
  <2>5. Turns'
    BY <1>1, <1>3, <2>4 DEF Turns, Asking
  <2>6. DataPort'
    BY <1>1, <1>3, <2>1, <2>2 DEF DataPort, Transferring, Awaited, Passive
  <2> QED BY <2>5, <2>6
<1> QED BY <1>2, <1>3, OutIsAsked

LEMMA ServerInTurn ==
  ASSUME IInv, Turns, DataPort, Calm, Server
  PROVE  Turns' /\ DataPort'
<1>1. CASE Serve
  <2> DEFINE p == IF Head(out).cmd \in {"pasv", "pasv2"} THEN ports + 1 ELSE 0
             r == Reply(Head(out), TRUE, p)
  <2>1. Head(out) \in Commands /\ ports \in Nat
    BY <1>1, TailParts DEF Serve, IInv, Types
  <2>2. r \in Replies /\ r.port = p /\ p \in Nat /\ r.to = Head(out).cmd /\ r.path = Head(out).path /\ r.ok
    BY <2>1 DEF Reply, Replies, Commands
  <2>3. in' = Append(in, r) /\ passive' = IF p # 0 THEN p ELSE passive
    BY <1>1, <2>1 DEF Serve
  <2>4. IF r.port = 0 THEN passive' = passive
                      ELSE Head(out).cmd \in Passive /\ passive' = r.port
    BY <2>2, <2>3 DEF Passive
  <2>5. /\ out # <<>> /\ busy = Idle /\ out' = Tail(out) /\ UNCHANGED client
        /\ IF Head(out).cmd \in {"list", "retr"} THEN busy' = Head(out) ELSE busy' = Idle
    BY <1>1 DEF Serve
  <2> HIDE DEF r
  <2> QED BY <2>2, <2>3, <2>4, <2>5, AnswersInTurn
<1>2. CASE Refuse
  <2> DEFINE r == Reply(Head(out), FALSE, 0)
  <2>1. Head(out) \in Commands
    BY <1>2, TailParts DEF Refuse, IInv, Types
  <2>2. r \in Replies /\ r.port = 0 /\ r.to = Head(out).cmd /\ r.path = Head(out).path /\ ~r.ok
    BY <2>1 DEF Reply, Replies, Commands
  <2>3. /\ in' = Append(in, r) /\ out # <<>> /\ busy = Idle /\ busy' = Idle /\ out' = Tail(out)
        /\ UNCHANGED client /\ passive' = passive
    BY <1>2 DEF Refuse, Calm
  <2> HIDE DEF r
  <2> QED BY <2>2, <2>3, AnswersInTurn
<1>3. CASE Listed
  <2> DEFINE r == Reply([cmd |-> "end", path |-> path], TRUE, 0)
  <2>1. /\ UNCHANGED <<step, phase, path, port, conn, out>> /\ busy' = Idle /\ passive' = passive
        /\ busy # Idle /\ busy.cmd = "list" /\ conn = passive
        /\ in' = Append(in, Reply(EndOf(busy), TRUE, 0))
    BY <1>3 DEF Listed, client, Calm, Idle
  <2>2. CASE step \in {"got", "failed", "unloaded"} /\ phase = "send"
    BY <2>1, <2>2 DEF Turns, DataPort, Transferring, Awaited, Asking
  <2>3. r \in Replies /\ r.to = "end" /\ r.path = path
    BY DEF Reply, Replies, Asking, IInv, Types
  <2>4. busy.path = path => in' = Append(in, r)
    BY <2>1 DEF EndOf
  <2>5. CASE Serving /\ phase \in {"connect", "wait"} /\ step \in {"list", "retr"}
    <3>1. step = "list" /\ busy.path = path
      BY <2>1, <2>5 DEF Serving, Command
    <3>2. phase = "wait"
      BY <2>1, <2>5, <3>1 DEF DataPort, Transferring
    <3>3. Len(in') = 2 /\ in'[1] = in[1] /\ in'[2] = r
      <4> HIDE DEF r
      <4>1. in' = Append(in, r) /\ in \in Seq(Replies) /\ Len(in) = 1
        BY <2>4, <2>5, <3>1 DEF Serving, Only, IInv, Types
      <4> QED BY <2>3, <4>1, AppendShort
    <3>4. Served'
      BY <2>1, <2>3, <2>5, <3>1, <3>3 DEF Serving, Served, Only
    <3> QED BY <2>1, <3>1, <3>2, <3>4 DEF Turns, DataPort, Transferring, Awaited, Passive
  <2>6. CASE step = "listing" /\ busy = [cmd |-> "list", path |-> path] /\ in = <<>> /\ out = <<>>
    <3>1. Len(in') = 1 /\ in'[1] = r
      <4> HIDE DEF r
      <4> QED BY <2>3, <2>4, <2>6, AppendShort DEF IInv, Types
    <3>2. Only("end")'
      BY <2>1, <2>3, <3>1 DEF Only
    <3>3. phase = "send" \/ phase = "wait" \/ phase = "connect"
      BY DEF IInv, Types
    <3>4. phase = "send"
      BY <2>6, <3>3 DEF IInv, Flow, Asking
    <3> QED BY <2>1, <2>6, <3>2, <3>4 DEF Turns, DataPort, Transferring, Awaited, Asking
  <2>7. CASE step = "load" /\ busy = [cmd |-> "retr", path |-> path]
    BY <2>1, <2>7
  <2> QED BY <2>1, <2>2, <2>5, <2>6, <2>7, BusyIsServing
<1>4. CASE Abort
  <2>1. /\ UNCHANGED <<step, phase, path, port, conn, passive>> /\ busy # Idle /\ conn # passive
        /\ phase # "connect"
    BY <1>4 DEF Abort, client, server
  <2>2. step \in {"got", "failed", "unloaded"} /\ phase = "send"
    BY <2>1, BusyIsServing DEF DataPort, Transferring
  <2> QED BY <2>1, <2>2 DEF Turns, DataPort, Transferring, Awaited, Asking
<1> QED BY <1>1, <1>2, <1>3, <1>4 DEF Server

(* Without a late answer there was none before.                            *)
LEMMA CalmBefore ==
  ASSUME IInv, late \in Nat, [Next]_vars, Calm'
  PROVE  Calm
<1>1. /\ UNCHANGED <<firewall, keepsPort>>
      /\ eof' = eof \/ eof' = TRUE
      /\ sock' = sock \/ sock' = (sock /\ ~Closing)
      /\ late' = late \/ late' = late + 1
  <2>1. CASE Send \/ SendFails \/ Connect \/ ConnectFails \/ ReadListing \/ Load
    BY <2>1 DEF Send, SendFails, Connect, ConnectFails, ReadListing, Load, Fails, server, world
  <2>2. CASE Timeout
    BY <2>2 DEF Timeout, Fails, server, world
  <2>3. ASSUME NEW k \in DOMAIN in, Understand(k) \/ GetError(k)
        PROVE  /\ UNCHANGED <<firewall, keepsPort, eof, late>>
               /\ sock' = sock \/ sock' = (sock /\ ~Closing)
    BY <2>3 DEF Understand, GetError, Fails, server, world
  <2>4. CASE Serve \/ Refuse \/ Listed \/ Abort \/ ServerCloses
    BY <2>4 DEF Serve, Refuse, Listed, Abort, ServerCloses, client, server, world
  <2>5. CASE UNCHANGED vars
    BY <2>5 DEF vars, client, server, world
  <2> QED BY <2>1, <2>2, <2>3, <2>4, <2>5 DEF Next, Client, Server
<1>2. late = 0
  BY <1>1 DEF Calm
<1>3. sock \in BOOLEAN /\ eof \in BOOLEAN
  BY DEF IInv, Types
<1> QED BY <1>1, <1>2, <1>3 DEF Calm

LEMMA StepInTurn == IInv /\ late \in Nat /\ InTurn /\ [Next]_vars => InTurn'
<1> SUFFICES ASSUME IInv, late \in Nat, InTurn, [Next]_vars, Calm'
             PROVE  Turns' /\ DataPort'
  BY DEF InTurn
<1>1. Calm /\ Turns /\ DataPort
  BY CalmBefore DEF InTurn
<1>2. ASSUME SendFails \/ ConnectFails \/ ServerCloses
      PROVE  FALSE
  <2>1. sock /\ ~eof /\ ~firewall /\ ~eof'
    BY <1>1 DEF Calm
  <2>2. phase = "connect" => port = passive
    BY <1>1 DEF DataPort, IInv, Flow
  <2> QED BY <1>2, <2>1, <2>2 DEF SendFails, ConnectFails, ServerCloses
<1>3. CASE UNCHANGED vars
  BY <1>1, <1>3 DEF vars, client, server, Turns, DataPort, Silent, Asked, Answered, Refused, Serving,
                    Served, Only, Command, Transferring, Awaited
<1>4. CASE Client
  BY <1>1, <1>2, <1>4, SendInTurn, ConnectInTurn, ReadListingInTurn, LoadInTurn, UnderstandInTurn,
     GetErrorInTurn, TimeoutInTurn DEF Client
<1>5. CASE Server
  BY <1>1, <1>5, ServerInTurn
<1> QED BY <1>2, <1>3, <1>4, <1>5 DEF Next

-----------------------------------------------------------------------------
(* Ports: each is opened for a PASV of its own, of which an attempt has    *)
(* four.                                                                   *)

Number(c) == (IF c.path = "plain" THEN 0 ELSE 2) + (IF c.cmd = "pasv" THEN 1 ELSE 2)

(* The PASVs sent so far have lower numbers than this. *)
NextNumber ==
  (IF path = "plain" THEN 0 ELSE 2) +
  (CASE step \in {"greet", "user", "pass", "type", "cwd"}  -> 1
     [] step = "pasv"                   -> IF phase = "wait" THEN 2 ELSE 1
     [] step \in {"list", "listing", "end"}   -> 2
     [] step = "pasv2"                  -> IF phase = "wait" THEN 3 ELSE 2
     [] OTHER                           -> 3)

Numbered ==
  /\ ports < NextNumber
  /\ \A i \in DOMAIN out :
       out[i].cmd \in Passive => ports < Number(out[i]) /\ Number(out[i]) < NextNumber
  /\ \A i, j \in DOMAIN out :
       out[i].cmd \in Passive /\ out[j].cmd \in Passive /\ i < j => Number(out[i]) < Number(out[j])

Bounded ==
  /\ dirs \subseteq Paths /\ files \subseteq dirs /\ {firewall, keepsPort} \subseteq BOOLEAN
  /\ {port, conn, passive} \subseteq 0 .. ports
  /\ \A i \in DOMAIN in : in[i].port \in 0 .. ports
  /\ image \in Paths \union {"none"} /\ late \in 0 .. MaxLate

LEMMA InitCounted == Init => Numbered /\ Bounded
<1> SUFFICES ASSUME Init PROVE Numbered /\ Bounded
  OBVIOUS
<1>1. /\ out = <<[cmd |-> "greet", path |-> path]>> /\ path = "plain" /\ step = "greet" /\ ports = 0
      /\ in = <<>> /\ port = 0 /\ conn = 0 /\ passive = 0 /\ late = 0 /\ image = "none"
      /\ dirs \subseteq Paths /\ files \subseteq dirs /\ firewall \in BOOLEAN /\ keepsPort \in BOOLEAN
  BY DEF Init, Command
<1>2. \A i \in DOMAIN out : out[i].cmd \notin Passive
  BY <1>1 DEF Passive
<1>3. Numbered
  BY <1>1, <1>2 DEF Numbered, NextNumber
<1> QED BY <1>1, <1>3, LateAssumption DEF Bounded

(* The client only goes forward: to the next step, to the port of another  *)
(* file, to the subdirectory.                                              *)
LEMMA FailsGoOn ==
  ASSUME IInv, step \in Asking, NEW replies, Fails(replies)
  PROVE  NextNumber <= NextNumber'
<1>1. /\ step' = Otherwise /\ phase' = "send"
      /\ path' = IF step \in {"pasv2", "retr"} THEN "arch" ELSE path
  BY DEF Fails, Goto, Otherwise
<1>2. CASE step \in {"greet", "user", "pass", "type"}
  BY <1>1, <1>2 DEF NextNumber, Otherwise
<1>3. CASE step \in {"cwd", "pasv", "list", "end"}
  BY <1>1, <1>3 DEF NextNumber, Otherwise
<1>4. CASE step \in {"pasv2", "retr"}
  BY <1>1, <1>4 DEF NextNumber, Otherwise
<1>5. CASE step = "final"
  BY <1>1, <1>5 DEF NextNumber, Otherwise
<1> QED BY <1>2, <1>3, <1>4, <1>5 DEF Asking

LEMMA UnderstandGoesOn ==
  ASSUME IInv, NEW k, Understand(k)
  PROVE  NextNumber <= NextNumber'
<1>1. /\ step \in Asking /\ step' = After[step] /\ path' = path /\ phase = "wait"
      /\ phase' = IF step' \in {"end", "final"} THEN "wait" ELSE "send"
  BY DEF Understand, Goto, IInv, Flow
<1>2. CASE step \in {"greet", "user", "pass", "type", "cwd"}
  BY <1>1, <1>2 DEF NextNumber, After
<1>3. CASE step \in {"pasv", "list", "end"}
  BY <1>1, <1>3 DEF NextNumber, After
<1>4. CASE step \in {"pasv2", "retr", "final"}
  BY <1>1, <1>4 DEF NextNumber, After
<1> QED BY <1>1, <1>2, <1>3, <1>4 DEF Asking

LEMMA NumberType ==
  ASSUME NEW c \in Commands
  PROVE  Number(c) \in Nat
  BY DEF Number

LEMMA NextNumberType == NextNumber \in 1 .. 5
  BY DEF NextNumber

(* As long as no command comes and no port is opened that is all there is  *)
(* to it.                                                                  *)
LEMMA GoingOn ==
  ASSUME IInv, Numbered, NextNumber <= NextNumber', ports' = ports, out' = out \/ out' = <<>>
  PROVE  Numbered'
<1>1. \A i \in DOMAIN out : Number(out[i]) \in Nat
  BY NumberType, ElementOfSeq, LenProperties DEF IInv, Types
<1>2. NextNumber \in Nat /\ NextNumber' \in Nat /\ ports \in Nat
  BY DEF NextNumber, IInv, Types
<1>3. CASE out' = out
  BY <1>1, <1>2, <1>3 DEF Numbered
<1>4. CASE out' = <<>>
  BY <1>2, <1>4 DEF Numbered
<1> QED BY <1>3, <1>4

LEMMA SendCounted == IInv /\ Numbered /\ Send => Numbered'
<1> SUFFICES ASSUME IInv, Numbered, Send PROVE Numbered'
  OBVIOUS
<1>1. /\ UNCHANGED <<step, path, ports>> /\ phase = "send" /\ step \in Asking
      /\ phase' = IF step \in {"list", "retr"} THEN "connect" ELSE "wait"
  BY DEF Send, server
<1>2. NextNumber' = IF step \in Passive THEN NextNumber + 1 ELSE NextNumber
  BY <1>1 DEF NextNumber, Passive
<1>3. NextNumber \in Nat /\ ports \in Nat
  BY DEF NextNumber, IInv, Types
<1>4. CASE out' = out
  BY <1>1, <1>2, <1>3, <1>4, GoingOn
<1>5. CASE out' = Append(out, Command(step))
  <2>1. Command(step) \in Commands /\ Command(step).cmd = step
    BY <1>1 DEF Command, Commands, IInv, Types
  <2>2. step \in Passive => Number(Command(step)) = NextNumber
    BY <1>1 DEF Number, NextNumber, Command, Passive
  <2>3. /\ DOMAIN out' = 1 .. Len(out) + 1 /\ \A i \in DOMAIN out : out'[i] = out[i]
        /\ out'[Len(out) + 1] = Command(step) /\ DOMAIN out = 1 .. Len(out) /\ Len(out) \in Nat
    BY <1>5, <2>1, AppendParts DEF IInv, Types
  <2>4. \A i \in DOMAIN out : Number(out[i]) \in Nat
    BY NumberType, ElementOfSeq, LenProperties DEF IInv, Types
  <2>5. ports' < NextNumber'
    BY <1>1, <1>2, <1>3 DEF Numbered
  <2>6. ASSUME NEW i \in DOMAIN out', out'[i].cmd \in Passive
        PROVE  ports' < Number(out'[i]) /\ Number(out'[i]) < NextNumber'
    <3>1. CASE i \in DOMAIN out
      BY <1>1, <1>2, <1>3, <2>3, <2>4, <2>6, <3>1 DEF Numbered
    <3>2. CASE i = Len(out) + 1
      BY <1>1, <1>2, <1>3, <2>1, <2>2, <2>3, <2>6, <3>2 DEF Numbered
    <3> QED BY <2>3, <3>1, <3>2
  <2>7. ASSUME NEW i \in DOMAIN out', NEW j \in DOMAIN out', i < j,
               out'[i].cmd \in Passive, out'[j].cmd \in Passive
        PROVE  Number(out'[i]) < Number(out'[j])
    <3>1. i \in DOMAIN out
      BY <2>3, <2>7
    <3>2. CASE j \in DOMAIN out
      BY <2>3, <2>7, <3>1, <3>2 DEF Numbered
    <3>3. CASE j = Len(out) + 1
      BY <2>1, <2>2, <2>3, <2>7, <3>1, <3>3 DEF Numbered
    <3> QED BY <2>3, <3>2, <3>3
  <2> QED BY <2>5, <2>6, <2>7 DEF Numbered
<1> QED BY <1>4, <1>5 DEF Send

LEMMA TakeCounted ==
  ASSUME IInv, Numbered, out # <<>>, out' = Tail(out), UNCHANGED client,
         ports' = ports \/ (Head(out).cmd \in Passive /\ ports' = ports + 1)
  PROVE  Numbered'
<1>1. NextNumber' = NextNumber /\ NextNumber \in Nat /\ ports \in Nat
  BY DEF client, NextNumber, IInv, Types
<1>2. /\ Head(out) = out[1] /\ 1 \in DOMAIN out
      /\ \A i \in DOMAIN out' : i \in Nat /\ i + 1 \in DOMAIN out /\ out'[i] = out[i + 1]
      /\ \A i \in DOMAIN out' : i > 0
  BY TailParts, HeadTailProperties, LenProperties DEF IInv, Types
<1>3. \A i \in DOMAIN out : Number(out[i]) \in Nat
  BY NumberType, ElementOfSeq, LenProperties DEF IInv, Types
<1>4. ports' < NextNumber'
  BY <1>1, <1>2, <1>3 DEF Numbered
<1>5. ASSUME NEW i \in DOMAIN out', out'[i].cmd \in Passive
      PROVE  ports' < Number(out'[i]) /\ Number(out'[i]) < NextNumber'
  <2>1. i + 1 \in DOMAIN out /\ 1 < i + 1 /\ out'[i] = out[i + 1]
    BY <1>2
  <2>2. ports < Number(out[i + 1]) /\ Number(out[i + 1]) < NextNumber
    BY <1>5, <2>1 DEF Numbered
  <2>3. CASE ports' = ports
    BY <1>1, <2>1, <2>2, <2>3
  <2>4. CASE Head(out).cmd \in Passive /\ ports' = ports + 1
    <3>1. ports < Number(out[1]) /\ Number(out[1]) < Number(out[i + 1])
      BY <1>2, <1>5, <2>1, <2>4 DEF Numbered
    <3> QED BY <1>1, <1>2, <1>3, <2>1, <2>2, <2>4, <3>1
  <2> QED BY <2>3, <2>4
<1>6. ASSUME NEW i \in DOMAIN out', NEW j \in DOMAIN out', i < j,
             out'[i].cmd \in Passive, out'[j].cmd \in Passive
      PROVE  Number(out'[i]) < Number(out'[j])
  BY <1>2, <1>6 DEF Numbered
<1> QED BY <1>4, <1>5, <1>6 DEF Numbered

LEMMA StepNumbered == IInv /\ Numbered /\ [Next]_vars => Numbered'
<1> SUFFICES ASSUME IInv, Numbered, [Next]_vars PROVE Numbered'
  OBVIOUS
<1>1. ASSUME NEW replies, Fails(replies), step \in Asking, ports' = ports
      PROVE  Numbered'
  BY <1>1, FailsGoOn, GoingOn DEF Fails
<1>2. CASE SendFails \/ ConnectFails \/ Timeout
  <2>1. step \in Asking
    BY <1>2 DEF SendFails, ConnectFails, Timeout, IInv, Flow, Asking
  <2> QED BY <1>1, <1>2, <2>1 DEF SendFails, ConnectFails, Timeout, server
<1>3. ASSUME NEW k \in DOMAIN in, GetError(k) PROVE Numbered'
  BY <1>1, <1>3 DEF GetError, server, IInv, Flow
<1>4. ASSUME NEW k \in DOMAIN in, Understand(k) PROVE Numbered'
  BY <1>4, UnderstandGoesOn, GoingOn DEF Understand, server
<1>5. CASE Connect \/ ReadListing \/ Load
  <2>1. ports' = ports /\ out' = out /\ path' = path
    BY <1>5 DEF Connect, ReadListing, Load, server
  <2>2. NextNumber <= NextNumber'
    <3>1. CASE Connect
      <4>1. step \in {"list", "retr"} /\ step' = step
        BY <3>1 DEF Connect, IInv, Flow
      <4> QED BY <2>1, <4>1 DEF NextNumber
    <3>2. CASE ReadListing \/ Load
      <4>1. \/ step = "listing" /\ step' = "end"
            \/ step = "load" /\ step' \in {"final", "unloaded"}
        BY <3>2 DEF ReadListing, Load, Goto
      <4> QED BY <2>1, <4>1 DEF NextNumber
    <3> QED BY <1>5, <3>1, <3>2
  <2> QED BY <2>1, <2>2, GoingOn
<1>6. CASE Serve \/ Refuse
  BY <1>6, TakeCounted DEF Serve, Refuse, Passive
<1>7. CASE Listed \/ Abort \/ ServerCloses \/ UNCHANGED vars
  <2>1. ports' = ports /\ (out' = out \/ out' = <<>>) /\ UNCHANGED client
    BY <1>7 DEF Listed, Abort, ServerCloses, vars, server
  <2>2. NextNumber <= NextNumber'
    BY <2>1 DEF client, NextNumber
  <2> QED BY <2>1, <2>2, GoingOn
<1> QED BY <1>2, <1>3, <1>4, <1>5, <1>6, <1>7, SendCounted DEF Next, Client, Server

LEMMA StepBounded == IInv /\ Bounded /\ [Next]_vars => Bounded'
<1> SUFFICES ASSUME IInv, Bounded, [Next]_vars PROVE Bounded'
  OBVIOUS
<1>1. /\ in \in Seq(Replies) /\ ports \in Nat /\ {port, conn, passive} \subseteq 0 .. ports
      /\ \A i \in DOMAIN in : in[i].port \in 0 .. ports
      /\ MaxLate \in Nat /\ late \in 0 .. MaxLate
  BY LateAssumption DEF IInv, Types, Bounded
<1>2. ASSUME NEW replies, \A i \in DOMAIN replies : \E j \in DOMAIN in : replies[i] = in[j],
             Fails(replies), UNCHANGED <<port, image, server, world>>, late' \in 0 .. MaxLate
      PROVE  Bounded'
  <2>1. conn' = 0 /\ (in' = <<>> \/ in' = replies)
    BY <1>2 DEF Fails
  <2>2. \A i \in DOMAIN in' : in'[i].port \in 0 .. ports
    BY <1>1, <1>2, <2>1
  <2> QED BY <1>1, <1>2, <2>1, <2>2 DEF Bounded, server, world
<1>3. CASE SendFails \/ ConnectFails \/ Timeout
  BY <1>1, <1>2, <1>3 DEF SendFails, ConnectFails, Timeout
<1>4. ASSUME NEW k \in DOMAIN in, Understand(k) \/ GetError(k) PROVE Bounded'
  <2>1. \A i \in DOMAIN Rest(k) : k + i \in DOMAIN in /\ Rest(k)[i] = in[k + i]
    BY <1>1, RestParts DEF Rest
  <2>2. CASE GetError(k)
    BY <1>1, <1>2, <2>1, <2>2 DEF GetError
  <2>3. CASE Understand(k)
    <3>1. /\ UNCHANGED <<dirs, files, firewall, keepsPort, conn, image, ports, passive, late>>
          /\ in' = Rest(k) /\ port' \in {in[k].port, port}
      BY <2>3 DEF Understand, server, world
    <3>2. port' \in 0 .. ports /\ \A i \in DOMAIN in' : in'[i].port \in 0 .. ports
      BY <1>1, <2>1, <3>1
    <3> QED BY <1>1, <3>1, <3>2 DEF Bounded
  <2> QED BY <1>4, <2>2, <2>3
<1>5. CASE Send \/ Connect \/ ReadListing \/ ServerCloses \/ UNCHANGED vars
  BY <1>1, <1>5 DEF Bounded, Send, Connect, ReadListing, ServerCloses, vars, client, server, world
<1>6. ASSUME NEW r \in Replies, in' = Append(in, r), r.port \in 0 .. ports', ports' \in {ports, ports + 1},
             passive' \in 0 .. ports', UNCHANGED <<port, world, late>>, conn' \in {conn, 0},
             image' \in Paths \union {"none"}
      PROVE  Bounded'
  <2>1. \A i \in DOMAIN in' : in'[i].port \in 0 .. ports'
    BY <1>1, <1>6, AppendParts
  <2> QED BY <1>1, <1>6, <2>1 DEF Bounded, world
<1>7. CASE Load
  <2>1. /\ UNCHANGED <<dirs, files, firewall, keepsPort, port, ports, passive, late>> /\ conn' = 0
        /\ \/ image' = "none" /\ in' = in
           \/ image' = busy.path /\ in' = Append(in, Reply([cmd |-> "final", path |-> busy.path], TRUE, 0))
    BY <1>7 DEF Load, server, world
  <2>2. CASE image' = "none" /\ in' = in
    BY <1>1, <2>1, <2>2 DEF Bounded
  <2>3. CASE image' = busy.path /\ in' = Append(in, Reply([cmd |-> "final", path |-> busy.path], TRUE, 0))
    <3>1. /\ Reply([cmd |-> "final", path |-> busy.path], TRUE, 0) \in Replies
          /\ Reply([cmd |-> "final", path |-> busy.path], TRUE, 0).port = 0 /\ busy.path \in Paths
      BY DEF IInv, Types, Reply, Replies, Asking
    <3>2. /\ image' \in Paths \union {"none"} /\ passive' \in 0 .. ports' /\ 0 \in 0 .. ports'
          /\ UNCHANGED <<world, port, late>> /\ conn' \in {conn, 0} /\ ports' \in {ports, ports + 1}
      BY <1>1, <2>1, <2>3, <3>1 DEF world
    <3> HIDE DEF Reply
    <3> QED BY <1>6, <2>3, <3>1, <3>2
  <2> QED BY <2>1, <2>2, <2>3
<1>8. CASE Serve
  <2> DEFINE p == IF Head(out).cmd \in {"pasv", "pasv2"} THEN ports + 1 ELSE 0
             r == Reply(Head(out), TRUE, p)
  <2>1. Head(out) \in Commands
    BY <1>8, TailParts DEF Serve, IInv, Types
  <2>2. r \in Replies /\ r.port = p /\ p \in {0, ports + 1}
    BY <1>1, <2>1 DEF Reply, Replies, Commands
  <2>3. /\ in' = Append(in, r) /\ ports' = (IF p # 0 THEN p ELSE ports)
        /\ passive' = (IF p # 0 THEN p ELSE passive) /\ UNCHANGED <<client, world, late>>
    BY <1>8 DEF Serve
  <2>4. UNCHANGED <<port, conn, image>>
    BY <2>3 DEF client
  <2> HIDE DEF r, p
  <2> QED BY <1>1, <1>6, <2>2, <2>3, <2>4 DEF Bounded
<1>9. CASE Refuse
  <2>1. Head(out) \in Commands
    BY <1>9, TailParts DEF Refuse, IInv, Types
  <2>2. Reply(Head(out), FALSE, 0) \in Replies /\ Reply(Head(out), FALSE, 0).port = 0
    BY <2>1 DEF Reply, Replies, Commands
  <2>3. /\ in' = Append(in, Reply(Head(out), FALSE, 0)) /\ ports' = ports /\ passive' \in {0, passive}
        /\ UNCHANGED <<port, conn, image, world, late>>
    BY <1>9 DEF Refuse, client
  <2>4. 0 \in 0 .. ports' /\ passive' \in 0 .. ports' /\ image' \in Paths \union {"none"}
    BY <1>1, <2>3 DEF Bounded
  <2> QED BY <1>6, <2>2, <2>3, <2>4
<1>10. ASSUME NEW ok \in BOOLEAN, in' = Append(in, Reply(EndOf(busy), ok, 0)), passive' \in {0, passive},
              UNCHANGED <<client, ports, world, late>>
       PROVE  Bounded'
  <2>1. Reply(EndOf(busy), ok, 0) \in Replies /\ Reply(EndOf(busy), ok, 0).port = 0
    BY DEF IInv, Types, Reply, EndOf, Replies, Asking
  <2> QED BY <1>1, <1>6, <1>10, <2>1 DEF client, Bounded
<1>11. CASE Listed \/ Abort
  BY <1>10, <1>11 DEF Listed, Abort, server
<1> QED BY <1>3, <1>4, <1>5, <1>7, <1>8, <1>9, <1>11 DEF Next, Client, Server

-----------------------------------------------------------------------------
Inv == IInv /\ Numbered /\ Bounded /\ InTurn

LEMMA Always == Spec => []Inv
<1>1. Init => Inv
  BY InitInv, InitCounted, InitInTurn DEF Inv
<1>2. Inv /\ [Next]_vars => Inv'
  <2>1. Bounded => late \in Nat
    BY DEF Bounded
  <2> QED BY <2>1, StepKeeps, StepNumbered, StepBounded, StepInTurn DEF Inv
<1> QED BY <1>1, <1>2, PTL DEF Spec

(* Every variable has its type, for any MaxLate; an attempt never opens    *)
(* more than four data ports, whatever is refused or comes late.           *)
THEOREM TypeCorrect == Spec => []TypeOK
<1>1. Inv => TypeOK
  <2> SUFFICES ASSUME Inv PROVE TypeOK
    OBVIOUS
  <2>1. ports \in 0 .. 4
    BY NextNumberType DEF Inv, Numbered, IInv, Types
  <2>2. \A i \in DOMAIN out : out[i] \in Commands
    BY ElementOfSeq, LenProperties DEF Inv, IInv, Types
  <2>3. \A i \in DOMAIN in : in[i] \in Replies
    BY ElementOfSeq, LenProperties DEF Inv, IInv, Types
  <2> QED BY <2>1, <2>2, <2>3 DEF Inv, IInv, Types, Bounded, TypeOK, Commands, Replies, Ends
<1> QED BY <1>1, Always, PTL

(* As long as the server answers in time, stays, and listens to the port   *)
(* it told, the reply that comes is the answer to the command that the     *)
(* client waits for: no step that fails leaves one behind.                 *)
THEOREM InStepHolds == Spec => []InStep
<1>1. Inv => InStep
  <2> SUFFICES ASSUME Inv, Calm, phase = "wait", in # <<>>
               PROVE  in[1].to = step /\ in[1].path = path
    BY DEF InStep, Calm
  <2>1. Turns /\ step \in Asking
    BY DEF Inv, InTurn, IInv, Flow
  <2> QED BY <2>1 DEF Turns, Silent, Asked, Answered, Refused, Serving, Served, Only
<1> QED BY <1>1, Always, PTL

(* What was loaded is the image of the path that ftp_prepare goes on to    *)
(* tell stage2, whatever was refused, lost or late before it, and however  *)
(* often.                                                                  *)
THEOREM LoadedIsToldHolds == Spec => []LoadedIsTold
<1>1. Inv => LoadedIsTold
  BY DEF Inv, IInv
<1> QED BY <1>1, Always, PTL

-----------------------------------------------------------------------------
(* The attempt as ftp_prepare sees it. *)

(* Nothing has happened as long as the same place is tried.                *)
LEMMA SameToFetch ==
  ASSUME At' = At, UNCHANGED <<path, image, files>>
  PROVE  UNCHANGED Fetching!vars
BY DEF Fetching!vars, Fetching!answers, Place

(* The next place, or none. *)
LEMMA GivesUp ==
  ASSUME files' = files, At \in {"get", "get arch"},
         \/ At' = "medium"
         \/ At = "get" /\ At' = "get arch"
  PROVE  Fetching!Download
<1>1. CASE At' = "medium"
  BY <1>1 DEF Fetching!Download, Fetching!GetFails, Fetching!answers
<1>2. CASE At = "get" /\ At' = "get arch"
  BY <1>2 DEF Fetching!Download, Fetching!Get, Fetching!answers
<1> QED BY <1>1, <1>2

LEMMA Consented ==
  ASSUME files' = files, path' = path, path \in Paths,
         At = IF path = "plain" THEN "get" ELSE "get arch", At' = "load"
  PROVE  Fetching!Download
<1>1. CASE path = "plain"
  <2>1. Place(path') = Fetching!Plain
    BY <1>1 DEF Place, Fetching!Plain, Fetching!Url
  <2> QED BY <1>1, <2>1 DEF Fetching!Download, Fetching!Get, Fetching!Consents, Fetching!answers
<1>2. CASE path = "arch"
  <2>1. Place(path') = Fetching!Arch
    BY <1>2 DEF Place, Fetching!Arch, Fetching!Url
  <2> QED BY <1>2, <2>1 DEF Fetching!Download, Fetching!GetArch, Fetching!TriesArch,
                            Fetching!Consents, Fetching!answers
<1> QED BY <1>1, <1>2 DEF Paths

(* The image is loaded from the place stage2 is told, or is not loaded.    *)
LEMMA Loaded ==
  ASSUME files' = files, path' = path, At = "load",
         \/ At' = "method"
         \/ At' = "done" /\ image' = path /\ path \in files
  PROVE  Fetching!Download
<1>1. CASE At' = "method"
  BY <1>1 DEF Fetching!Download, Fetching!LoadFails, Fetching!Nowhere, Nowhere, Fetching!answers
<1>2. CASE At' = "done" /\ image' = path /\ path \in files
  <2>1. Place(path') = Fetching!Tell
    BY <1>2 DEF Place, Fetching!Tell
  <2>2. Fetching!There(Place(path))
    BY <1>2 DEF Fetching!There, Place
  <2> QED BY <1>2, <2>1, <2>2 DEF Fetching!Download, Fetching!Load, Fetching!answers
<1> QED BY <1>1, <1>2

LEMMA FailsToFetch ==
  ASSUME IInv, step \in Asking, NEW replies, Fails(replies), UNCHANGED <<image, files>>
  PROVE  Fetching!Download \/ UNCHANGED Fetching!vars
<1>1. step' = Otherwise /\ path' = IF step \in {"pasv2", "retr"} THEN "arch" ELSE path
  BY DEF Fails, Goto
<1>2. CASE step \in {"greet", "user", "pass", "type"}
  <2>1. At \in {"get", "get arch"} /\ At' = "medium"
    BY <1>1, <1>2 DEF At, Otherwise
  <2> QED BY <2>1, GivesUp
<1>3. CASE step \in {"cwd", "pasv", "list", "end"}
  <2>1. At' = At /\ path' = path
    BY <1>1, <1>3 DEF At, Otherwise
  <2> QED BY <2>1, SameToFetch
<1>4. CASE step \in {"pasv2", "retr"}
  <2>1. /\ At = IF path = "plain" THEN "get" ELSE "get arch"
        /\ At' = IF path = "plain" THEN "get arch" ELSE "medium"
    BY <1>1, <1>4 DEF At, Otherwise
  <2>2. /\ At \in {"get", "get arch"}
        /\ At' = "medium" \/ (At = "get" /\ At' = "get arch")
    BY <2>1
  <2> QED BY <2>2, GivesUp
<1>5. CASE step = "final"
  <2>1. At' = At /\ path' = path
    BY <1>1, <1>5 DEF At, Otherwise
  <2> QED BY <2>1, SameToFetch
<1> QED BY <1>2, <1>3, <1>4, <1>5 DEF Asking

LEMMA UnderstandToFetch ==
  ASSUME IInv, NEW k, Understand(k)
  PROVE  Fetching!Download \/ UNCHANGED Fetching!vars
<1>1. /\ step \in Asking /\ step' = After[step] /\ UNCHANGED <<path, image, files>>
      /\ path \in Paths
  BY DEF Understand, Goto, world, IInv, Flow, Types
<1>2. CASE step = "retr"
  <2>1. At = (IF path = "plain" THEN "get" ELSE "get arch") /\ At' = "load"
    BY <1>1, <1>2 DEF At, After
  <2> QED BY <1>1, <2>1, Consented
<1>3. CASE step # "retr"
  <2>0. \A s \in {"greet", "user", "pass", "type", "cwd", "pasv", "list", "end", "pasv2"} :
          After[s] \in {"user", "pass", "type", "cwd", "pasv", "list", "listing", "pasv2", "retr"}
    BY DEF After
  <2>1. step \in {"greet", "user", "pass", "type", "cwd", "pasv", "list", "end", "pasv2"} =>
          step' \in {"user", "pass", "type", "cwd", "pasv", "list", "listing", "pasv2", "retr"}
    BY <1>1, <2>0
  <2>2. step \in {"greet", "user", "pass", "type", "cwd", "pasv", "list", "end", "pasv2"} => At' = At
    BY <1>1, <2>1 DEF At
  <2>3. step = "final" => At' = At
    BY <1>1 DEF At, After
  <2>4. At' = At
    BY <1>1, <1>3, <2>2, <2>3 DEF Asking
  <2> QED BY <1>1, <2>4, SameToFetch
<1> QED BY <1>2, <1>3

LEMMA StepToFetch ==
  ASSUME IInv, IInv', [Next]_vars
  PROVE  Fetching!Download \/ UNCHANGED Fetching!vars
<1>1. ASSUME UNCHANGED <<step, path, image, files>> PROVE UNCHANGED Fetching!vars
  <2>1. At' = At
    BY <1>1 DEF At
  <2> QED BY <1>1, <2>1, SameToFetch
<1>2. CASE SendFails \/ ConnectFails \/ Timeout
  <2>1. Fails(in) /\ UNCHANGED <<image, files>>
    BY <1>2 DEF SendFails, ConnectFails, Timeout, world
  <2>2. step \in Asking
    BY <1>2 DEF SendFails, ConnectFails, Timeout, IInv, Flow, Asking
  <2> QED BY <2>1, <2>2, FailsToFetch
<1>3. ASSUME NEW k \in DOMAIN in, GetError(k)
      PROVE  Fetching!Download \/ UNCHANGED Fetching!vars
  <2>1. Fails(Rest(k)) /\ UNCHANGED <<image, files>> /\ step \in Asking
    BY <1>3 DEF GetError, world, IInv, Flow
  <2> QED BY <2>1, FailsToFetch
<1>4. ASSUME NEW k \in DOMAIN in, Understand(k)
      PROVE  Fetching!Download \/ UNCHANGED Fetching!vars
  BY <1>4, UnderstandToFetch
<1>5. CASE ReadListing
  <2>1. UNCHANGED <<path, image, files>> /\ step = "listing" /\ step' = "end"
    BY <1>5 DEF ReadListing, Goto, world
  <2>2. At' = At
    BY <2>1 DEF At
  <2> QED BY <2>1, <2>2, SameToFetch
<1>6. CASE Load
  <2>1. UNCHANGED <<path, files>> /\ step = "load" /\ step' \in {"final", "unloaded"}
    BY <1>6 DEF Load, Goto, world
  <2>2. step' = "final" => image' = path /\ path \in files
    BY <2>1 DEF IInv, LoadedIsTold
  <2>3. At = "load" /\ At' = IF step' = "final" THEN "done" ELSE "method"
    BY <2>1 DEF At
  <2>4. At' = "method" \/ (At' = "done" /\ image' = path /\ path \in files)
    BY <2>2, <2>3
  <2> QED BY <2>1, <2>3, <2>4, Loaded
<1>7. CASE Send \/ Connect
  BY <1>1, <1>7 DEF Send, Connect, world
<1>8. CASE Server \/ ServerCloses \/ UNCHANGED vars
  <2>1. UNCHANGED <<step, path, image, files>>
    BY <1>8 DEF Server, Serve, Refuse, Listed, Abort, ServerCloses, vars, client, world
  <2> QED BY <1>1, <2>1
<1> QED BY <1>2, <1>3, <1>4, <1>5, <1>6, <1>7, <1>8 DEF Next, Client

(* An attempt of the FTP client, with all that may be refused, lost or     *)
(* late, is to its caller the download of module Fetch: so what Fetch      *)
(* promises of an image that is loaded holds with this client.             *)
THEOREM ImplementsFetchHolds == Spec => ImplementsFetch
<1>1. Init => At = "get"
  BY DEF Init, At
<1>2. Inv /\ Inv' /\ [Next]_vars => [Fetching!Download]_(Fetching!vars)
  BY StepToFetch DEF Inv
<1> QED BY <1>1, <1>2, Always, PTL DEF Spec, ImplementsFetch

-----------------------------------------------------------------------------
(* An attempt is short.  Each step of the client is nearer to the end of   *)
(* it: a step that fails leads to a later one or to the subdirectory,      *)
(* which is tried last; and the server does no more than it was asked to.  *)

Turn == [greet |-> 13, user |-> 12, pass |-> 11, type |-> 10, cwd |-> 9, pasv |-> 8, list |-> 7,
         listing |-> 6, end |-> 5, pasv2 |-> 4, retr |-> 3, load |-> 2, final |-> 1,
         got |-> 0, failed |-> 0, unloaded |-> 0]

PhasesLeft == CASE phase = "send" -> 2 [] phase = "connect" -> 1 [] phase = "wait" -> 0
PathsLeft  == IF path = "plain" THEN 42 ELSE 0
ClientLeft == PathsLeft + 3 * Turn[step] + PhasesLeft

BusyLeft   == IF busy = Idle THEN 0 ELSE 1
OpenLeft   == IF eof THEN 0 ELSE 1
ServerLeft == 2 * Len(out) + BusyLeft + OpenLeft

(* A command gives the server two things to do.                            *)
LeftToDo == 3 * ClientLeft + ServerLeft

(* What is left is a number, before a step and after it.                   *)
LEMMA ClientLeftType ==
  ASSUME IInv, IInv'
  PROVE  /\ ClientLeft \in Nat /\ Turn[step] \in 0 .. 13 /\ PhasesLeft \in 0 .. 2 /\ PathsLeft \in {0, 42}
         /\ ClientLeft' \in Nat /\ Turn[step'] \in 0 .. 13 /\ PhasesLeft' \in 0 .. 2 /\ PathsLeft' \in {0, 42}
<1>1. \A s \in Asking \union {"listing", "load", "got", "failed", "unloaded"} : Turn[s] \in 0 .. 13
  BY DEF Turn, Asking
<1>2. Turn[step] \in 0 .. 13 /\ Turn[step'] \in 0 .. 13
  BY <1>1 DEF IInv, Types
<1>3. PhasesLeft \in 0 .. 2 /\ PhasesLeft' \in 0 .. 2
  BY DEF PhasesLeft, IInv, Types
<1>4. PathsLeft \in {0, 42} /\ PathsLeft' \in {0, 42}
  BY DEF PathsLeft
<1> QED BY <1>2, <1>3, <1>4 DEF ClientLeft

LEMMA ServerLeftType ==
  ASSUME IInv, IInv'
  PROVE  /\ ServerLeft \in Nat /\ Len(out) \in Nat /\ BusyLeft \in {0, 1} /\ OpenLeft \in {0, 1}
         /\ ServerLeft' \in Nat /\ Len(out') \in Nat /\ BusyLeft' \in {0, 1} /\ OpenLeft' \in {0, 1}
<1>1. Len(out) \in Nat /\ Len(out') \in Nat
  BY LenProperties DEF IInv, Types
<1>2. BusyLeft \in {0, 1} /\ OpenLeft \in {0, 1} /\ BusyLeft' \in {0, 1} /\ OpenLeft' \in {0, 1}
  BY DEF BusyLeft, OpenLeft
<1> QED BY <1>1, <1>2 DEF ServerLeft

(* A later step, whatever its phase; a later phase of the same step; the   *)
(* subdirectory, whatever its step.                                        *)
LEMMA ClientGoesOn ==
  ASSUME IInv, IInv',
         \/ path' = path /\ Turn[step'] < Turn[step]
         \/ path' = path /\ step' = step /\ PhasesLeft' < PhasesLeft
         \/ path = "plain" /\ path' = "arch"
  PROVE  ClientLeft' < ClientLeft
<1>1. CASE path' = path /\ Turn[step'] < Turn[step]
  <2>1. PathsLeft' = PathsLeft
    BY <1>1 DEF PathsLeft
  <2> QED BY <1>1, <2>1, ClientLeftType DEF ClientLeft
<1>2. CASE path' = path /\ step' = step /\ PhasesLeft' < PhasesLeft
  <2>1. PathsLeft' = PathsLeft
    BY <1>2 DEF PathsLeft
  <2> QED BY <1>2, <2>1, ClientLeftType DEF ClientLeft
<1>3. CASE path = "plain" /\ path' = "arch"
  <2>1. PathsLeft = 42 /\ PathsLeft' = 0
    BY <1>3 DEF PathsLeft
  <2> QED BY <2>1, ClientLeftType DEF ClientLeft
<1> QED BY <1>1, <1>2, <1>3

(* A step that fails is followed by a later one, or by the subdirectory.   *)
LEMMA FailsNearer ==
  ASSUME IInv, IInv', step \in Asking, NEW replies, Fails(replies)
  PROVE  ClientLeft' < ClientLeft
<1>1. step' = Otherwise /\ path' = IF step \in {"pasv2", "retr"} THEN "arch" ELSE path
  BY DEF Fails, Goto
<1>2. path \in Paths
  BY DEF IInv, Types
<1>3. CASE step \in {"greet", "user", "pass", "type"}
  BY <1>1, <1>3, ClientGoesOn DEF Otherwise, Turn
<1>4. CASE step \in {"cwd", "pasv", "list", "end"}
  BY <1>1, <1>4, ClientGoesOn DEF Otherwise, Turn
<1>5. CASE step \in {"pasv2", "retr"}
  BY <1>1, <1>2, <1>5, ClientGoesOn DEF Otherwise, Turn, Paths
<1>6. CASE step = "final"
  BY <1>1, <1>6, ClientGoesOn DEF Otherwise, Turn
<1> QED BY <1>3, <1>4, <1>5, <1>6 DEF Asking

LEMMA UnderstandNearer ==
  ASSUME IInv, IInv', NEW k, Understand(k)
  PROVE  ClientLeft' < ClientLeft
<1>1. step \in Asking /\ step' = After[step] /\ path' = path
  BY DEF Understand, Goto, IInv, Flow
<1>2. Turn[After[step]] < Turn[step]
  BY <1>1 DEF Asking, Turn, After
<1> QED BY <1>1, <1>2, ClientGoesOn

(* Only a command that is sent gives the server anything to do.            *)
LEMMA ServerHasNoMore ==
  ASSUME IInv, IInv', out' = out \/ out' = <<>>, busy' = busy \/ busy' = Idle, eof' = eof
  PROVE  ServerLeft' <= ServerLeft
<1>1. Len(out') <= Len(out)
  BY ServerLeftType
<1>2. BusyLeft' <= BusyLeft /\ OpenLeft' = OpenLeft
  BY DEF BusyLeft, OpenLeft
<1> QED BY <1>1, <1>2, ServerLeftType DEF ServerLeft

(* Every step of the client but the sending of a command.                  *)
LEMMA ClientNearer ==
  ASSUME IInv, IInv', Client, ~Send
  PROVE  LeftToDo' < LeftToDo
<1>1. ASSUME ClientLeft' < ClientLeft, out' = out \/ out' = <<>>, busy' = busy \/ busy' = Idle, eof' = eof
      PROVE  LeftToDo' < LeftToDo
  BY <1>1, ServerHasNoMore, ServerLeftType, ClientLeftType DEF LeftToDo
<1>2. ASSUME step \in Asking, NEW replies, Fails(replies), UNCHANGED server
      PROVE  LeftToDo' < LeftToDo
  <2>1. (out' = out \/ out' = <<>>) /\ (busy' = busy \/ busy' = Idle) /\ eof' = eof
    BY <1>2 DEF Fails, server
  <2> QED BY <1>1, <1>2, <2>1, FailsNearer
<1>3. CASE SendFails \/ ConnectFails \/ Timeout
  <2>1. step \in Asking
    BY <1>3 DEF SendFails, ConnectFails, Timeout, IInv, Flow, Asking
  <2> QED BY <1>2, <1>3, <2>1 DEF SendFails, ConnectFails, Timeout
<1>4. ASSUME NEW k \in DOMAIN in, GetError(k) PROVE LeftToDo' < LeftToDo
  <2>1. step \in Asking
    BY <1>4 DEF GetError, IInv, Flow
  <2> QED BY <1>2, <1>4, <2>1 DEF GetError
<1>5. ASSUME NEW k \in DOMAIN in, Understand(k) PROVE LeftToDo' < LeftToDo
  <2>1. out' = out /\ busy' = busy /\ eof' = eof
    BY <1>5 DEF Understand, server
  <2> QED BY <1>1, <1>5, <2>1, UnderstandNearer
<1>6. CASE Connect
  <2>1. path' = path /\ step' = step /\ PhasesLeft' < PhasesLeft
    BY <1>6 DEF Connect, PhasesLeft
  <2>2. out' = out /\ busy' = busy /\ eof' = eof
    BY <1>6 DEF Connect, server
  <2> QED BY <1>1, <2>1, <2>2, ClientGoesOn
<1>7. CASE ReadListing
  <2>1. path' = path /\ Turn[step'] < Turn[step]
    BY <1>7 DEF ReadListing, Goto, Turn
  <2>2. out' = out /\ busy' = busy /\ eof' = eof
    BY <1>7 DEF ReadListing, server
  <2> QED BY <1>1, <2>1, <2>2, ClientGoesOn
<1>8. CASE Load
  <2>1. path' = path /\ step = "load" /\ step' \in {"final", "unloaded"}
    BY <1>8 DEF Load, Goto
  <2>2. Turn[step'] < Turn[step]
    BY <2>1 DEF Turn
  <2>3. out' = out /\ busy' = Idle /\ eof' = eof
    BY <1>8 DEF Load, server
  <2> QED BY <1>1, <2>1, <2>2, <2>3, ClientGoesOn
<1> QED BY <1>3, <1>4, <1>5, <1>6, <1>7, <1>8 DEF Client

LEMMA SendNearer ==
  ASSUME IInv, IInv', Send
  PROVE  LeftToDo' < LeftToDo
<1>1. path' = path /\ step' = step /\ PhasesLeft' < PhasesLeft
  BY DEF Send, PhasesLeft
<1>2. ClientLeft' < ClientLeft
  BY <1>1, ClientGoesOn
<1>3. Len(out') <= Len(out) + 1
  <2>1. CASE out' = out
    BY <2>1, ServerLeftType
  <2>2. CASE out' = Append(out, Command(step))
    <3>1. Command(step) \in Commands
      BY DEF Send, Command, Commands, IInv, Types
    <3> QED BY <2>2, <3>1, AppendProperties, ServerLeftType DEF IInv, Types
  <2> QED BY <2>1, <2>2 DEF Send
<1>4. BusyLeft' = BusyLeft /\ OpenLeft' = OpenLeft
  BY DEF Send, server, BusyLeft, OpenLeft
<1>5. ServerLeft' <= ServerLeft + 2
  BY <1>3, <1>4, ServerLeftType DEF ServerLeft
<1> QED BY <1>2, <1>5, ServerLeftType, ClientLeftType DEF LeftToDo

(* A command taken, a transfer ended, the connection closed.               *)
LEMMA ServerNearer ==
  ASSUME IInv, IInv', Server \/ ServerCloses
  PROVE  LeftToDo' < LeftToDo
<1>1. ClientLeft' = ClientLeft
  BY DEF Server, Serve, Refuse, Listed, Abort, ServerCloses, client, ClientLeft, PathsLeft, PhasesLeft
<1>2. SUFFICES ServerLeft' < ServerLeft
  BY <1>1, ServerLeftType, ClientLeftType DEF LeftToDo
<1>3. CASE Serve \/ Refuse
  <2>1. out # <<>> /\ out' = Tail(out) /\ busy = Idle /\ eof' = eof
    BY <1>3 DEF Serve, Refuse, server
  <2>2. Len(out') = Len(out) - 1
    BY <2>1, HeadTailProperties DEF IInv, Types
  <2>3. BusyLeft = 0 /\ OpenLeft' = OpenLeft
    BY <2>1 DEF BusyLeft, OpenLeft
  <2> QED BY <2>2, <2>3, ServerLeftType DEF ServerLeft
<1>4. CASE Listed \/ Abort
  <2>1. out' = out /\ busy' = Idle /\ eof' = eof
    BY <1>4 DEF Listed, Abort, server
  <2>3. busy # Idle
    <3>1. CASE Listed
      BY <3>1 DEF Listed, Idle
    <3>2. CASE Abort
      BY <3>2 DEF Abort
    <3> QED BY <1>4, <3>1, <3>2
  <2>2. BusyLeft = 1 /\ BusyLeft' = 0 /\ OpenLeft' = OpenLeft
    BY <2>1, <2>3 DEF BusyLeft, OpenLeft
  <2> QED BY <2>1, <2>2, ServerLeftType DEF ServerLeft
<1>5. CASE ServerCloses
  <2>1. out' = <<>> /\ busy' = Idle /\ ~eof /\ eof'
    BY <1>5 DEF ServerCloses
  <2>2. OpenLeft = 1 /\ OpenLeft' = 0 /\ BusyLeft' = 0 /\ Len(out') = 0
    BY <2>1 DEF BusyLeft, OpenLeft
  <2> QED BY <2>2, ServerLeftType DEF ServerLeft
<1> QED BY <1>3, <1>4, <1>5 DEF Server

(* No attempt goes on for ever, whatever is refused, lost or late, and     *)
(* whenever the server closes: what is left to do begins with 246 and gets *)
(* less with every step of the client, the server or the connection.       *)
THEOREM AttemptIsBounded ==
  Spec => LeftToDo = 246 /\ [][LeftToDo' \in Nat /\ LeftToDo' < LeftToDo]_vars
<1>1. Init => LeftToDo = 246
  <2> SUFFICES ASSUME Init PROVE LeftToDo = 246
    OBVIOUS
  <2>1. out = <<Command("greet")>> /\ busy = Idle /\ eof = FALSE /\ step = "greet" /\ phase = "wait" /\ path = "plain"
    BY DEF Init
  <2>2. ClientLeft = 81
    BY <2>1 DEF ClientLeft, PathsLeft, PhasesLeft, Turn
  <2>3. ServerLeft = 3
    <3>1. Len(out) = 1
      BY <2>1
    <3>2. BusyLeft = 0 /\ OpenLeft = 1
      BY <2>1 DEF BusyLeft, OpenLeft
    <3> QED BY <3>1, <3>2 DEF ServerLeft
  <2> QED BY <2>2, <2>3 DEF LeftToDo
<1>2. IInv /\ IInv' /\ [Next]_vars => [LeftToDo' \in Nat /\ LeftToDo' < LeftToDo]_vars
  <2> SUFFICES ASSUME IInv, IInv', Next PROVE LeftToDo' \in Nat /\ LeftToDo' < LeftToDo
    OBVIOUS
  <2>1. LeftToDo' \in Nat
    BY ServerLeftType, ClientLeftType DEF LeftToDo
  <2>2. LeftToDo' < LeftToDo
    BY ClientNearer, SendNearer, ServerNearer DEF Next
  <2> QED BY <2>1, <2>2
<1>3. Spec => []IInv
  <2>1. Inv => IInv
    BY DEF Inv
  <2> QED BY <2>1, Always, PTL
<1> QED BY <1>1, <1>2, <1>3, PTL DEF Spec

-----------------------------------------------------------------------------
(* Nobody waits for what cannot come.  The file of a path is asked for     *)
(* once, as the last thing, so no transfer stands before the listing or    *)
(* the file that the client waits for.                                     *)

OfPath(c) == c.cmd = "retr" /\ c.path = path
FileAsked == step \in {"load", "final"} \union Ends \/ (step = "retr" /\ phase # "send")

FileLast ==
  /\ ~FileAsked => ~OfPath(busy) /\ \A i \in DOMAIN out : ~OfPath(out[i])
  /\ OfPath(busy) => out = <<>>
  /\ \A i \in DOMAIN out : OfPath(out[i]) => i = Len(out)

(* Transfers need a port, and the data connection is that of a step.       *)
Transfers ==
  /\ busy.cmd = "none" => busy = Idle
  /\ busy # Idle => passive # 0
  /\ conn # 0 => step \in {"list", "listing", "retr", "load"}

LEMMA InitFileLast == Init => FileLast /\ Transfers
<1> SUFFICES ASSUME Init PROVE FileLast /\ Transfers
  OBVIOUS
<1>1. out = <<[cmd |-> "greet", path |-> path]>> /\ busy = Idle
  BY DEF Init, Command
<1>2. \A i \in DOMAIN out : ~OfPath(out[i])
  BY <1>1 DEF OfPath
<1>3. ~OfPath(busy)
  BY <1>1 DEF OfPath, Idle
<1>4. Transfers
  BY <1>1 DEF Init, Transfers
<1> QED BY <1>1, <1>2, <1>3, <1>4 DEF FileLast

(* Nothing more is asked for.                                              *)
LEMMA NoMoreFileLast ==
  ASSUME FileLast, path' = path, out' = out \/ out' = <<>>, busy' = busy \/ busy' = Idle,
         FileAsked => FileAsked'
  PROVE  FileLast'
<1>1. ~OfPath(Idle)
  BY DEF OfPath, Idle
<1>2. ASSUME NEW c PROVE OfPath(c)' = OfPath(c)
  BY DEF OfPath
<1>3. CASE out' = out
  BY <1>1, <1>3 DEF FileLast, OfPath
<1>4. CASE out' = <<>>
  BY <1>1, <1>4 DEF FileLast, OfPath
<1> QED BY <1>3, <1>4

LEMMA FailsFileLast ==
  ASSUME IInv, FileLast, step \in Asking, NEW replies, Fails(replies)
  PROVE  FileLast'
<1>1. /\ step' = Otherwise /\ path' = IF step \in {"pasv2", "retr"} THEN "arch" ELSE path
      /\ out' = out \/ out' = <<>>
      /\ busy' = busy \/ busy' = Idle
  BY DEF Fails, Goto
<1>2. path \in Paths
  BY DEF IInv, Types
<1>3. CASE path' = path
  <2>1. FileAsked => FileAsked'
    BY <1>1, <1>3 DEF FileAsked, Otherwise, Ends, Asking
  <2> QED BY <1>1, <1>3, <2>1, NoMoreFileLast
<1>4. CASE path = "plain" /\ path' = "arch"
  <2>1. busy'.path = "plain" /\ \A i \in DOMAIN out' : out'[i].path = "plain"
    BY <1>1, <1>4 DEF IInv, PlainFirst, Idle
  <2>2. ~OfPath(busy)' /\ \A i \in DOMAIN out' : ~OfPath(out[i])'
    BY <1>4, <2>1 DEF OfPath
  <2> QED BY <2>2 DEF FileLast
<1> QED BY <1>1, <1>2, <1>3, <1>4 DEF Paths

LEMMA SendFileLast == IInv /\ FileLast /\ Send => FileLast'
<1> SUFFICES ASSUME IInv, FileLast, Send PROVE FileLast'
  OBVIOUS
<1>1. /\ UNCHANGED <<step, path, busy>> /\ phase = "send" /\ step \in Asking
      /\ phase' = IF step \in {"list", "retr"} THEN "connect" ELSE "wait"
  BY DEF Send
<1>2. FileAsked => FileAsked'
  BY <1>1 DEF FileAsked
<1>3. CASE out' = out
  BY <1>1, <1>2, <1>3, NoMoreFileLast
<1>4. CASE out' = Append(out, Command(step))
  <2>1. Command(step) \in Commands /\ Command(step).cmd = step /\ Command(step).path = path
    BY <1>1 DEF Command, Commands, IInv, Types
  <2>2. /\ DOMAIN out' = 1 .. Len(out) + 1 /\ \A i \in DOMAIN out : out'[i] = out[i]
        /\ out'[Len(out) + 1] = Command(step) /\ DOMAIN out = 1 .. Len(out) /\ Len(out) \in Nat
    BY <1>4, <2>1, AppendParts DEF IInv, Types
  <2>3. \A i \in DOMAIN out' : i \in DOMAIN out \/ i = Len(out) + 1
    BY <2>2
  <2>4. CASE step = "retr"
    <3>1. ~FileAsked /\ FileAsked'
      BY <1>1, <2>4 DEF FileAsked, Ends
    <3>2. ~OfPath(busy) /\ \A i \in DOMAIN out : ~OfPath(out[i])
      BY <3>1 DEF FileLast
    <3>3. ~OfPath(busy)' /\ \A i \in DOMAIN out : ~OfPath(out[i])'
      BY <1>1, <2>2, <3>2 DEF OfPath
    <3>4. Len(out') = Len(out) + 1
      BY <1>4, <2>1, AppendProperties DEF IInv, Types
    <3> QED BY <2>3, <3>1, <3>3, <3>4 DEF FileLast
  <2>5. CASE step # "retr"
    <3>1. ~FileAsked
      BY <1>1, <2>5 DEF FileAsked, Ends, Asking, IInv, Flow
    <3>2. ~OfPath(busy)' /\ \A i \in DOMAIN out' : ~OfPath(out[i])'
      BY <1>1, <2>1, <2>2, <2>3, <2>5, <3>1 DEF OfPath, FileLast
    <3> QED BY <3>2 DEF FileLast
  <2> QED BY <2>4, <2>5
<1> QED BY <1>3, <1>4 DEF Send

LEMMA TakeFileLast ==
  ASSUME IInv, FileLast, out # <<>>, out' = Tail(out), UNCHANGED client,
         busy' = Idle \/ busy' = Head(out)
  PROVE  FileLast'
<1>1. path' = path /\ FileAsked' = FileAsked
  BY DEF client, FileAsked
<1>2. /\ Head(out) = out[1] /\ 1 \in DOMAIN out
      /\ \A i \in DOMAIN out' : i \in Nat /\ i + 1 \in DOMAIN out /\ out'[i] = out[i + 1]
  BY TailParts DEF IInv, Types
<1>3. Len(out) \in Nat /\ Len(out') = Len(out) - 1 /\ (Len(out) = 1 => out' = <<>>)
  BY HeadTailProperties, LenProperties, EmptySeq DEF IInv, Types
<1>4. \A i \in DOMAIN out' : OfPath(out[i])' = OfPath(out[i + 1])
  BY <1>1, <1>2 DEF OfPath
<1>5. OfPath(busy)' => OfPath(out[1])
  BY <1>1, <1>2 DEF OfPath, Idle
<1>6. ~FileAsked' => ~OfPath(busy)' /\ \A i \in DOMAIN out' : ~OfPath(out[i])'
  BY <1>1, <1>2, <1>4, <1>5 DEF FileLast
<1>7. OfPath(busy)' => out' = <<>>
  BY <1>2, <1>3, <1>5 DEF FileLast
<1>8. \A i \in DOMAIN out' : OfPath(out[i])' => i = Len(out')
  BY <1>2, <1>3, <1>4 DEF FileLast
<1> QED BY <1>6, <1>7, <1>8 DEF FileLast

LEMMA StepFileLast == IInv /\ FileLast /\ [Next]_vars => FileLast'
<1> SUFFICES ASSUME IInv, FileLast, [Next]_vars PROVE FileLast'
  OBVIOUS
<1>1. CASE SendFails \/ ConnectFails \/ Timeout
  <2>1. step \in Asking
    BY <1>1 DEF SendFails, ConnectFails, Timeout, IInv, Flow, Asking
  <2> QED BY <1>1, <2>1, FailsFileLast DEF SendFails, ConnectFails, Timeout
<1>2. ASSUME NEW k \in DOMAIN in, GetError(k) PROVE FileLast'
  <2>1. step \in Asking
    BY <1>2 DEF GetError, IInv, Flow
  <2> QED BY <1>2, <2>1, FailsFileLast DEF GetError
<1>3. ASSUME NEW k \in DOMAIN in, Understand(k) PROVE FileLast'
  <2>1. step \in Asking /\ step' = After[step] /\ path' = path /\ out' = out /\ busy' = busy
    BY <1>3 DEF Understand, Goto, IInv, Flow
  <2>2. FileAsked => FileAsked'
    BY <2>1 DEF FileAsked, After, Asking, Ends
  <2> QED BY <2>1, <2>2, NoMoreFileLast
<1>4. CASE Connect
  <2>1. step' = step /\ phase' = "wait" /\ path' = path /\ out' = out /\ busy' = busy
    BY <1>4 DEF Connect
  <2> QED BY <2>1, NoMoreFileLast DEF FileAsked
<1>5. CASE ReadListing
  <2>1. step = "listing" /\ path' = path /\ out' = out /\ busy' = busy
    BY <1>5 DEF ReadListing
  <2> QED BY <2>1, NoMoreFileLast DEF FileAsked, Ends
<1>6. CASE Load
  <2>1. step' \in {"final", "unloaded"} /\ path' = path /\ out' = out /\ busy' = Idle
    BY <1>6 DEF Load, Goto
  <2> QED BY <2>1, NoMoreFileLast DEF FileAsked, Ends
<1>7. CASE Serve \/ Refuse
  <2>1. out # <<>> /\ out' = Tail(out) /\ UNCHANGED client /\ (busy' = Idle \/ busy' = Head(out))
    BY <1>7 DEF Serve, Refuse
  <2> QED BY <2>1, TakeFileLast
<1>8. CASE Listed \/ Abort \/ ServerCloses \/ UNCHANGED vars
  <2>1. (out' = out \/ out' = <<>>) /\ (busy' = busy \/ busy' = Idle) /\ UNCHANGED client
    BY <1>8 DEF Listed, Abort, ServerCloses, vars
  <2> QED BY <2>1, NoMoreFileLast DEF client, FileAsked
<1> QED BY <1>1, <1>2, <1>3, <1>4, <1>5, <1>6, <1>7, <1>8, SendFileLast DEF Next, Client, Server

LEMMA StepTransfers == IInv /\ Transfers /\ [Next]_vars => Transfers'
<1> SUFFICES ASSUME IInv, Transfers, [Next]_vars PROVE Transfers'
  OBVIOUS
<1>1. ASSUME NEW replies, Fails(replies), UNCHANGED server PROVE Transfers'
  <2>1. conn' = 0 /\ (busy' = busy \/ busy' = Idle) /\ passive' = passive
    BY <1>1 DEF Fails, server
  <2> QED BY <2>1 DEF Transfers
<1>2. CASE SendFails \/ ConnectFails \/ Timeout
  BY <1>1, <1>2 DEF SendFails, ConnectFails, Timeout
<1>3. ASSUME NEW k \in DOMAIN in, GetError(k) PROVE Transfers'
  BY <1>1, <1>3 DEF GetError
<1>4. ASSUME NEW k \in DOMAIN in, Understand(k) PROVE Transfers'
  <2>1. step \in Asking /\ step' = After[step] /\ conn' = conn /\ busy' = busy /\ passive' = passive
    BY <1>4 DEF Understand, Goto, server, IInv, Flow
  <2>2. step \in {"list", "retr"} => step' \in {"listing", "load"}
    BY <2>1 DEF After
  <2> QED BY <2>1, <2>2 DEF Transfers, Asking
<1>5. CASE Send \/ UNCHANGED vars
  BY <1>5 DEF Send, vars, client, server, Transfers
<1>6. CASE Connect
  <2>1. step \in {"list", "retr"} /\ step' = step /\ busy' = busy /\ passive' = passive
    BY <1>6 DEF Connect, server, IInv, Flow
  <2> QED BY <2>1 DEF Transfers
<1>7. CASE ReadListing
  BY <1>7 DEF ReadListing, server, Transfers
<1>8. CASE Load
  BY <1>8 DEF Load, Transfers
<1>9. CASE Serve
  <2>1. /\ UNCHANGED <<step, conn>> /\ Possible(Head(out))
        /\ passive' = IF Head(out).cmd \in {"pasv", "pasv2"} THEN ports + 1 ELSE passive
        /\ busy' = IF Head(out).cmd \in {"list", "retr"} THEN Head(out) ELSE Idle
    <3>1. ports + 1 # 0
      BY DEF IInv, Types
    <3> QED BY <1>9, <3>1 DEF Serve, client
  <2>2. CASE Head(out).cmd \in {"list", "retr"}
    BY <2>1, <2>2 DEF Possible, Transfers
  <2>3. CASE Head(out).cmd \notin {"list", "retr"}
    BY <2>1, <2>3 DEF Transfers
  <2> QED BY <2>2, <2>3
<1>10. CASE Refuse \/ Listed \/ Abort \/ ServerCloses
  <2>1. UNCHANGED <<step, conn>> /\ busy' = Idle
    BY <1>10 DEF Refuse, Listed, Abort, ServerCloses, client
  <2> QED BY <2>1 DEF Transfers
<1> QED BY <1>2, <1>3, <1>4, <1>5, <1>6, <1>7, <1>8, <1>9, <1>10 DEF Next, Client, Server

(* What the client can do at once, and the server.                         *)
ClientCan ==
  \/ phase = "send" /\ step \in Asking
  \/ phase = "connect"
  \/ phase = "wait" /\ sock /\ in # <<>>
  \/ phase = "wait" /\ sock /\ ~eof /\ NothingComes
  \/ step = "listing" /\ busy.cmd # "list" /\ ~Coming("list")
  \/ step = "load" /\ ~Coming("retr")

ServerCan ==
  /\ ~eof
  /\ \/ busy = Idle /\ out # <<>>
     \/ busy.cmd = "list" /\ conn = passive
     \/ busy # Idle /\ conn # passive /\ phase # "connect"

(* When the server can do nothing it is because the client has all that    *)
(* will come, or is to read the file.                                      *)
LEMMA ServerHasDone ==
  ASSUME IInv, FileLast, Transfers, ~eof, ~ServerCan, phase # "connect"
  PROVE  out = <<>> /\ (busy = Idle \/ (busy.cmd = "retr" /\ conn = passive))
<1>1. CASE busy = Idle
  BY <1>1 DEF ServerCan
<1>2. CASE busy # Idle
  <2>1. busy.cmd = "retr" /\ conn = passive /\ conn # 0
    BY <1>2 DEF ServerCan, Transfers, IInv, Types
  <2>2. step \in {"list", "listing", "retr", "load"}
    BY <2>1 DEF Transfers
  <2>3. busy.path = path
    BY <2>1, <2>2 DEF IInv, Types, PlainFirst, Beyond, OfPlain, Paths
  <2> QED BY <2>1, <2>3 DEF FileLast, OfPath
<1> QED BY <1>1, <1>2

(* An attempt that is not over can go on as long as the server has not     *)
(* closed: the client never waits for a reply, a listing or a file that    *)
(* the server cannot come to.  With AttemptIsBounded: it ends.             *)
THEOREM AttemptGoesOn == Spec => [](step \notin Ends /\ ~eof => ClientCan \/ ServerCan)
<1> DEFINE Here == IInv /\ FileLast /\ Transfers
<1>1. ASSUME Here, step \notin Ends, ~eof, ~ServerCan
      PROVE  ClientCan
  <2>1. /\ step \in Asking \union {"listing", "load"} /\ phase \in {"send", "connect", "wait"}
        /\ phase = "wait" => step \in Asking /\ sock
    BY <1>1 DEF IInv, Types, Flow, Ends, Idle
  <2>2. CASE phase = "connect"
    BY <2>2 DEF ClientCan
  <2>3. CASE phase = "send" /\ step \in Asking
    BY <2>3 DEF ClientCan
  <2>4. CASE phase = "wait"
    <3>1. out = <<>> /\ (busy = Idle \/ (busy.cmd = "retr" /\ conn = passive))
      BY <1>1, <2>4, ServerHasDone
    <3> QED BY <1>1, <2>1, <2>4, <3>1 DEF ClientCan, NothingComes
  <2>5. CASE phase = "send" /\ step \in {"listing", "load"}
    <3>1. out = <<>> /\ busy.cmd # "list"
      BY <1>1, <2>5, ServerHasDone DEF Idle
    <3>2. ~Coming("list") /\ ~Coming("retr")
      BY <3>1 DEF Coming
    <3> QED BY <2>5, <3>1, <3>2 DEF ClientCan
  <2> QED BY <2>1, <2>2, <2>3, <2>4, <2>5
<1>2. Init => Here
  BY InitInv, InitFileLast
<1>3. Here /\ [Next]_vars => Here'
  BY StepKeeps, StepFileLast, StepTransfers
<1> QED BY <1>1, <1>2, <1>3, PTL DEF Spec
-----------------------------------------------------------------------------
(* The dialogue around attempts (module Fetch), whose downloads an FTP     *)
(* attempt implements.  Its variables are declared here, to speak of all   *)
(* of its behaviours and not only of those that are one attempt.           *)

VARIABLES images, auto, fedup, method, pc, proxy, via, host, slash, login, got, told

Dialogue == INSTANCE Fetch

(* An HTTP server is asked through the proxy that was given, if one was,   *)
(* and without a user name.                                                *)
HttpAsks ==
  method = "http" =>
    /\ pc \in {"medium", "mirror", "via", "server", "get", "get arch", "load"} =>
         via = (proxy = "given")
    /\ pc # "via"
    /\ pc \in {"get", "get arch", "load"} => ~login

(* A place on the server, with what is told of it in its own words.        *)
Direct(p, a, l, x) ==
  [proto |-> p, host |-> host, arch |-> a, login |-> l, proxied |-> x, apart |-> TRUE]

(* An image that is loaded is of one of the two places that the answers    *)
(* lead to.                                                                *)
FromAnswers == pc = "load" => got \in {Dialogue!Plain, Dialogue!Arch}

(* Two places that agree on the rest and on the subdirectory are one.      *)
LEMMA SameArch ==
  ASSUME NEW p, NEW l, NEW x, NEW u, NEW v,
         \E a \in BOOLEAN : u = Direct(p, a, l, x),
         v = Direct(p, u.arch, l, x)
  PROVE  v = u
<1>1. PICK a \in BOOLEAN : u = Direct(p, a, l, x)
  OBVIOUS
<1>2. u.arch = a
  BY <1>1 DEF Direct
<1> QED BY <1>1, <1>2

Consistent ==
  /\ Dialogue!TypeOK /\ HttpAsks /\ FromAnswers /\ Dialogue!ToldIsLoaded

(* The place an image is got from is one there can be.                     *)
LEMMA PlacesAre ==
  ASSUME Dialogue!TypeOK
  PROVE  /\ Dialogue!Plain \in Dialogue!Urls /\ Dialogue!Arch \in Dialogue!Urls
         /\ Dialogue!Tell \in Dialogue!Urls
         /\ host # "" => Dialogue!Plain # Dialogue!Nowhere /\ Dialogue!Arch # Dialogue!Nowhere
<1> USE DEF Dialogue!TypeOK
<1>1. via \in BOOLEAN /\ login \in BOOLEAN /\ slash \in BOOLEAN
  OBVIOUS
<1>2. \A p \in Dialogue!Protos, a, l, x \in BOOLEAN :
        /\ Dialogue!Url(p, a, l, x) \in Dialogue!Urls
        /\ host # "" => Dialogue!Url(p, a, l, x) # Dialogue!Nowhere
  BY DEF Dialogue!Url, Dialogue!Urls, Dialogue!Nowhere
<1>3. Dialogue!Plain \in Dialogue!Urls /\ (host # "" => Dialogue!Plain # Dialogue!Nowhere)
  BY <1>1, <1>2 DEF Dialogue!Plain
<1>4. Dialogue!Arch \in Dialogue!Urls /\ (host # "" => Dialogue!Arch # Dialogue!Nowhere)
  BY <1>1, <1>2 DEF Dialogue!Arch, Dialogue!Protos
<1>5. Dialogue!Tell \in Dialogue!Urls
  <2>1. got.arch \in BOOLEAN
    BY DEF Dialogue!Urls
  <2> QED BY <1>1, <2>1 DEF Dialogue!Tell, Dialogue!Urls, Dialogue!Protos
<1> QED BY <1>3, <1>4, <1>5

(* The dialogue begins with nothing loaded and nothing told. *)
LEMMA DialogueInit == Dialogue!Init => Consistent
<1> SUFFICES ASSUME Dialogue!Init PROVE Consistent
  OBVIOUS
<1> USE DEF Dialogue!Init
<1>1. Dialogue!Nowhere \in Dialogue!Urls
  BY DEF Dialogue!Nowhere, Dialogue!Urls, Dialogue!Protos, Dialogue!Hosts
<1>2. Dialogue!TypeOK
  BY <1>1 DEF Dialogue!TypeOK, Dialogue!Protos, Dialogue!Proxies, Dialogue!Hosts
<1>3. HttpAsks /\ FromAnswers /\ Dialogue!ToldIsLoaded
  BY DEF HttpAsks, FromAnswers, Dialogue!ToldIsLoaded
<1> QED BY <1>2, <1>3 DEF Consistent

(* Every answer, download and failure keeps it.                            *)
LEMMA DialogueNext == Consistent /\ [Dialogue!Next]_(Dialogue!vars) => Consistent'
<1> SUFFICES ASSUME Consistent, [Dialogue!Next]_(Dialogue!vars) PROVE Consistent'
  OBVIOUS
<1> USE DEF Consistent
<1>1. Dialogue!TypeOK'
  <2> USE DEF Dialogue!TypeOK
  <2>1. CASE \E m \in Dialogue!Protos : Dialogue!SelectMethod(m)
    BY <2>1 DEF Dialogue!SelectMethod, Dialogue!answers
  <2>2. CASE Dialogue!Up
    BY <2>2 DEF Dialogue!Up, Dialogue!answers
  <2>3. CASE Dialogue!Questions
    <3>1. CASE Dialogue!AskProxy
      BY <3>1 DEF Dialogue!AskProxy, Dialogue!answers
    <3>2. CASE Dialogue!SelectMedium \/ Dialogue!CancelMedium \/ Dialogue!CancelMirror
      BY <3>2 DEF Dialogue!SelectMedium, Dialogue!CancelMedium, Dialogue!CancelMirror,
                  Dialogue!AskVia, Dialogue!answers
    <3>3. CASE Dialogue!SelectMirror
      BY <3>3 DEF Dialogue!SelectMirror, Dialogue!AskVia, Dialogue!answers, Dialogue!Hosts
    <3>4. CASE Dialogue!UseProxy
      BY <3>4 DEF Dialogue!UseProxy, Dialogue!answers
    <3>5. CASE Dialogue!SelectServer
      BY <3>5 DEF Dialogue!SelectServer, Dialogue!Hosts
    <3>6. CASE Dialogue!CancelServer
      BY <3>6 DEF Dialogue!CancelServer, Dialogue!answers
    <3> QED BY <2>3, <3>1, <3>2, <3>3, <3>4, <3>5, <3>6 DEF Dialogue!Questions
  <2>4. CASE Dialogue!Get
    BY <2>4, PlacesAre DEF Dialogue!Get, Dialogue!answers
  <2>5. CASE Dialogue!GetArch
    BY <2>5, PlacesAre DEF Dialogue!GetArch, Dialogue!answers
  <2>6. CASE Dialogue!GetFails
    BY <2>6 DEF Dialogue!GetFails, Dialogue!answers
  <2>7. CASE Dialogue!LoadFails
    <3>1. Dialogue!Nowhere \in Dialogue!Urls
      BY DEF Dialogue!Nowhere, Dialogue!Urls, Dialogue!Protos, Dialogue!Hosts
    <3> QED BY <2>7, <3>1 DEF Dialogue!LoadFails, Dialogue!answers
  <2>8. CASE Dialogue!Load
    BY <2>8, PlacesAre DEF Dialogue!Load, Dialogue!answers
  <2>9. CASE Dialogue!FedUp
    BY <2>9 DEF Dialogue!FedUp, Dialogue!answers
  <2>10. CASE UNCHANGED Dialogue!vars
    BY <2>10 DEF Dialogue!vars, Dialogue!answers
  <2> QED BY <2>1, <2>2, <2>3, <2>4, <2>5, <2>6, <2>7, <2>8, <2>9, <2>10
          DEF Dialogue!Next, Dialogue!Download
<1>2. HttpAsks' /\ FromAnswers'
  <2> USE DEF HttpAsks, FromAnswers
  <2>1. CASE \E m \in Dialogue!Protos : Dialogue!SelectMethod(m)
    BY <2>1 DEF Dialogue!SelectMethod, Dialogue!answers
  <2>2. CASE Dialogue!Up
    BY <2>2 DEF Dialogue!Up, Dialogue!answers
  <2>3. CASE Dialogue!Questions
    <3>1. CASE Dialogue!AskProxy
      BY <3>1 DEF Dialogue!AskProxy, Dialogue!answers
    <3>2. CASE Dialogue!SelectMedium \/ Dialogue!CancelMedium \/ Dialogue!CancelMirror
      BY <3>2 DEF Dialogue!SelectMedium, Dialogue!CancelMedium, Dialogue!CancelMirror,
                  Dialogue!AskVia, Dialogue!answers
    <3>3. CASE Dialogue!SelectMirror
      BY <3>3 DEF Dialogue!SelectMirror, Dialogue!AskVia
    <3>4. CASE Dialogue!UseProxy
      BY <3>4 DEF Dialogue!UseProxy
    <3>5. CASE Dialogue!SelectServer
      BY <3>5 DEF Dialogue!SelectServer
    <3>6. CASE Dialogue!CancelServer
      BY <3>6 DEF Dialogue!CancelServer
    <3> QED BY <2>3, <3>1, <3>2, <3>3, <3>4, <3>5, <3>6 DEF Dialogue!Questions
  <2>4. CASE Dialogue!Get
    BY <2>4 DEF Dialogue!Get, Dialogue!answers, Dialogue!Plain, Dialogue!Arch, Dialogue!Url
  <2>5. CASE Dialogue!GetArch
    BY <2>5 DEF Dialogue!GetArch, Dialogue!answers, Dialogue!Plain, Dialogue!Arch, Dialogue!Url
  <2>6. CASE Dialogue!GetFails
    BY <2>6 DEF Dialogue!GetFails
  <2>7. CASE Dialogue!LoadFails
    BY <2>7 DEF Dialogue!LoadFails
  <2>8. CASE Dialogue!Load
    BY <2>8 DEF Dialogue!Load
  <2>9. CASE Dialogue!FedUp
    BY <2>9 DEF Dialogue!FedUp
  <2>10. CASE UNCHANGED Dialogue!vars
    BY <2>10 DEF Dialogue!vars, Dialogue!answers, Dialogue!Plain, Dialogue!Arch, Dialogue!Url
  <2> QED BY <2>1, <2>2, <2>3, <2>4, <2>5, <2>6, <2>7, <2>8, <2>9, <2>10
          DEF Dialogue!Next, Dialogue!Download
<1>3. Dialogue!ToldIsLoaded'
  <2> USE DEF Dialogue!ToldIsLoaded
  <2>1. CASE Dialogue!Load
    <3>1. /\ pc = "load" /\ via \in BOOLEAN /\ login \in BOOLEAN
          /\ method \in {"ftp", "http"}
          /\ proxy \in {"cancelled", "blank", "host only", "given"}
          /\ got \in {Dialogue!Plain, Dialogue!Arch}
      BY <2>1 DEF Dialogue!Load, Dialogue!TypeOK, Dialogue!Protos, Dialogue!Proxies, FromAnswers
    <3>2. ASSUME method = "ftp", ~via PROVE Dialogue!Tell = got
      <4>1. via = FALSE /\ (login /\ ~via) = login /\ ~(method = "ftp" /\ via)
            /\ (method = "http" /\ proxy \in {"host only", "given"}) = via
        BY ONLY <3>1, <3>2
      <4>2. \E a \in BOOLEAN : got = Direct(method, a, login, via)
        BY ONLY <3>1, <3>2, <4>1
           DEF Direct, Dialogue!Plain, Dialogue!Arch, Dialogue!Url
      <4>3. Dialogue!Tell = Direct(method, got.arch, login, via)
        BY ONLY <3>2, <4>1 DEF Direct, Dialogue!Tell
      <4> QED BY ONLY <4>2, <4>3, SameArch
    <3>3. ASSUME method = "http", proxy # "host only" PROVE Dialogue!Tell = got
      <4>1. ~login /\ via = (proxy = "given")
        BY <3>1, <3>3 DEF HttpAsks
      <4>2. (login /\ ~via) = login /\ ~(method = "ftp" /\ via)
            /\ (method = "http" /\ proxy \in {"host only", "given"}) = via
        <5>1. CASE proxy = "given"
          BY ONLY <3>1, <3>3, <4>1, <5>1
        <5>2. CASE proxy # "given"
          BY ONLY <3>1, <3>3, <4>1, <5>2
        <5> QED BY <5>1, <5>2
      <4>3. \E a \in BOOLEAN : got = Direct(method, a, login, via)
        BY ONLY <3>1, <3>3, <4>2
           DEF Direct, Dialogue!Plain, Dialogue!Arch, Dialogue!Url
      <4>4. Dialogue!Tell = Direct(method, got.arch, login, via)
        BY ONLY <3>3, <4>2 DEF Direct, Dialogue!Tell
      <4> QED BY ONLY <4>3, <4>4, SameArch
    <3>4. ~(method = "ftp" /\ via) /\ proxy # "host only" => Dialogue!Tell = got
      BY <3>1, <3>2, <3>3
    <3> QED BY <2>1, <3>4 DEF Dialogue!Load, Dialogue!answers
  <2>2. CASE UNCHANGED Dialogue!vars
    BY <2>2 DEF Dialogue!vars, Dialogue!answers
  <2>3. CASE ~Dialogue!Load /\ ~UNCHANGED Dialogue!vars
    <3>1. pc' # "done"
      BY <2>3 DEF Dialogue!Next, Dialogue!SelectMethod, Dialogue!Up, Dialogue!Questions,
        Dialogue!AskProxy, Dialogue!SelectMedium, Dialogue!CancelMedium, Dialogue!SelectMirror,
        Dialogue!CancelMirror, Dialogue!UseProxy, Dialogue!SelectServer, Dialogue!CancelServer,
        Dialogue!AskVia, Dialogue!Download, Dialogue!Get, Dialogue!GetArch, Dialogue!GetFails,
        Dialogue!LoadFails, Dialogue!FedUp
    <3> QED BY <3>1
  <2> QED BY <2>1, <2>2, <2>3
<1> QED BY <1>1, <1>2, <1>3

(* Stage2 goes on from the place the image came from, after any series of  *)
(* mirrors, servers, proxies and failures (ToldIsLoaded of module Fetch,   *)
(* with its exceptions).                                                   *)
THEOREM DialogueTells == Dialogue!Spec => [](Dialogue!TypeOK /\ Dialogue!ToldIsLoaded)
<1>1. Consistent => Dialogue!TypeOK /\ Dialogue!ToldIsLoaded
  BY DEF Consistent
<1> QED BY <1>1, DialogueInit, DialogueNext, PTL DEF Dialogue!Spec
-----------------------------------------------------------------------------
(* The steps of the dialogue there may still be when the user cancels      *)
(* everything, and in automatic mode.                                      *)
Places == {"method", "up", "proxy", "medium", "mirror", "via", "server", "get", "get arch", "load",
           "done", "crashed"}
StepsOut == [p \in Places |->
  CASE p = "get" -> 4
    [] p \in {"get arch", "mirror", "proxy"}  -> 3
    [] p \in {"medium", "via", "server"}      -> 2
    [] p \in {"up", "load"}                   -> 1
    [] OTHER                                  -> 0]

AutoLeft == [p \in Places |->
  CASE p = "method"   -> 7
    [] p = "up"       -> 6
    [] p = "proxy"    -> 5
    [] p = "server"   -> 4
    [] p = "get"      -> 3
    [] p = "get arch" -> 2
    [] p = "load"     -> 1
    [] OTHER          -> 0]

LEMMA DialogueStepsAre ==
  /\ StepsOut["method"] = 0 /\ StepsOut["done"] = 0 /\ StepsOut["crashed"] = 0
  /\ StepsOut["up"] = 1 /\ StepsOut["load"] = 1
  /\ StepsOut["medium"] = 2 /\ StepsOut["via"] = 2 /\ StepsOut["server"] = 2
  /\ StepsOut["mirror"] = 3 /\ StepsOut["proxy"] = 3
  /\ StepsOut["get"] = 4
BY DEF StepsOut, Places

LEMMA AutoStepsAre ==
  /\ AutoLeft["method"] = 7 /\ AutoLeft["up"] = 6 /\ AutoLeft["proxy"] = 5
  /\ AutoLeft["server"] = 4 /\ AutoLeft["get"] = 3
  /\ AutoLeft["medium"] = 0 /\ AutoLeft["mirror"] = 0 /\ AutoLeft["via"] = 0
  /\ AutoLeft["load"] = 1 /\ AutoLeft["done"] = 0 /\ AutoLeft["crashed"] = 0
BY DEF AutoLeft, Places

(* Apart from the others: SMT does not take a string with a space.         *)
LEMMA GetArchSteps == StepsOut["get arch"] = 3 /\ AutoLeft["get arch"] = 2
BY DEF StepsOut, AutoLeft, Places

(* The user does not cancel what he is not asked.                          *)
Modes == ~(auto /\ fedup) /\ (auto => pc \notin {"medium", "mirror", "via"})

(* Every action of the dialogue, in each of the two modes.                 *)
LEMMA DialogueNearer ==
  ASSUME Dialogue!TypeOK, Modes, Dialogue!Next, Dialogue!vars' # Dialogue!vars
  PROVE  /\ Modes'
         /\ fedup => fedup' /\ StepsOut[pc'] < StepsOut[pc]
         /\ auto' => auto /\ \/ AutoLeft[pc'] < AutoLeft[pc]
                             \/ pc = "up" /\ pc' = "method"
<1>1. auto \in BOOLEAN /\ fedup \in BOOLEAN
  BY DEF Dialogue!TypeOK
<1>2. CASE \E m \in Dialogue!Protos : Dialogue!SelectMethod(m)
  <2>1. /\ pc = "method" /\ ~fedup /\ fedup' = fedup
         /\ \/ pc' = "up" /\ auto' = auto
            \/ pc' = "method" /\ auto' = FALSE
    BY <1>2 DEF Dialogue!SelectMethod
  <2>2. fedup => fedup' /\ StepsOut[pc'] < StepsOut[pc]
    BY <1>1, <2>1, DialogueStepsAre
  <2>3. auto' => auto /\ AutoLeft[pc'] < AutoLeft[pc]
    <3>1. auto' => auto /\ pc' = "up"
      BY <2>1
    <3>2. pc' = "up" => AutoLeft[pc'] < AutoLeft[pc]
      BY <2>1, AutoStepsAre
    <3> QED BY <3>1, <3>2
  <2>4. Modes'
    BY <1>1, <2>1 DEF Modes
  <2> QED BY <2>2, <2>3, <2>4
<1>3. CASE Dialogue!Up
  <2>1. /\ pc = "up" /\ fedup' = fedup /\ (auto' = auto \/ auto' = FALSE)
        /\ pc' = "method" \/ (pc' = "proxy" /\ ~fedup)
    BY <1>3 DEF Dialogue!Up
  <2>2. fedup => fedup' /\ StepsOut[pc'] < StepsOut[pc]
    <3>1. fedup => fedup' /\ pc' = "method"
      BY <2>1
    <3>2. pc' = "method" => StepsOut[pc'] < StepsOut[pc]
      BY <2>1, DialogueStepsAre
    <3> QED BY <3>1, <3>2
  <2>3. pc' = "proxy" => AutoLeft[pc'] < AutoLeft[pc]
    BY <2>1, AutoStepsAre
  <2>4. Modes'
    BY <1>1, <2>1 DEF Modes
  <2> QED BY <2>1, <2>2, <2>3, <2>4
<1>4. CASE Dialogue!AskProxy
  <2>1. /\ pc = "proxy" /\ fedup' = fedup /\ auto' = auto
         /\ \/ pc' = "server" /\ auto
            \/ pc' = "medium" /\ ~auto
    BY <1>4 DEF Dialogue!AskProxy
  <2>2. fedup => fedup' /\ StepsOut[pc'] < StepsOut[pc]
    BY <1>1, <2>1, DialogueStepsAre
  <2>3. auto' => auto /\ AutoLeft[pc'] < AutoLeft[pc]
    BY <1>1, <2>1, AutoStepsAre DEF Modes
  <2>4. Modes'
    BY <1>1, <2>1 DEF Modes
  <2> QED BY <2>2, <2>3, <2>4
<1>5. CASE Dialogue!SelectMedium
  <2>1. /\ pc = "medium" /\ ~fedup /\ fedup' = fedup /\ auto' = auto
         /\ pc' \in {"mirror", "via", "server"}
    BY <1>5 DEF Dialogue!SelectMedium, Dialogue!AskVia
  <2>2. fedup => fedup' /\ StepsOut[pc'] < StepsOut[pc]
    BY <1>1, <2>1, DialogueStepsAre
  <2>3. auto' => auto /\ AutoLeft[pc'] < AutoLeft[pc]
    BY <1>1, <2>1, AutoStepsAre DEF Modes
  <2>4. Modes'
    BY <1>1, <2>1 DEF Modes
  <2> QED BY <2>2, <2>3, <2>4
<1>6. CASE Dialogue!CancelMedium
  <2>1. pc = "medium" /\ fedup' = fedup /\ auto' = auto /\ pc' = "up"
    BY <1>6 DEF Dialogue!CancelMedium
  <2>2. fedup => fedup' /\ StepsOut[pc'] < StepsOut[pc]
    BY <1>1, <2>1, DialogueStepsAre
  <2>3. auto' => auto /\ AutoLeft[pc'] < AutoLeft[pc]
    BY <1>1, <2>1, AutoStepsAre DEF Modes
  <2>4. Modes'
    BY <1>1, <2>1 DEF Modes
  <2> QED BY <2>2, <2>3, <2>4
<1>7. CASE Dialogue!SelectMirror
  <2>1. /\ pc = "mirror" /\ ~fedup /\ fedup' = fedup /\ auto' = auto
         /\ pc' \in {"via", "server"}
    BY <1>7 DEF Dialogue!SelectMirror, Dialogue!AskVia
  <2>2. fedup => fedup' /\ StepsOut[pc'] < StepsOut[pc]
    BY <1>1, <2>1, DialogueStepsAre
  <2>3. auto' => auto /\ AutoLeft[pc'] < AutoLeft[pc]
    BY <1>1, <2>1, AutoStepsAre DEF Modes
  <2>4. Modes'
    BY <1>1, <2>1 DEF Modes
  <2> QED BY <2>2, <2>3, <2>4
<1>8. CASE Dialogue!CancelMirror
  <2>1. pc = "mirror" /\ fedup' = fedup /\ auto' = auto /\ pc' = "medium"
    BY <1>8 DEF Dialogue!CancelMirror
  <2>2. fedup => fedup' /\ StepsOut[pc'] < StepsOut[pc]
    BY <1>1, <2>1, DialogueStepsAre
  <2>3. auto' => auto /\ AutoLeft[pc'] < AutoLeft[pc]
    BY <1>1, <2>1, AutoStepsAre DEF Modes
  <2>4. Modes'
    BY <1>1, <2>1 DEF Modes
  <2> QED BY <2>2, <2>3, <2>4
<1>9. CASE Dialogue!UseProxy
  <2>1. /\ pc = "via" /\ fedup' = fedup /\ auto' = auto
         /\ \/ pc' = "server" /\ ~fedup
            \/ pc' = "up"
    BY <1>9 DEF Dialogue!UseProxy
  <2>2. fedup => fedup' /\ StepsOut[pc'] < StepsOut[pc]
    BY <1>1, <2>1, DialogueStepsAre
  <2>3. auto' => auto /\ AutoLeft[pc'] < AutoLeft[pc]
    BY <1>1, <2>1, AutoStepsAre DEF Modes
  <2>4. Modes'
    BY <1>1, <2>1 DEF Modes
  <2> QED BY <2>2, <2>3, <2>4
<1>10. CASE Dialogue!SelectServer
  <2>1. /\ pc = "server" /\ ~fedup /\ fedup' = fedup /\ auto' = auto
         /\ pc' = "get"
    BY <1>10 DEF Dialogue!SelectServer
  <2>2. fedup => fedup' /\ StepsOut[pc'] < StepsOut[pc]
    BY <1>1, <2>1, DialogueStepsAre
  <2>3. auto' => auto /\ AutoLeft[pc'] < AutoLeft[pc]
    BY <1>1, <2>1, AutoStepsAre DEF Modes
  <2>4. Modes'
    BY <1>1, <2>1 DEF Modes
  <2> QED BY <2>2, <2>3, <2>4
<1>11. CASE Dialogue!CancelServer
  <2>1. pc = "server" /\ fedup' = fedup /\ auto' = FALSE /\ pc' = "up"
    BY <1>11 DEF Dialogue!CancelServer
  <2>2. fedup => fedup' /\ StepsOut[pc'] < StepsOut[pc]
    BY <1>1, <2>1, DialogueStepsAre
  <2>3. auto' => auto /\ AutoLeft[pc'] < AutoLeft[pc]
    BY <1>1, <2>1, AutoStepsAre DEF Modes
  <2>4. Modes'
    BY <1>1, <2>1 DEF Modes
  <2> QED BY <2>2, <2>3, <2>4
<1>12. CASE Dialogue!Get
  <2>1. /\ pc = "get" /\ fedup' = fedup /\ auto' = auto
         /\ pc' \in {"load", "get arch"}
    BY <1>12 DEF Dialogue!Get
  <2>2. Modes'
    BY <1>1, <2>1 DEF Modes
  <2>3. StepsOut[pc] = 4 /\ AutoLeft[pc] = 3
    BY <2>1, DialogueStepsAre, AutoStepsAre, Zenon
  <2>4. StepsOut[pc'] \in {1, 3} /\ AutoLeft[pc'] \in {1, 2}
    BY <2>1, DialogueStepsAre, AutoStepsAre, GetArchSteps, Zenon
  <2>5. StepsOut[pc'] < StepsOut[pc] /\ AutoLeft[pc'] < AutoLeft[pc]
    BY <2>3, <2>4, SMT
  <2> QED BY <2>1, <2>2, <2>5
<1>13. CASE Dialogue!GetArch
  <2>1. pc = "get arch" /\ fedup' = fedup /\ auto' = auto /\ pc' = "load"
    BY <1>13 DEF Dialogue!GetArch
  <2>2. Modes'
    BY <1>1, <2>1 DEF Modes
  <2>3. StepsOut[pc] = 3 /\ AutoLeft[pc] = 2
    BY <2>1, GetArchSteps, Zenon
  <2>4. StepsOut[pc'] = 1 /\ AutoLeft[pc'] = 1
    BY <2>1, DialogueStepsAre, AutoStepsAre, Zenon
  <2>5. StepsOut[pc'] < StepsOut[pc] /\ AutoLeft[pc'] < AutoLeft[pc]
    BY <2>3, <2>4, SMT
  <2> QED BY <2>1, <2>2, <2>5
<1>14. CASE Dialogue!GetFails
  <2>1. /\ pc \in {"get", "get arch"} /\ fedup' = fedup /\ auto' = FALSE
         /\ pc' = "medium"
    BY <1>14 DEF Dialogue!GetFails
  <2>2. Modes'
    BY <1>1, <2>1 DEF Modes
  <2>3. StepsOut[pc] \in {3, 4}
    BY <2>1, DialogueStepsAre, GetArchSteps, Zenon
  <2>4. StepsOut[pc'] = 2
    BY <2>1, DialogueStepsAre, Zenon
  <2>5. StepsOut[pc'] < StepsOut[pc]
    BY <2>3, <2>4, SMT
  <2> QED BY <2>1, <2>2, <2>5
<1>15. CASE Dialogue!LoadFails
  <2>1. pc = "load" /\ fedup' = fedup /\ auto' = FALSE /\ pc' = "method"
    BY <1>15 DEF Dialogue!LoadFails
  <2>2. fedup => fedup' /\ StepsOut[pc'] < StepsOut[pc]
    BY <1>1, <2>1, DialogueStepsAre
  <2>3. auto' => auto /\ AutoLeft[pc'] < AutoLeft[pc]
    BY <1>1, <2>1, AutoStepsAre DEF Modes
  <2>4. Modes'
    BY <1>1, <2>1 DEF Modes
  <2> QED BY <2>2, <2>3, <2>4
<1>16. CASE Dialogue!Load
  <2>1. /\ pc = "load" /\ fedup' = fedup /\ auto' = auto
         /\ pc' \in {"done", "crashed"}
    BY <1>16 DEF Dialogue!Load
  <2>2. fedup => fedup' /\ StepsOut[pc'] < StepsOut[pc]
    BY <1>1, <2>1, DialogueStepsAre
  <2>3. auto' => auto /\ AutoLeft[pc'] < AutoLeft[pc]
    BY <1>1, <2>1, AutoStepsAre DEF Modes
  <2>4. Modes'
    BY <1>1, <2>1 DEF Modes
  <2> QED BY <2>2, <2>3, <2>4
<1>17. CASE Dialogue!FedUp
  <2>1. fedup' = TRUE /\ auto' = auto /\ ~auto /\ pc' = pc
    BY <1>17 DEF Dialogue!FedUp
  <2>2. fedup => UNCHANGED Dialogue!vars
    BY <1>1, <1>17, <2>1 DEF Dialogue!FedUp, Dialogue!vars, Dialogue!answers
  <2>3. ~fedup
    BY <2>2
  <2> QED BY <1>1, <2>1, <2>3 DEF Modes
<1> QED BY <1>2, <1>3, <1>4, <1>5, <1>6, <1>7, <1>8, <1>9, <1>10, <1>11, <1>12, <1>13, <1>14,
           <1>15, <1>16, <1>17 DEF Dialogue!Next, Dialogue!Questions, Dialogue!Download

(* Nobody is led round: who cancels every question gets to the choice of   *)
(* the method, or to the end, in four steps at most.  The automatic mode   *)
(* comes nearer to its end with every step, of which seven are left at     *)
(* most, but where the network does not come up: then the method is taken  *)
(* again, and nothing bounds how often.  Neither the proxy, the media and  *)
(* mirrors nor the two places that are tried lead back to a question asked *)
(* before.                                                                 *)
THEOREM DialogueIsBounded ==
  Dialogue!Spec =>
    /\ [](StepsOut[pc] \in 0 .. 4 /\ AutoLeft[pc] \in 0 .. 7)
    /\ [][/\ fedup => fedup' /\ StepsOut[pc'] < StepsOut[pc]
          /\ auto' => auto /\ \/ AutoLeft[pc'] < AutoLeft[pc]
                              \/ pc = "up" /\ pc' = "method"]_(Dialogue!vars)
<1>1. Dialogue!TypeOK => StepsOut[pc] \in 0 .. 4 /\ AutoLeft[pc] \in 0 .. 7
  <2>1. Dialogue!TypeOK => pc \in Places
    BY DEF Dialogue!TypeOK, Places
  <2>2. pc \in Places => StepsOut[pc] \in 0 .. 4
    <3>1. pc \in Places \ {"get arch"} => StepsOut[pc] \in {0, 1, 2, 3, 4}
      BY DialogueStepsAre, Zenon DEF Places
    <3>2. pc \in Places => StepsOut[pc] \in {0, 1, 2, 3, 4}
      BY <3>1, GetArchSteps, Zenon
    <3> QED BY <3>2
  <2>3. pc \in Places => AutoLeft[pc] \in 0 .. 7
    <3>1. pc \in Places \ {"get arch"} => AutoLeft[pc] \in {0, 1, 2, 3, 4, 5, 6, 7}
      BY AutoStepsAre, Zenon DEF Places
    <3>2. pc \in Places => AutoLeft[pc] \in {0, 1, 2, 3, 4, 5, 6, 7}
      BY <3>1, GetArchSteps, Zenon
    <3> QED BY <3>2
  <2> QED BY <2>1, <2>2, <2>3
<1>2. Dialogue!Init => Modes
  BY DEF Dialogue!Init, Modes
<1>3. Modes /\ UNCHANGED Dialogue!vars => Modes'
  BY DEF Modes, Dialogue!vars
<1>4. Dialogue!TypeOK /\ Modes /\ [Dialogue!Next]_(Dialogue!vars) => Modes'
  BY <1>3, DialogueNearer
<1>5. Dialogue!TypeOK /\ Modes /\ [Dialogue!Next]_(Dialogue!vars) =>
        [/\ fedup => fedup' /\ StepsOut[pc'] < StepsOut[pc]
         /\ auto' => auto /\ \/ AutoLeft[pc'] < AutoLeft[pc]
                             \/ pc = "up" /\ pc' = "method"]_(Dialogue!vars)
  BY DialogueNearer
<1>6. Dialogue!Spec => []Dialogue!TypeOK
  BY DialogueTells, PTL
<1> QED BY <1>1, <1>2, <1>4, <1>5, <1>6, PTL DEF Dialogue!Spec
=============================================================================
