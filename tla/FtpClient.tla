------------------------------ MODULE FtpClient ------------------------------
(***************************************************************************)
(* The FTP client of stage1 (mdk-stage1/url.cpp) as ftp_prepare of         *)
(* network.cpp uses it: one connection, on which the image is looked for   *)
(* in the directory given, then in its subdirectory of the architecture.   *)
(* On the other side are a server and two TCP streams.  Replies arrive     *)
(* when they like, and several may be read at once.                        *)
(***************************************************************************)
EXTENDS Integers, Sequences

CONSTANT MaxLate  \* bound: replies that come after the client stopped waiting

ASSUME LateAssumption == MaxLate \in Nat

Paths  == {"plain", "arch"}
Asking == {"greet", "user", "pass", "type", "cwd", "pasv", "list", "end", "pasv2", "retr", "final"}
Idle   == [cmd |-> "none", path |-> "plain"]

(* How an attempt ends: the image is loaded, could not be got, could not   *)
(* be loaded.                                                              *)
Ends == {"got", "failed", "unloaded"}

VARIABLES
  dirs, files,  \* the paths that exist on the server, those with the image
  firewall,     \* data connections may not get through, or break
  keepsPort,    \* the server listens for data until the next PASV, whatever
                \* it refuses
  step, phase,  \* what the client does; whether it sends, connects or waits
  path,         \* the path it tries
  sock,         \* the control connection is open
  port, conn,   \* the data port it was told, the one it is connected to
  image,        \* what it loaded
  out, in,      \* commands and replies under way
  eof,          \* the server has closed
  ports,        \* how many ports the server has opened
  passive,      \* the one it listens to, or 0
  busy,         \* the command whose transfer it does
  late

client == <<step, phase, path, sock, port, conn, image>>
server == <<eof, ports, passive>>
world  == <<dirs, files, firewall, keepsPort>>
vars   == <<client, out, in, server, busy, world, late>>

Reply(c, ok, p) == [to |-> c.cmd, path |-> c.path, ok |-> ok, port |-> p]
(* Wrong: the directory itself again, not the subdirectory. *)
CommandPlain(s) == [cmd |-> s, path |-> "plain"]
Command(s) == [cmd |-> s, path |-> path]

Init ==
  /\ dirs \in SUBSET Paths /\ files \in SUBSET dirs
  /\ firewall \in BOOLEAN /\ keepsPort \in BOOLEAN
  /\ step = "greet" /\ phase = "wait" /\ path = "plain" /\ sock = TRUE
  /\ port = 0 /\ conn = 0 /\ image = "none"
  /\ out = <<Command("greet")>> /\ in = <<>> /\ eof = FALSE
  /\ ports = 0 /\ passive = 0 /\ busy = Idle /\ late = 0

-----------------------------------------------------------------------------
(* The client goes on to another step; most begin with a command.          *)
Goto(s) == step' = s /\ phase' = IF s \in {"end", "final"} THEN "wait" ELSE "send"

After == [greet |-> "user", user |-> "pass", pass |-> "type", type |-> "cwd", cwd |-> "pasv",
          pasv |-> "list", list |-> "listing", end |-> "pasv2", pasv2 |-> "retr",
          retr |-> "load", final |-> "got"]

(* What an error leads to: no connection; a file asked for without its     *)
(* size; the subdirectory; nothing, when the image is there already.       *)
Otherwise ==
  CASE step \in {"greet", "user", "pass", "type"} -> "failed"
    [] step \in {"cwd", "pasv", "list", "end"}    -> "pasv2"
    [] step \in {"pasv2", "retr"}                 -> IF path = "plain" THEN "cwd" ELSE "failed"
    [] OTHER                                      -> "got"

Closing == sock /\ step \in {"user", "pass", "type", "pasv", "list", "end"}

(* Wrong: the path is not changed. *)
FailsSamePath(replies) ==
  /\ Goto(Otherwise)
  /\ sock' = (sock /\ ~Closing)
  /\ in' = IF Closing THEN <<>> ELSE replies
  /\ out' = IF Closing THEN <<>> ELSE out
  /\ busy' = IF Closing THEN Idle ELSE busy
  /\ conn' = 0 /\ path' = path

(* A step fails, after `replies' are left unread.                          *)
Fails(replies) ==
  /\ Goto(Otherwise)
  /\ sock' = (sock /\ ~Closing)
  /\ in' = IF Closing THEN <<>> ELSE replies
  /\ out' = IF Closing THEN <<>> ELSE out
  /\ busy' = IF Closing THEN Idle ELSE busy
  /\ conn' = 0
  /\ path' = IF step \in {"pasv2", "retr"} THEN "arch" ELSE path

-----------------------------------------------------------------------------
(* Writing a command: it fails on a socket that is closed, and may on one  *)
(* the server has closed.                                                  *)
Send ==
  /\ phase = "send" /\ step \in Asking /\ sock
  /\ phase' = IF step \in {"list", "retr"} THEN "connect" ELSE "wait"
  /\ out' = IF eof THEN out ELSE Append(out, Command(step))
  /\ UNCHANGED <<step, path, sock, port, conn, image, in, server, busy, world, late>>

SendFails ==
  /\ phase = "send" /\ step \in Asking
  /\ ~sock \/ eof
  /\ Fails(in)
  /\ UNCHANGED <<port, image, server, world, late>>

(* ftp_data_command connects to the port after it has sent the command.    *)
Connect ==
  /\ phase = "connect" /\ port = passive
  /\ phase' = "wait" /\ conn' = port
  /\ UNCHANGED <<step, path, sock, port, image, out, in, server, busy, world, late>>

ConnectFails ==
  /\ phase = "connect"
  /\ port # passive \/ firewall
  /\ Fails(in)
  /\ UNCHANGED <<port, image, server, world, late>>

-----------------------------------------------------------------------------
(* ftp_check_response: the first k replies are there and are read.  The    *)
(* first decides; the last is the text the port is looked for in; the rest *)
(* is thrown away.                                                         *)
Rest(k)  == SubSeq(in, k + 1, Len(in))
Pasv     == step \in {"pasv", "pasv2"}
Good(k)  == in[1].ok /\ (Pasv => in[k].port # 0)

Understand(k) ==
  /\ phase = "wait" /\ sock
  /\ Good(k)
  /\ Goto(After[step])
  /\ in' = Rest(k)
  /\ port' = IF Pasv THEN in[k].port ELSE port
  /\ UNCHANGED <<path, sock, conn, image, out, server, busy, world, late>>

(* An error, or a reply without a port, or one that came in two pieces.    *)
GetError(k) ==
  /\ phase = "wait" /\ sock
  /\ ~Good(k) \/ Pasv
  /\ Fails(Rest(k))
  /\ UNCHANGED <<port, image, server, world, late>>

(* TIMEOUT_SECS are over: nothing will come, or it will come late.  poll   *)
(* reports a closed connection at once, so that there is no timeout then.  *)
NothingComes == in = <<>> /\ out = <<>> /\ (busy = Idle \/ (busy.cmd = "retr" /\ conn = passive))

(* Wrong: when they are over, it waits again. *)
WaitAgain ==
  /\ phase = "wait" /\ sock /\ ~eof /\ NothingComes
  /\ UNCHANGED vars

Timeout ==
  /\ phase = "wait" /\ sock /\ ~eof
  /\ \/ NothingComes /\ late' = late
     \/ ~NothingComes /\ late < MaxLate /\ late' = late + 1
  /\ Fails(in)
  /\ UNCHANGED <<port, image, server, world>>

(* The listing is read until the server closes the data connection.        *)
Coming(c) == \E i \in DOMAIN out : out[i].cmd = c

(* Wrong: the reply that ends the listing is not waited for. *)
ReadListingOnly ==
  /\ step = "listing" /\ busy.cmd # "list" /\ ~Coming("list")
  /\ Goto("pasv2")
  /\ conn' = 0
  /\ UNCHANGED <<path, sock, port, image, out, in, server, busy, world, late>>

ReadListing ==
  /\ step = "listing" /\ busy.cmd # "list" /\ ~Coming("list")
  /\ Goto("end")
  /\ conn' = 0
  /\ UNCHANGED <<path, sock, port, image, out, in, server, busy, world, late>>

(* load_compressed_fd: the image is read and mounted.  The server is busy  *)
(* until then.                                                             *)
Load ==
  /\ step = "load" /\ ~Coming("retr")
  /\ LET there == busy.cmd = "retr" /\ conn = passive /\ ~eof
         broken == firewall \/ eof
     IN \/ /\ there
           /\ image' = busy.path
           /\ in' = Append(in, Reply([cmd |-> "final", path |-> busy.path], TRUE, 0))
           /\ Goto("final")
        \/ /\ ~there \/ broken
           /\ image' = "none" /\ in' = in
           /\ Goto("unloaded")
  /\ busy' = Idle /\ conn' = 0
  /\ UNCHANGED <<path, sock, port, out, server, world, late>>

-----------------------------------------------------------------------------
(* The server does what the commands say, in their order.                  *)

Possible(c) ==
  CASE c.cmd = "cwd"              -> c.path \in dirs
    [] c.cmd = "list"             -> passive # 0
    [] c.cmd = "retr"             -> passive # 0 /\ c.path \in files
    [] OTHER                      -> TRUE

Serve ==
  LET c == Head(out)
  IN  /\ ~eof /\ busy = Idle /\ out # <<>> /\ Possible(c)
      /\ out' = Tail(out)
      /\ LET p == IF c.cmd \in {"pasv", "pasv2"} THEN ports + 1 ELSE 0
         IN  /\ in' = Append(in, Reply(c, TRUE, p))
             /\ ports' = IF p # 0 THEN p ELSE ports
             /\ passive' = IF p # 0 THEN p ELSE passive
      /\ busy' = IF c.cmd \in {"list", "retr"} THEN c ELSE Idle
      /\ UNCHANGED <<client, eof, world, late>>

Refuse ==
  LET c == Head(out)
  IN  /\ ~eof /\ busy = Idle /\ out # <<>>
      /\ out' = Tail(out)
      /\ in' = Append(in, Reply(c, FALSE, 0))
      /\ passive' = IF keepsPort \/ c.cmd \notin {"list", "retr"} THEN passive ELSE 0
      /\ UNCHANGED <<client, eof, ports, busy, world, late>>

EndOf(c) == [cmd |-> IF c.cmd = "list" THEN "end" ELSE "final", path |-> c.path]

(* A listing is short: it is sent before anyone reads it.                  *)
Listed ==
  /\ ~eof /\ busy.cmd = "list" /\ conn = passive
  /\ busy' = Idle /\ passive' = IF keepsPort THEN passive ELSE 0
  /\ in' = Append(in, Reply(EndOf(busy), TRUE, 0))
  /\ UNCHANGED <<client, out, eof, ports, world, late>>

(* Nobody is on the data connection any more.                              *)
Abort ==
  /\ ~eof /\ busy # Idle /\ conn # passive /\ phase # "connect"
  /\ busy' = Idle
  /\ in' = Append(in, Reply(EndOf(busy), FALSE, 0))
  /\ UNCHANGED <<client, out, server, world, late>>

ServerCloses ==
  /\ ~eof /\ sock /\ step \notin Ends
  /\ eof' = TRUE /\ out' = <<>> /\ busy' = Idle /\ passive' = 0
  /\ UNCHANGED <<client, in, ports, world, late>>

-----------------------------------------------------------------------------
Client == \/ Send \/ SendFails \/ Connect \/ ConnectFails \/ ReadListing \/ Load \/ Timeout
          \/ \E k \in DOMAIN in : Understand(k) \/ GetError(k)

Server == Serve \/ Refuse \/ Listed \/ Abort

Next == Client \/ Server \/ ServerCloses

Spec == Init /\ [][Next]_vars

(* The client's loop runs, and the server answers what it is sent.         *)
FairSpec == Spec /\ WF_vars(Client) /\ WF_vars(Server)

-----------------------------------------------------------------------------
(* Properties. *)

(* The state of each variable. *)
TypeOK ==
  /\ dirs \subseteq Paths /\ files \subseteq dirs /\ {firewall, keepsPort} \subseteq BOOLEAN
  /\ step \in Asking \union {"listing", "load"} \union Ends
  /\ phase \in {"send", "connect", "wait"} /\ path \in Paths
  /\ {sock, eof} \subseteq BOOLEAN
  /\ {port, conn, passive} \subseteq 0 .. ports /\ ports \in 0 .. 4
  /\ image \in Paths \union {"none"}
  /\ \A i \in DOMAIN out : out[i].cmd \in Asking /\ out[i].path \in Paths
  /\ \A i \in DOMAIN in : in[i].to \in Asking /\ in[i].path \in Paths /\ in[i].port \in 0 .. ports
  /\ busy.cmd \in {"none", "list", "retr"} /\ busy.path \in Paths
  /\ late \in 0 .. MaxLate

(* The image that is loaded is the one of the path that ftp_prepare tells  *)
(* stage2 (PREFIX, with the architecture or not), whatever came late, was  *)
(* refused or did not get through.                                         *)
LoadedIsTold == step \in {"final", "got"} => image = path /\ image \in files

(* As long as the server answers in time and its connections last, the    *)
(* next reply is the answer to the command the client waits for: none is   *)
(* left behind by a step that failed, none is waited for twice.            *)
InStep ==
  late = 0 /\ ~eof /\ ~firewall /\ keepsPort /\ phase = "wait" /\ sock /\ in # <<>>
    => in[1].to = step /\ in[1].path = path

(* To ftp_prepare an attempt is what module Fetch says of the download:    *)
(* the directory, then its subdirectory, until the server consents to one; *)
(* then the image is loaded from there and stage2 told of that place, or   *)
(* the attempt has failed.                                                 *)
Place(p) == [proto |-> "ftp", host |-> "site", arch |-> p = "arch", login |-> TRUE,
             proxied |-> FALSE, apart |-> TRUE]
Nowhere  == [proto |-> "ftp", host |-> "", arch |-> FALSE, login |-> FALSE, proxied |-> FALSE,
             apart |-> FALSE]

At ==
  CASE step \in {"final", "got"} -> "done"
    [] step = "load"             -> "load"
    [] step = "failed"           -> "medium"
    [] step = "unloaded"         -> "method"
    [] OTHER                     -> IF path = "plain" THEN "get" ELSE "get arch"

Fetching ==
  INSTANCE Fetch WITH
    images <- {<<"ftp", "site", p = "arch">> : p \in files},
    auto   <- At \notin {"medium", "method"},
    fedup  <- FALSE, method <- "ftp", proxy <- "blank", via <- FALSE,
    host   <- "site", slash <- TRUE, login <- TRUE,
    pc     <- At,
    got    <- CASE At = "load" -> Place(path) [] At = "done" -> Place(image) [] OTHER -> Nowhere,
    told   <- IF At = "done" THEN Place(path) ELSE Nowhere

ImplementsFetch == At = "get" /\ [][Fetching!Download]_(Fetching!vars)

(* The attempt ends: there is an image or a message, whatever is refused,  *)
(* lost or late.  Once the server has closed the connection it may not:    *)
(* the read of 0 bytes does not end the loop that waits for a reply.       *)
AttemptEnds == step = "greet" ~> step \in Ends \/ eof
=============================================================================
