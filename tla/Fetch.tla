-------------------------------- MODULE Fetch --------------------------------
(***************************************************************************)
(* How stage1 gets the installer from an FTP or HTTP server and tells      *)
(* stage2 where it comes from: ftp_prepare and http_prepare of             *)
(* mdk-stage1/network.cpp, with the proxy and the list of mirrors.         *)
(*                                                                         *)
(* Module NetUp is how the network gets up, module FtpClient how one       *)
(* attempt on an FTP server goes; here both succeed or fail.               *)
(***************************************************************************)
EXTENDS FiniteSets

Protos  == {"ftp", "http"}
Proxies == {"cancelled", "blank", "host only", "given"}
Hosts   == {"", "site", "mirror"}

(* A place the installer can be at.  `apart': host and directory are       *)
(* separated by a slash.                                                   *)
Urls == [proto : Protos, host : Hosts, arch : BOOLEAN, login : BOOLEAN, proxied : BOOLEAN,
         apart : BOOLEAN]
Nowhere == [proto |-> "ftp", host |-> "", arch |-> FALSE, login |-> FALSE, proxied |-> FALSE,
            apart |-> FALSE]

VARIABLES
  images,  \* <<protocol, host, in the subdirectory>>: where an image is
  auto,    \* IS_AUTOMATIC
  fedup,   \* the user cancels every question from now on
  method,  \* ftp or http
  pc,      \* the question asked, or what is done
  proxy,   \* what was answered about the proxy
  via,     \* use_http_proxy
  host, slash, login,  \* the server, whether the directory begins with a
                       \* slash, whether there is a user name
  got,     \* where the image that is loaded comes from
  told     \* METHOD, HOST, PREFIX, URLPREFIX, PROXY in /tmp/env

answers == <<host, slash, login>>
vars == <<images, auto, fedup, method, pc, proxy, via, answers, got, told>>

Init ==
  /\ images \in SUBSET (Protos \X {"site", "mirror"} \X BOOLEAN)
  /\ auto \in BOOLEAN /\ fedup = FALSE /\ method = "ftp" /\ pc = "method"
  /\ proxy = "blank" /\ via = FALSE
  /\ host = "" /\ slash = FALSE /\ login = FALSE
  /\ got = Nowhere /\ told = Nowhere

-----------------------------------------------------------------------------
(* method_select_and_prepare; there may be too little memory.              *)
SelectMethod(m) ==
  /\ pc = "method" /\ ~fedup
  /\ method' = m
  /\ \/ pc' = "up" /\ auto' = auto
     \/ pc' = "method" /\ auto' = FALSE
  /\ UNCHANGED <<images, fedup, proxy, via, answers, got, told>>

(* intf_select_and_up, after which the automatic mode is left or not: an   *)
(* error message or a fallback leaves it, a failure without a message does *)
(* not.                                                                    *)
Up ==
  /\ pc = "up"
  /\ pc' = "method" \/ (pc' = "proxy" /\ ~fedup)
  /\ auto' \in {auto, FALSE}
  /\ UNCHANGED <<images, fedup, method, proxy, via, answers, got, told>>

(* get_http_proxy: there is no way back from it.  The automatic mode reads *)
(* the keywords, here and below, at most once.                             *)
AskProxy ==
  /\ pc = "proxy"
  /\ proxy' \in Proxies
  /\ auto  => proxy' # "cancelled"
  /\ fedup => proxy' = "cancelled"
  /\ via' = (proxy' = "given")
  /\ pc' = IF auto THEN "server" ELSE "medium"
  /\ UNCHANGED <<images, auto, fedup, method, answers, got, told>>

-----------------------------------------------------------------------------
(* choose_mirror_from_list *)

AskVia == IF method = "ftp" /\ via THEN "via" ELSE "server"

(* A medium is chosen: its list of mirrors comes, or not; or the mirror    *)
(* will be given by hand.                                                  *)
SelectMedium ==
  /\ pc = "medium" /\ ~fedup
  /\ pc' \in {"mirror", AskVia}
  /\ UNCHANGED <<images, auto, fedup, method, proxy, via, answers, got, told>>

CancelMedium ==
  /\ pc = "medium"
  /\ pc' = "up"
  /\ UNCHANGED <<images, auto, fedup, method, proxy, via, answers, got, told>>

SelectMirror ==
  /\ pc = "mirror" /\ ~fedup
  /\ \/ UNCHANGED answers
     \/ host' = "mirror" /\ slash' = TRUE /\ login' = login
  /\ pc' = AskVia
  /\ UNCHANGED <<images, auto, fedup, method, proxy, via, got, told>>

(* Wrong: cancelled, the list is shown again. *)
MirrorAgain ==
  /\ pc = "mirror" /\ fedup
  /\ UNCHANGED vars

(* BACK from the list of mirrors is an error to its caller, which asks for *)
(* the medium again.                                                       *)
CancelMirror ==
  /\ pc = "mirror"
  /\ pc' = "medium"
  /\ UNCHANGED <<images, auto, fedup, method, proxy, via, answers, got, told>>

(* "Do you want to use this HTTP proxy for FTP connections too ?"          *)
UseProxy ==
  /\ pc = "via"
  /\ \/ pc' = "server" /\ via' \in BOOLEAN /\ ~fedup
     \/ pc' = "up" /\ via' = via
  /\ UNCHANGED <<images, auto, fedup, method, proxy, answers, got, told>>

(* Wrong: a server without a name. *)
SelectNobody ==
  /\ pc = "server"
  /\ host' \in {host, "site"} /\ ~fedup
  /\ slash' \in BOOLEAN /\ login' \in {method = "ftp", FALSE}
  /\ pc' = "get"
  /\ UNCHANGED <<images, auto, fedup, method, proxy, via, got, told>>

SelectServer ==
  /\ pc = "server"
  /\ host' \in {host, "site"} /\ ~fedup
  /\ host' # ""
  /\ slash' \in BOOLEAN /\ login' \in {method = "ftp", FALSE}
  /\ pc' = "get"
  /\ UNCHANGED <<images, auto, fedup, method, proxy, via, got, told>>

(* Cancelled, or a keyword without a name: it starts again.                *)
CancelServer ==
  /\ pc = "server"
  /\ auto' = FALSE /\ pc' = "up"
  /\ UNCHANGED <<images, fedup, method, proxy, via, answers, got, told>>

-----------------------------------------------------------------------------
(* The download *)

Url(p, a, l, x) == [proto |-> p, host |-> host, arch |-> a, login |-> l, proxied |-> x,
                    apart |-> TRUE]
There(u) == <<u.proto, u.host, u.arch>> \in images

(* An FTP client that lost its step may take another reply for the         *)
(* server's consent; it then loads nothing.                                *)
Consents(u) == There(u) \/ (method = "ftp" /\ ~via)

(* Through the proxy an FTP directory is got with the user's name, its     *)
(* subdirectory by HTTP and without.  Without a proxy HTTP does not try    *)
(* the subdirectory.                                                       *)
Plain == Url(method, FALSE, login, via)
Arch  == Url(IF via THEN "http" ELSE method, TRUE, login /\ ~via, via)
TriesArch == method = "ftp" \/ via

Get ==
  /\ pc = "get"
  /\ \/ Consents(Plain) /\ got' = Plain /\ pc' = "load"
     \/ pc' = "get arch" /\ got' = got
  /\ UNCHANGED <<images, auto, fedup, method, proxy, via, answers, told>>

GetArch ==
  /\ pc = "get arch" /\ TriesArch /\ Consents(Arch)
  /\ got' = Arch /\ pc' = "load"
  /\ UNCHANGED <<images, auto, fedup, method, proxy, via, answers, told>>

(* An error message, and the medium is asked for again.  An FTP server may *)
(* not even be reached.                                                    *)
GetFails ==
  /\ \/ pc = "get" /\ method = "ftp" /\ ~via
     \/ pc = "get arch"
  /\ auto' = FALSE /\ pc' = "medium"
  /\ UNCHANGED <<images, fedup, method, proxy, via, answers, got, told>>

(* The image is bad, does not fit, or is not there after all.              *)
LoadFails ==
  /\ pc = "load"
  /\ auto' = FALSE /\ pc' = "method" /\ got' = Nowhere
  /\ UNCHANGED <<images, fedup, method, proxy, via, answers, told>>

(* Wrong: what is told does not have the subdirectory. *)
TellNoArch ==
  IF method = "ftp" /\ via
    THEN [proto |-> "ftp", host |-> host, arch |-> got.arch, login |-> login, proxied |-> TRUE,
          apart |-> slash]
    ELSE [proto |-> method, host |-> host, arch |-> FALSE, login |-> login,
          proxied |-> method = "http" /\ proxy \in {"host only", "given"}, apart |-> TRUE]

(* add_to_env: after need_arch, and whether a proxy is known.              *)
Tell ==
  IF method = "ftp" /\ via
    THEN [proto |-> "ftp", host |-> host, arch |-> got.arch, login |-> login, proxied |-> TRUE,
          apart |-> slash]
    ELSE [proto |-> method, host |-> host, arch |-> got.arch, login |-> login,
          proxied |-> method = "http" /\ proxy \in {"host only", "given"}, apart |-> TRUE]

(* http_prepare compares the proxy's name with the empty one, which it     *)
(* does not have when the question was cancelled.                          *)
Load ==
  /\ pc = "load" /\ There(got)
  /\ told' = Tell
  /\ pc' = IF method = "http" /\ proxy = "cancelled" THEN "crashed" ELSE "done"
  /\ UNCHANGED <<images, auto, fedup, method, proxy, via, answers, got>>

FedUp ==
  /\ ~auto /\ pc \in {"up", "proxy", "medium", "mirror", "via", "server"}
  /\ fedup' = TRUE
  /\ UNCHANGED <<images, auto, method, pc, proxy, via, answers, got, told>>

Questions == \/ AskProxy \/ SelectMedium \/ CancelMedium \/ SelectMirror \/ CancelMirror
             \/ UseProxy \/ SelectServer \/ CancelServer
Download  == Get \/ GetArch \/ GetFails \/ Load \/ LoadFails

Next == (\E m \in Protos : SelectMethod(m)) \/ Up \/ Questions \/ Download \/ FedUp

Spec == Init /\ [][Next]_vars

(* The code runs, and a user who does nothing but cancel does it.          *)
AutoMethod == auto /\ \E m \in Protos : SelectMethod(m)
FairSpec == /\ Spec /\ WF_vars(AutoMethod) /\ WF_vars(Up) /\ WF_vars(Download)
            /\ WF_vars((auto \/ fedup) /\ Questions)

-----------------------------------------------------------------------------
(* Properties. *)

(* The state of each variable.  A server that is asked has a name, and an  *)
(* image that is loaded has a place.                                       *)
TypeOK ==
  /\ pc \in {"get", "get arch", "load"} => host # ""
  /\ pc \in {"load", "done"} => got # Nowhere
  /\ {auto, fedup, via, slash, login} \subseteq BOOLEAN
  /\ method \in Protos /\ proxy \in Proxies /\ host \in Hosts
  /\ pc \in {"method", "up", "proxy", "medium", "mirror", "via", "server", "get", "get arch",
             "load", "done", "crashed"}
  /\ got \in Urls /\ told \in Urls

(* Stage2 goes on from the place the image came from: same server, same    *)
(* directory or its subdirectory, same account and proxy, after any series *)
(* of mirrors, servers and failures.  Left out are FTP through a proxy and  *)
(* a proxy without a port: there the code tells another place than it used.*)
ToldIsLoaded ==
  pc = "done" /\ ~(method = "ftp" /\ via) /\ proxy # "host only" => told = got

(* Nobody is led round: who cancels everything gets back to the choice of  *)
(* the method, and once the network is up the automatic mode gets the      *)
(* installer or is left, so that the user chooses.                         *)
LeadsOut ==
  /\ fedup ~> pc \in {"method", "done", "crashed"}
  /\ auto /\ pc \notin {"method", "up"} ~> ~auto \/ pc = "done"
=============================================================================
