-------------------------------- MODULE Dhcp --------------------------------
(***************************************************************************)
(* perform_dhcp of mdk-stage1/dhcp.cpp, run by several machines of one     *)
(* network, and the DHCP servers, which are not part of DrakX.             *)
(*                                                                         *)
(* A machine asks with DISCOVER, takes the first OFFER, asks for that with *)
(* REQUEST and takes the first ACK.  handle_transaction is the same for    *)
(* both halves: it sends, waits for an answer, and sends again.  A message *)
(* in the network may be late, lost (nobody ever receives it) or received  *)
(* twice, and every machine sees the answers to all of them.               *)
(***************************************************************************)
EXTENDS Integers, FiniteSets

CONSTANTS
  Clients,      \* the machines that install, by hardware address
  Servers,
  Addrs,
  Pool,         \* the addresses of each server
  NoOne,
  NoLeaseTime,  \* servers whose ACK has no lease time
  Noisy,        \* other machines of the network send packets all the time
  MaxTries,     \* MAX_ARP_RETRIES
  MaxTicks,     \* bound: ticks of the clock
  MaxAttempts   \* bound: calls of perform_dhcp by each machine

ASSUME ServersAssumption ==
  /\ NoOne \notin Clients \union Addrs \union Servers
  /\ Pool \in [Servers -> SUBSET Addrs]
  /\ \A s, t \in Servers : s # t => Pool[s] \intersect Pool[t] = {}
  /\ NoLeaseTime \subseteq Servers
ASSUME BoundsAssumption ==
  /\ MaxTries \in Nat \ {0} /\ MaxTicks \in Nat /\ MaxAttempts \in [Clients -> Nat]
  /\ Noisy \in BOOLEAN

VARIABLES
  now,       \* currticks()
  busy,      \* packets come more often than the poll times out
  net,       \* the messages sent
  holder,    \* the servers' bindings
  pc,        \* what each machine does: "idle", "discover", "request", "bound"
  id,        \* the id of its last transaction
  tries,     \* retry of handle_transaction
  asked,     \* the server and address of its REQUEST
  lease,     \* those of the ACK it took
  port,      \* a socket of the machine is bound to BOOTP_CLIENT_PORT
  attempts   \* calls of perform_dhcp

client == <<pc, id, tries, asked, lease, port, attempts>>
vars   == <<now, busy, net, holder, client>>

Unasked  == [server |-> NoOne, addr |-> NoOne]
Requests == [type : {"DISCOVER", "REQUEST"}, id : Nat, hw : Clients,
             server : Servers \union {NoOne}, addr : Addrs \union {NoOne}]
Replies  == [type : {"OFFER", "ACK", "NAK"}, id : Nat, hw : Clients,
             server : Servers \union {NoOne}, addr : Addrs \union {NoOne}]

Msg(t, i, c, q) == [type |-> t, id |-> i, hw |-> c, server |-> q.server, addr |-> q.addr]

Transacting(c) == pc[c] \in {"discover", "request"}

(* breq *)
Request(c) == IF pc[c] = "discover" THEN Msg("DISCOVER", id[c], c, Unasked)
                                    ELSE Msg("REQUEST", id[c], c, asked[c])

Init ==
  /\ now = 1 /\ busy = FALSE /\ net = {}
  /\ holder = [a \in Addrs |-> NoOne]
  /\ pc = [c \in Clients |-> "idle"] /\ id = [c \in Clients |-> 0]
  /\ tries = [c \in Clients |-> 0] /\ port = [c \in Clients |-> FALSE]
  /\ asked = [c \in Clients |-> Unasked] /\ lease = [c \in Clients |-> Unasked]
  /\ attempts = [c \in Clients |-> 0]

-----------------------------------------------------------------------------
(* The machine. *)

(* Wrong: the attempt follows the last one at once. *)
BeginsAtOnce(c) ==
  /\ ~Transacting(c) /\ attempts[c] < MaxAttempts[c]
  /\ attempts' = [attempts EXCEPT ![c] = @ + 1]
  /\ lease' = [lease EXCEPT ![c] = Unasked]
  /\ UNCHANGED <<now, busy, holder, asked>>

(* The beginning of perform_dhcp, the first time or again: the interface   *)
(* loses its address.  Its sleep(2) is longer than a tick.                 *)
Begins(c) ==
  /\ ~Transacting(c) /\ attempts[c] < MaxAttempts[c] /\ now > id[c]
  /\ attempts' = [attempts EXCEPT ![c] = @ + 1]
  /\ lease' = [lease EXCEPT ![c] = Unasked]
  /\ UNCHANGED <<now, busy, holder, asked>>

Discover(c) ==
  /\ Begins(c)
  /\ ~port[c]
  /\ pc' = [pc EXCEPT ![c] = "discover"]
  /\ id' = [id EXCEPT ![c] = now]
  /\ tries' = [tries EXCEPT ![c] = 1]
  /\ port' = [port EXCEPT ![c] = TRUE]
  /\ net' = net \union {Msg("DISCOVER", now, c, Unasked)}

(* The interface cannot be set up, or bind finds the port in use. *)
CannotBegin(c) ==
  /\ Begins(c)
  /\ pc' = [pc EXCEPT ![c] = "idle"]
  /\ UNCHANGED <<net, id, tries, port>>

(* Wrong: RETURN_ERROR without close(s). *)
FailKeepsPort(c) ==
  /\ pc' = [pc EXCEPT ![c] = "idle"]
  /\ UNCHANGED <<now, busy, net, holder, id, tries, asked, lease, port, attempts>>

(* RETURN_ERROR, the socket closed. *)
Fail(c) ==
  /\ pc' = [pc EXCEPT ![c] = "idle"]
  /\ port' = [port EXCEPT ![c] = FALSE]
  /\ UNCHANGED <<now, busy, net, holder, id, tries, asked, lease, attempts>>

(* sendto fails, or the OFFER taken does not say whose it is. *)
BreaksOff(c) == Transacting(c) /\ Fail(c)

(* Wrong: the tries are not counted. *)
SendAgainForever(c) ==
  /\ Transacting(c) /\ ~busy /\ tries[c] < MaxTries
  /\ net' = net \union {Request(c)}
  /\ UNCHANGED <<now, busy, holder, pc, id, tries, asked, lease, port, attempts>>

(* Wrong: one try too many. *)
SendAgainOnceMore(c) ==
  /\ Transacting(c) /\ ~busy /\ tries[c] <= MaxTries
  /\ tries' = [tries EXCEPT ![c] = @ + 1]
  /\ net' = net \union {Request(c)}
  /\ UNCHANGED <<now, busy, holder, pc, id, asked, lease, port, attempts>>

(* Nothing was accepted before the poll timed out, or after the last try.  *)
SendAgain(c) ==
  /\ Transacting(c) /\ ~busy /\ tries[c] < MaxTries
  /\ tries' = [tries EXCEPT ![c] = @ + 1]
  /\ net' = net \union {Request(c)}
  /\ UNCHANGED <<now, busy, holder, pc, id, asked, lease, port, attempts>>

GiveUp(c) == Transacting(c) /\ ~busy /\ tries[c] = MaxTries /\ Fail(c)

(* Wrong: the hardware address is not compared. *)
AcceptsAnyones(c, m, type) == m \in Replies /\ m.id = id[c] /\ m.type = type

(* The checks of handle_transaction.  No answer is held against the server *)
(* or the address that was asked for.                                      *)
Accepts(c, m, type) ==
  /\ m \in Replies
  /\ m.id = id[c] /\ m.hw = c /\ m.type = type

GetsOffer(c, m) ==
  /\ pc[c] = "discover" /\ Accepts(c, m, "OFFER")
  /\ pc' = [pc EXCEPT ![c] = "request"]
  /\ id' = [id EXCEPT ![c] = now]
  /\ tries' = [tries EXCEPT ![c] = 1]
  /\ asked' = [asked EXCEPT ![c] = [server |-> m.server, addr |-> m.addr]]
  /\ net' = net \union {Msg("REQUEST", now, c, [server |-> m.server, addr |-> m.addr])}
  /\ UNCHANGED <<now, busy, holder, lease, port, attempts>>

GetsAck(c, m) ==
  /\ pc[c] = "request" /\ Accepts(c, m, "ACK") /\ m.server \notin NoLeaseTime
  /\ pc' = [pc EXCEPT ![c] = "bound"]
  /\ lease' = [lease EXCEPT ![c] = [server |-> m.server, addr |-> m.addr]]
  /\ port' = [port EXCEPT ![c] = FALSE]
  /\ UNCHANGED <<now, busy, net, holder, id, tries, asked, attempts>>

(* RETURN_ERROR, the socket left open. *)
AckWithoutLease(c, m) ==
  /\ pc[c] = "request" /\ Accepts(c, m, "ACK") /\ m.server \in NoLeaseTime
  /\ pc' = [pc EXCEPT ![c] = "idle"]
  /\ UNCHANGED <<now, busy, net, holder, id, tries, asked, lease, port, attempts>>

(* The machine is switched off and on. *)
Reboot(c) ==
  /\ pc[c] # "idle"
  /\ pc' = [pc EXCEPT ![c] = "idle"]
  /\ port' = [port EXCEPT ![c] = FALSE]
  /\ lease' = [lease EXCEPT ![c] = Unasked]
  /\ UNCHANGED <<now, busy, net, holder, id, tries, asked, attempts>>

-----------------------------------------------------------------------------
(* The servers. *)

MayHave(c, a) == holder[a] \in {NoOne, c}

Answer(s, m, type, a) ==
  net' = net \union {Msg(type, m.id, m.hw, [server |-> s, addr |-> a])}

Offer(s, m, a) ==
  /\ m.type = "DISCOVER" /\ a \in Pool[s] /\ MayHave(m.hw, a)
  /\ Answer(s, m, "OFFER", a)
  /\ UNCHANGED <<now, busy, holder, client>>

Grant(s, m) ==
  /\ m.type = "REQUEST" /\ m.server = s /\ MayHave(m.hw, m.addr)
  /\ holder' = [holder EXCEPT ![m.addr] = m.hw]
  /\ Answer(s, m, "ACK", m.addr)
  /\ UNCHANGED <<now, busy, client>>

Refuse(s, m) ==
  /\ m.type = "REQUEST" /\ m.server = s /\ ~MayHave(m.hw, m.addr)
  /\ Answer(s, m, "NAK", m.addr)
  /\ UNCHANGED <<now, busy, holder, client>>

-----------------------------------------------------------------------------
Tick  == /\ now < MaxTicks
         /\ now' = now + 1
         /\ UNCHANGED <<busy, net, holder, client>>

Noise == /\ Noisy
         /\ busy' = ~busy
         /\ UNCHANGED <<now, net, holder, client>>

Waits(c) == BreaksOff(c) \/ SendAgain(c) \/ GiveUp(c)
Receives(c, m) == GetsOffer(c, m) \/ GetsAck(c, m) \/ AckWithoutLease(c, m)
Serves(s, m) == (\E a \in Addrs : Offer(s, m, a)) \/ Grant(s, m) \/ Refuse(s, m)

Next ==
  \/ Tick \/ Noise
  \/ \E c \in Clients : Discover(c) \/ CannotBegin(c) \/ Waits(c) \/ Reboot(c)
  \/ \E c \in Clients, m \in net : Receives(c, m)
  \/ \E s \in Servers, m \in net : Serves(s, m)

Spec == Init /\ [][Next]_vars

(* poll returns when it times out, and what follows is done. *)
FairSpec == Spec /\ \A c \in Clients : WF_vars(SendAgain(c) \/ GiveUp(c))

-----------------------------------------------------------------------------
(* Properties. *)

(* The state of each variable. *)
TypeOK ==
  /\ now \in Nat /\ busy \in BOOLEAN
  /\ net \subseteq Requests \union Replies
  /\ holder \in [Addrs -> Clients \union {NoOne}]
  /\ pc \in [Clients -> {"idle", "discover", "request", "bound"}]
  /\ id \in [Clients -> Nat]
  /\ tries \in [Clients -> 0 .. MaxTries]
  /\ asked \in [Clients -> [server : Servers \union {NoOne}, addr : Addrs \union {NoOne}]]
  /\ lease \in [Clients -> [server : Servers \union {NoOne}, addr : Addrs \union {NoOne}]]
  /\ port \in [Clients -> BOOLEAN] /\ attempts \in [Clients -> Nat]

(* Two machines never have the same address, though each sees the answers  *)
(* to the other and their ids may be the same tick: parse_reply takes the  *)
(* address of whatever handle_transaction accepted.                        *)
Bound(c) == pc[c] = "bound"
NoSharedAddress ==
  \A c, d \in Clients : c # d /\ Bound(c) /\ Bound(d) => lease[c].addr # lease[d].addr

(* The answer that configures the machine is the one to its last REQUEST,  *)
(* though perform_dhcp compares neither the server nor the address, and    *)
(* answers to an earlier attempt, or to the machine before it was switched *)
(* off, may still come.                                                    *)
AckAnswersRequest == \A c \in Clients : Bound(c) => lease[c] = asked[c]

(* A perform_dhcp that ended has let the port go, so that the user can try *)
(* again, but for the one return that forgets it: an ACK without a lease   *)
(* time.                                                                   *)
PortFree ==
  \A c \in Clients : port[c] /\ ~Transacting(c)
    => \E m \in net : m.type = "ACK" /\ m.hw = c /\ m.server \in NoLeaseTime

(* perform_dhcp comes to an end, whatever the servers do, once the network *)
(* is quiet.  While packets of any kind come more often than poll times    *)
(* out it may not: each starts the wait anew.                              *)
AttemptEnds ==
  <>[]~busy => \A c \in Clients : Transacting(c) ~> ~Transacting(c)

(* DrakX and the servers keep what DHCP promises. *)
Table == INSTANCE LeaseTable WITH
  uses <- [c \in Clients |-> IF Bound(c) THEN lease[c].addr ELSE NoOne]
ImplementsTable == Table!LeaseSpec
=============================================================================
