----------------------------- MODULE Dhcp_proofs -----------------------------
(***************************************************************************)
(* For any machines, servers and pools, and any number of messages that    *)
(* are late, lost or received twice: what is proved of module Dhcp.        *)
(*                                                                         *)
(* The argument is about the messages sent.  An ACK exists only for the    *)
(* machine its address is given to, and an address that is given stays     *)
(* with its machine.  A machine's ids never decrease, so that the ACKs     *)
(* with the id of its REQUEST are those to this REQUEST.                   *)
(***************************************************************************)
EXTENDS Dhcp, TLAPS

Sources == [server : Servers \union {NoOne}, addr : Addrs \union {NoOne}]

(* What is sent is a message.                                              *)
LEMMA MsgType ==
  ASSUME NEW t \in {"DISCOVER", "REQUEST", "OFFER", "ACK", "NAK"}, NEW n \in Nat,
         NEW c \in Clients, NEW q \in Sources
  PROVE  /\ Msg(t, n, c, q) \in Requests \union Replies
         /\ Msg(t, n, c, q).type = t /\ Msg(t, n, c, q).id = n /\ Msg(t, n, c, q).hw = c
         /\ Msg(t, n, c, q).server = q.server /\ Msg(t, n, c, q).addr = q.addr
  BY DEF Msg, Sources, Requests, Replies

(* What a message is made of.                                              *)
LEMMA MsgParts ==
  ASSUME NEW m \in Requests \union Replies
  PROVE  /\ m.id \in Nat /\ m.hw \in Clients
         /\ m.server \in Servers \union {NoOne} /\ m.addr \in Addrs \union {NoOne}
         /\ [server |-> m.server, addr |-> m.addr] \in Sources
  BY DEF Sources, Requests, Replies

(* What a machine sends again.                                             *)
LEMMA RequestType ==
  ASSUME TypeOK, NEW c \in Clients
  PROVE  /\ Request(c) \in Requests \union Replies
         /\ Request(c).hw = c /\ Request(c).id = id[c]
         /\ Request(c).type = IF pc[c] = "discover" THEN "DISCOVER" ELSE "REQUEST"
         /\ pc[c] # "discover" => /\ Request(c).server = asked[c].server
                                  /\ Request(c).addr = asked[c].addr
<1>1. Unasked \in Sources /\ asked[c] \in Sources /\ id[c] \in Nat
  BY DEF TypeOK, Sources, Unasked
<1> QED
  BY <1>1, MsgType DEF Request

(* What a server answers.                                                  *)
LEMMA AnswerType ==
  ASSUME TypeOK, NEW s \in Servers, NEW m \in net, NEW t \in {"OFFER", "ACK", "NAK"},
         NEW a \in Addrs \union {NoOne}, Answer(s, m, t, a)
  PROVE  \E r \in Requests \union Replies :
           /\ net' = net \union {r}
           /\ r.type = t /\ r.id = m.id /\ r.hw = m.hw /\ r.addr = a
           /\ r.server = s
<1> DEFINE q == [server |-> s, addr |-> a]
<1>1. q \in Sources /\ q.addr = a /\ q.server = s
  BY DEF Sources
<1>2. m.id \in Nat /\ m.hw \in Clients
  BY MsgParts DEF TypeOK
<1> HIDE DEF q
<1>3. net' = net \union {Msg(t, m.id, m.hw, q)}
  BY DEF Answer, q
<1> QED
  BY <1>1, <1>2, <1>3, MsgType

-----------------------------------------------------------------------------
(* Every step of a machine keeps the type invariant.                       *)
LEMMA TypeMachine ==
  ASSUME TypeOK, NEW c \in Clients,
         Discover(c) \/ CannotBegin(c) \/ Waits(c) \/ Reboot(c) \/ \E m \in net : Receives(c, m)
  PROVE  TypeOK'
<1> USE BoundsAssumption DEF Sources
<1>1. Unasked \in Sources
  BY DEF Unasked
<1>2. CASE Discover(c)
  <2>1. Msg("DISCOVER", now, c, Unasked) \in Requests \union Replies
    BY <1>1, MsgType DEF TypeOK
  <2> QED
    BY <1>1, <1>2, <2>1 DEF Discover, Begins, TypeOK
<1>3. CASE CannotBegin(c)
  BY <1>1, <1>3 DEF CannotBegin, Begins, TypeOK
<1>4. CASE BreaksOff(c) \/ GiveUp(c)
  BY <1>4 DEF BreaksOff, GiveUp, Fail, TypeOK
<1>5. CASE SendAgain(c)
  <2>1. tries[c] + 1 \in 0 .. MaxTries
    BY <1>5 DEF SendAgain, TypeOK
  <2> QED
    BY <1>5, <2>1, RequestType DEF SendAgain, TypeOK
<1>6. CASE Reboot(c)
  BY <1>1, <1>6 DEF Reboot, TypeOK
<1>7. ASSUME NEW m \in net, GetsOffer(c, m) PROVE TypeOK'
  <2>1. [server |-> m.server, addr |-> m.addr] \in Sources
    BY MsgParts DEF TypeOK
  <2>2. Msg("REQUEST", now, c, [server |-> m.server, addr |-> m.addr]) \in Requests \union Replies
    BY <2>1, MsgType DEF TypeOK
  <2> QED
    BY <1>7, <2>1, <2>2 DEF GetsOffer, TypeOK
<1>8. ASSUME NEW m \in net, GetsAck(c, m) PROVE TypeOK'
  <2>1. [server |-> m.server, addr |-> m.addr] \in Sources
    BY MsgParts DEF TypeOK
  <2> QED
    BY <1>8, <2>1 DEF GetsAck, TypeOK
<1>9. ASSUME NEW m \in net, AckWithoutLease(c, m) PROVE TypeOK'
  BY <1>9 DEF AckWithoutLease, TypeOK
<1> QED
  BY <1>2, <1>3, <1>4, <1>5, <1>6, <1>7, <1>8, <1>9 DEF Waits, Receives

(* Every step keeps the type invariant.                                    *)
LEMMA TypeStep == TypeOK /\ [Next]_vars => TypeOK'
<1> SUFFICES ASSUME TypeOK, [Next]_vars PROVE TypeOK'
  OBVIOUS
<1>1. CASE Tick
  BY <1>1 DEF Tick, TypeOK, client
<1>2. CASE Noise
  BY <1>2 DEF Noise, TypeOK, client
<1>3. ASSUME NEW c \in Clients,
             Discover(c) \/ CannotBegin(c) \/ Waits(c) \/ Reboot(c) \/ \E m \in net : Receives(c, m)
      PROVE  TypeOK'
  BY <1>3, TypeMachine
<1>4. ASSUME NEW s \in Servers, NEW m \in net, NEW a \in Addrs, Offer(s, m, a) PROVE TypeOK'
  BY <1>4, AnswerType DEF Offer, TypeOK, client
<1>5. ASSUME NEW s \in Servers, NEW m \in net, Grant(s, m) PROVE TypeOK'
  <2>1. m.hw \in Clients /\ m.addr \in Addrs \union {NoOne}
    BY MsgParts DEF TypeOK
  <2>2. holder' \in [Addrs -> Clients \union {NoOne}]
    BY <1>5, <2>1 DEF Grant, TypeOK
  <2>3. net' \subseteq Requests \union Replies
    BY <1>5, <2>1, AnswerType DEF Grant, TypeOK
  <2> QED
    BY <1>5, <2>2, <2>3 DEF Grant, TypeOK, client
<1>6. ASSUME NEW s \in Servers, NEW m \in net, Refuse(s, m) PROVE TypeOK'
  <2>1. m.addr \in Addrs \union {NoOne}
    BY MsgParts DEF TypeOK
  <2> QED
    BY <1>6, <2>1, AnswerType DEF Refuse, TypeOK, client
<1>7. CASE UNCHANGED vars
  BY <1>7 DEF vars, client, TypeOK
<1> QED
  BY <1>1, <1>2, <1>3, <1>4, <1>5, <1>6, <1>7 DEF Next, Serves

(* Init establishes it.                                                    *)
LEMMA InitType == Init => TypeOK
<1> SUFFICES ASSUME Init PROVE TypeOK
  OBVIOUS
<1>1. Unasked \in Sources /\ 0 \in 0 .. MaxTries
  BY BoundsAssumption DEF Unasked, Sources
<1> QED
  BY <1>1, BoundsAssumption DEF Init, TypeOK, Sources

(* The variables of every reachable state have their types.                *)
THEOREM TypeCorrect == Spec => []TypeOK
  BY InitType, TypeStep, PTL DEF Spec

-----------------------------------------------------------------------------
(* What is offered, asked for and granted are addresses, asked of servers. *)
Addressed ==
  /\ \A m \in net : m.type \in {"OFFER", "ACK"} => m.addr \in Addrs /\ m.server \in Servers
  /\ \A m \in net : m.type = "REQUEST" => m.addr \in Addrs /\ m.server \in Servers
  /\ \A c \in Clients : pc[c] = "request" => asked[c].addr \in Addrs /\ asked[c].server \in Servers

(* An address that is granted, or in use, is given to its machine.         *)
Granted ==
  /\ \A m \in net : m.type = "ACK" => holder[m.addr] = m.hw
  /\ \A c \in Clients : Bound(c) => lease[c].addr \in Addrs /\ holder[lease[c].addr] = c

(* Every step of a machine keeps both.                                     *)
LEMMA GrantedMachine ==
  ASSUME TypeOK, Addressed, Granted, NEW c \in Clients,
         Discover(c) \/ CannotBegin(c) \/ Waits(c) \/ Reboot(c) \/ \E m \in net : Receives(c, m)
  PROVE  Addressed' /\ Granted'
<1>1. Unasked \in Sources
  BY DEF Unasked, Sources
<1>2. CASE Discover(c)
  <2>1. Msg("DISCOVER", now, c, Unasked).type = "DISCOVER"
    BY DEF Msg
  <2> QED
    BY <1>2, <2>1 DEF Discover, Begins, Addressed, Granted, Bound, TypeOK
<1>3. CASE CannotBegin(c)
  BY <1>3 DEF CannotBegin, Begins, Addressed, Granted, Bound, TypeOK
<1>4. CASE BreaksOff(c) \/ GiveUp(c)
  BY <1>4 DEF BreaksOff, GiveUp, Fail, Addressed, Granted, Bound, TypeOK
<1>5. CASE SendAgain(c)
  <2>1. PICK r \in Requests \union Replies :
          /\ net' = net \union {r} /\ r.type \in {"DISCOVER", "REQUEST"}
          /\ r.type = "REQUEST" => r.server = asked[c].server /\ r.addr = asked[c].addr
                                   /\ pc[c] = "request"
    BY <1>5, RequestType DEF SendAgain, Transacting
  <2> QED
    BY <1>5, <2>1 DEF SendAgain, Addressed, Granted, Bound, TypeOK
<1>6. CASE Reboot(c)
  BY <1>6 DEF Reboot, Addressed, Granted, Bound, TypeOK
<1>7. ASSUME NEW m \in net, GetsOffer(c, m) PROVE Addressed' /\ Granted'
  <2>1. m.addr \in Addrs /\ m.server \in Servers
    BY <1>7, MsgParts DEF GetsOffer, Accepts, Addressed, TypeOK
  <2>2. PICK q \in Sources : q = [server |-> m.server, addr |-> m.addr]
    BY <2>1 DEF Sources
  <2>3. PICK r \in Requests \union Replies :
          net' = net \union {r} /\ r.type = "REQUEST" /\ r.addr = m.addr /\ r.server = m.server
    BY <1>7, <2>2, MsgType DEF GetsOffer, TypeOK
  <2> QED
    BY <1>7, <2>1, <2>3 DEF GetsOffer, Addressed, Granted, Bound, TypeOK
<1>8. ASSUME NEW m \in net, GetsAck(c, m) PROVE Addressed' /\ Granted'
  <2>1. m.addr \in Addrs /\ holder[m.addr] = c
    BY <1>8 DEF GetsAck, Accepts, Addressed, Granted
  <2> QED
    BY <1>8, <2>1 DEF GetsAck, Addressed, Granted, Bound, TypeOK
<1>9. ASSUME NEW m \in net, AckWithoutLease(c, m) PROVE Addressed' /\ Granted'
  BY <1>9 DEF AckWithoutLease, Addressed, Granted, Bound, TypeOK
<1> QED
  BY <1>2, <1>3, <1>4, <1>5, <1>6, <1>7, <1>8, <1>9 DEF Waits, Receives

(* Every step of a server keeps both.                                      *)
LEMMA GrantedServer ==
  ASSUME TypeOK, Addressed, Granted, NEW s \in Servers, NEW m \in net, Serves(s, m)
  PROVE  Addressed' /\ Granted'
<1>1. ASSUME NEW a \in Addrs, Offer(s, m, a) PROVE Addressed' /\ Granted'
  <2>1. PICK r : net' = net \union {r} /\ r.type = "OFFER" /\ r.addr = a /\ r.server = s
    BY <1>1, AnswerType DEF Offer
  <2> QED
    BY <1>1, <2>1 DEF Offer, Addressed, Granted, Bound, client
<1>2. CASE Grant(s, m)
  <2>1. m.addr \in Addrs /\ m.hw \in Clients
    BY <1>2, MsgParts DEF Grant, Addressed, TypeOK
  <2>2. PICK r : /\ net' = net \union {r} /\ r.type = "ACK"
                 /\ r.hw = m.hw /\ r.addr = m.addr /\ r.server = s
    BY <1>2, <2>1, AnswerType DEF Grant
  <2>3. holder'[m.addr] = m.hw
    BY <1>2, <2>1 DEF Grant, TypeOK
  <2>4. \A b \in Addrs : holder[b] \in Clients => holder'[b] = holder[b]
    BY <1>2, <2>1, ServersAssumption DEF Grant, MayHave, TypeOK
  <2>5. Addressed'
    BY <1>2, <2>1, <2>2 DEF Grant, Addressed, client
  <2>6. ASSUME NEW n \in net', n.type = "ACK" PROVE holder'[n.addr] = n.hw
    <3>1. CASE n \in net
      <4>1. n.addr \in Addrs /\ n.hw \in Clients /\ holder[n.addr] = n.hw
        BY <2>6, <3>1, MsgParts DEF Addressed, Granted, TypeOK
      <4> QED
        BY <2>4, <4>1
    <3> QED
      BY <2>2, <2>3, <3>1
  <2>7. Granted'
    BY <1>2, <2>4, <2>6 DEF Grant, Granted, Bound, client
  <2> QED
    BY <2>5, <2>7
<1>3. CASE Refuse(s, m)
  <2>1. m.addr \in Addrs \union {NoOne}
    BY MsgParts DEF TypeOK
  <2>2. PICK r : net' = net \union {r} /\ r.type = "NAK"
    BY <1>3, <2>1, AnswerType DEF Refuse
  <2> QED
    BY <1>3, <2>2 DEF Refuse, Addressed, Granted, Bound, client
<1> QED
  BY <1>1, <1>2, <1>3 DEF Serves

(* Every step keeps both.                                                  *)
LEMMA GrantedStep == TypeOK /\ Addressed /\ Granted /\ [Next]_vars => Addressed' /\ Granted'
<1> SUFFICES ASSUME TypeOK, Addressed, Granted, [Next]_vars PROVE Addressed' /\ Granted'
  OBVIOUS
<1>1. CASE Tick \/ Noise \/ UNCHANGED vars
  BY <1>1 DEF Tick, Noise, vars, client, Addressed, Granted, Bound
<1> QED
  BY <1>1, GrantedMachine, GrantedServer DEF Next

-----------------------------------------------------------------------------
(* Two machines never use the same address, whatever comes late or twice.  *)
THEOREM NoSharedAddressHolds == Spec => []NoSharedAddress
<1>1. Init => TypeOK /\ Addressed /\ Granted
  BY InitType DEF Init, Addressed, Granted, Bound
<1>2. TypeOK /\ Addressed /\ Granted /\ [Next]_vars => (TypeOK /\ Addressed /\ Granted)'
  BY TypeStep, GrantedStep
<1>3. Granted => NoSharedAddress
  BY DEF Granted, NoSharedAddress
<1> QED
  BY <1>1, <1>2, <1>3, PTL DEF Spec

-----------------------------------------------------------------------------
(* Messages about a request and its grant.                                 *)
Granting(m) == m.type \in {"REQUEST", "ACK"}

(* No id is ahead of the clock, no message ahead of its machine; what is   *)
(* granted with the id of a REQUEST is what the REQUEST was for.           *)
Current ==
  /\ \A c \in Clients : id[c] <= now
  /\ \A m \in net : m.id <= id[m.hw]
  /\ \A m \in net : Granting(m) /\ pc[m.hw] = "discover" => m.id < id[m.hw]
  /\ \A m \in net : Granting(m) /\ pc[m.hw] = "request" /\ m.id = id[m.hw]
                     => m.server = asked[m.hw].server /\ m.addr = asked[m.hw].addr

(* Every step of a machine keeps it, and the answers.                      *)
LEMMA CurrentMachine ==
  ASSUME TypeOK, Current, AckAnswersRequest, NEW c \in Clients,
         Discover(c) \/ CannotBegin(c) \/ Waits(c) \/ Reboot(c) \/ \E m \in net : Receives(c, m)
  PROVE  Current' /\ AckAnswersRequest'
<1>1. \A m \in net : m.hw \in Clients /\ m.id \in Nat
  BY MsgParts DEF TypeOK
<1>2. CASE Discover(c)
  <2>1. PICK r : /\ net' = net \union {r} /\ r.type = "DISCOVER"
                 /\ r.id = now /\ r.hw = c
    <3>1. Unasked \in Sources /\ now \in Nat
      BY DEF Unasked, Sources, TypeOK
    <3> QED
      BY <1>2, <3>1, MsgType DEF Discover
  <2> QED
    BY <1>1, <1>2, <2>1
    DEF Discover, Begins, Transacting, Current, Granting, AckAnswersRequest, Bound, TypeOK
<1>3. CASE CannotBegin(c)
  BY <1>1, <1>3 DEF CannotBegin, Begins, Current, Granting, AckAnswersRequest, Bound, TypeOK
<1>4. CASE BreaksOff(c) \/ GiveUp(c)
  BY <1>1, <1>4 DEF BreaksOff, GiveUp, Fail, Current, Granting, AckAnswersRequest, Bound, TypeOK
<1>5. CASE SendAgain(c)
  <2>1. PICK r \in Requests \union Replies :
          /\ net' = net \union {r} /\ r.hw = c /\ r.id = id[c]
          /\ r.type = IF pc[c] = "discover" THEN "DISCOVER" ELSE "REQUEST"
          /\ pc[c] # "discover" => r.server = asked[c].server /\ r.addr = asked[c].addr
    BY <1>5, RequestType DEF SendAgain
  <2>2. id[c] <= now /\ id[c] \in Nat
    BY DEF Current, TypeOK
  <2> QED
    BY <1>1, <1>5, <2>1, <2>2
    DEF SendAgain, Current, Granting, AckAnswersRequest, Bound, Transacting, TypeOK
<1>6. CASE Reboot(c)
  BY <1>1, <1>6 DEF Reboot, Current, Granting, AckAnswersRequest, Bound, TypeOK
<1>7. ASSUME NEW m \in net, GetsOffer(c, m) PROVE Current' /\ AckAnswersRequest'
  <2>1. PICK q \in Sources : q = [server |-> m.server, addr |-> m.addr]
    BY MsgParts DEF TypeOK
  <2>2. PICK r \in Requests \union Replies :
          /\ net' = net \union {r} /\ r.type = "REQUEST" /\ r.id = now /\ r.hw = c
          /\ r.addr = m.addr /\ r.server = m.server
    BY <1>7, <2>1, MsgType DEF GetsOffer, TypeOK
  <2>3. \A n \in net : n.hw = c => n.id <= now /\ (Granting(n) => n.id < now)
    BY <1>1, <1>7 DEF GetsOffer, Current, TypeOK
  <2>4. asked'[c].server = m.server /\ asked'[c].addr = m.addr
    BY <1>7 DEF GetsOffer, TypeOK
  <2> QED
    BY <1>1, <1>7, <2>2, <2>3, <2>4
    DEF GetsOffer, Current, Granting, AckAnswersRequest, Bound, TypeOK
<1>8. ASSUME NEW m \in net, GetsAck(c, m) PROVE Current' /\ AckAnswersRequest'
  <2>1. m.server = asked[c].server /\ m.addr = asked[c].addr
    BY <1>8 DEF GetsAck, Accepts, Current, Granting
  <2>2. lease'[c] = asked[c]
    <3>1. asked[c] \in Sources
      BY DEF TypeOK, Sources
    <3>2. asked[c] = [server |-> asked[c].server, addr |-> asked[c].addr]
      BY <3>1 DEF Sources
    <3> QED
      BY <1>8, <2>1, <3>2 DEF GetsAck, TypeOK
  <2> QED
    BY <1>1, <1>8, <2>2 DEF GetsAck, Current, Granting, AckAnswersRequest, Bound, TypeOK
<1>9. ASSUME NEW m \in net, AckWithoutLease(c, m) PROVE Current' /\ AckAnswersRequest'
  BY <1>1, <1>9 DEF AckWithoutLease, Current, Granting, AckAnswersRequest, Bound, TypeOK
<1> QED
  BY <1>2, <1>3, <1>4, <1>5, <1>6, <1>7, <1>8, <1>9 DEF Waits, Receives

(* Every step of a server keeps it: an ACK repeats its REQUEST.            *)
LEMMA CurrentServer ==
  ASSUME TypeOK, Current, AckAnswersRequest, NEW s \in Servers, NEW m \in net, Serves(s, m)
  PROVE  Current' /\ AckAnswersRequest'
<1>1. PICK r : /\ net' = net \union {r} /\ r.hw = m.hw /\ r.id = m.id
               /\ Granting(r) => Granting(m) /\ r.server = m.server /\ r.addr = m.addr
  <2>1. ASSUME NEW a \in Addrs, Offer(s, m, a) PROVE
          \E r : net' = net \union {r} /\ r.hw = m.hw /\ r.id = m.id /\ ~Granting(r)
    BY <2>1, AnswerType DEF Offer, Granting
  <2>2. m.addr \in Addrs \union {NoOne}
    BY MsgParts DEF TypeOK
  <2>3. ASSUME Grant(s, m) PROVE
          \E r : /\ net' = net \union {r} /\ r.hw = m.hw /\ r.id = m.id
                 /\ Granting(m) /\ r.server = m.server /\ r.addr = m.addr
    BY <2>2, <2>3, AnswerType DEF Grant, Granting
  <2>4. ASSUME Refuse(s, m) PROVE
          \E r : net' = net \union {r} /\ r.hw = m.hw /\ r.id = m.id /\ ~Granting(r)
    BY <2>2, <2>4, AnswerType DEF Refuse, Granting
  <2> QED
    BY <2>1, <2>3, <2>4 DEF Serves
<1>2. UNCHANGED <<now, client>>
  BY DEF Serves, Offer, Grant, Refuse
<1> QED
  BY <1>1, <1>2 DEF Current, AckAnswersRequest, Bound, client, Granting

(* Every step keeps it.                                                    *)
LEMMA CurrentStep ==
  TypeOK /\ Current /\ AckAnswersRequest /\ [Next]_vars => Current' /\ AckAnswersRequest'
<1> SUFFICES ASSUME TypeOK, Current, AckAnswersRequest, [Next]_vars
             PROVE  Current' /\ AckAnswersRequest'
  OBVIOUS
<1>1. CASE Tick
  BY <1>1 DEF Tick, client, Current, Granting, AckAnswersRequest, Bound, TypeOK
<1>2. CASE Noise \/ UNCHANGED vars
  BY <1>2 DEF Noise, vars, client, Current, Granting, AckAnswersRequest, Bound
<1> QED
  BY <1>1, <1>2, CurrentMachine, CurrentServer DEF Next

(* The answer a machine is configured with is the one to its last REQUEST, *)
(* though neither the server nor the address of an answer is compared.     *)
THEOREM AckAnswersRequestHolds == Spec => []AckAnswersRequest
<1>1. Init => TypeOK /\ Current /\ AckAnswersRequest
  BY InitType DEF Init, Current, AckAnswersRequest, Bound
<1>2. TypeOK /\ Current /\ AckAnswersRequest /\ [Next]_vars
        => (TypeOK /\ Current /\ AckAnswersRequest)'
  BY TypeStep, CurrentStep
<1> QED
  BY <1>1, <1>2, PTL DEF Spec

-----------------------------------------------------------------------------
(* What LeaseTable's `uses' stands for.                                    *)
Uses == [c \in Clients |-> IF Bound(c) THEN lease[c].addr ELSE NoOne]

(* A machine that changes whether it uses an address, alone.               *)
LEMMA UsesChange ==
  ASSUME NEW c \in Clients, NEW a,
         \A d \in Clients \ {c} : pc'[d] = pc[d] /\ lease'[d] = lease[d],
         (IF Bound(c) THEN lease[c].addr ELSE NoOne)' = a
  PROVE  Uses' = [Uses EXCEPT ![c] = a]
<1>1. \A d \in Clients : Uses'[d] = [Uses EXCEPT ![c] = a][d]
  BY DEF Uses, Bound
<1> QED
  BY <1>1 DEF Uses

(* A step of a machine that takes no ACK gives its address up, or nothing. *)
LEMMA StopOrStutter ==
  ASSUME NEW c \in Clients, UNCHANGED holder,
         \A d \in Clients \ {c} : pc'[d] = pc[d] /\ lease'[d] = lease[d],
         ~Bound(c)'
  PROVE  Table!Stop(c) \/ UNCHANGED <<holder, Uses>>
<1>1. Uses' = [Uses EXCEPT ![c] = NoOne]
  BY UsesChange
<1>2. Uses = [d \in Clients |-> IF Bound(d) THEN lease[d].addr ELSE NoOne]
  BY DEF Uses
<1>3. CASE Uses[c] = NoOne
  BY <1>1, <1>2, <1>3
<1>4. CASE Uses[c] # NoOne
  BY <1>1, <1>4 DEF Table!Stop, Uses
<1> QED
  BY <1>3, <1>4

(* Every step of DHCP is a step of the table, or none.                     *)
LEMMA TableStep ==
  TypeOK /\ Addressed /\ Granted /\ [Next]_vars => [Table!LNext]_(Table!lvars)
<1> SUFFICES ASSUME TypeOK, Addressed, Granted, [Next]_vars
             PROVE  [Table!LNext]_(Table!lvars)
  OBVIOUS
<1>0. UNCHANGED <<holder, Uses>> => UNCHANGED Table!lvars
  BY DEF Table!lvars, Uses
<1>1. ASSUME NEW c \in Clients, Table!Stop(c) \/ UNCHANGED <<holder, Uses>>
      PROVE  [Table!LNext]_(Table!lvars)
  BY <1>0, <1>1 DEF Table!LNext
<1>2. ASSUME UNCHANGED <<holder, pc, lease>> PROVE [Table!LNext]_(Table!lvars)
  <2>1. UNCHANGED Uses
    BY <1>2 DEF Uses, Bound
  <2> QED
    BY <1>0, <1>2, <2>1
<1>3. ASSUME NEW c \in Clients,
             Discover(c) \/ CannotBegin(c) \/ BreaksOff(c) \/ GiveUp(c) \/ Reboot(c)
             \/ \E m \in net : GetsOffer(c, m) \/ AckWithoutLease(c, m)
      PROVE  [Table!LNext]_(Table!lvars)
  <2>1. /\ UNCHANGED holder /\ ~Bound(c)'
        /\ \A d \in Clients \ {c} : pc'[d] = pc[d] /\ lease'[d] = lease[d]
    BY <1>3 DEF Discover, CannotBegin, Begins, BreaksOff, GiveUp, Fail, Reboot, GetsOffer,
                AckWithoutLease, Bound, TypeOK
  <2> QED
    BY <1>1, <2>1, StopOrStutter
<1>4. ASSUME NEW c \in Clients, SendAgain(c) PROVE [Table!LNext]_(Table!lvars)
  BY <1>2, <1>4 DEF SendAgain
<1>5. ASSUME NEW c \in Clients, NEW m \in net, GetsAck(c, m) PROVE [Table!LNext]_(Table!lvars)
  <2>1. m.addr \in Addrs /\ holder[m.addr] = c
    BY <1>5 DEF GetsAck, Accepts, Addressed, Granted
  <2>2. /\ UNCHANGED holder /\ ~Bound(c) /\ Bound(c)' /\ lease'[c].addr = m.addr
        /\ \A d \in Clients \ {c} : pc'[d] = pc[d] /\ lease'[d] = lease[d]
    BY <1>5 DEF GetsAck, Bound, TypeOK
  <2>3. Uses' = [Uses EXCEPT ![c] = m.addr]
    BY <2>2, UsesChange
  <2>4. Uses[c] = NoOne
    BY <2>2 DEF Uses
  <2>5. Table!Use(c, m.addr)
    BY <2>1, <2>2, <2>3, <2>4 DEF Table!Use, Uses
  <2> QED
    BY <2>1, <2>5 DEF Table!LNext
<1>6. ASSUME NEW s \in Servers, NEW m \in net, Grant(s, m) PROVE [Table!LNext]_(Table!lvars)
  <2>1. m.addr \in Addrs /\ m.hw \in Clients
    BY <1>6, MsgParts DEF Grant, Addressed, TypeOK
  <2>2. UNCHANGED Uses
    BY <1>6 DEF Grant, client, Uses, Bound
  <2>3. CASE holder[m.addr] = NoOne
    <3>1. Table!Give(m.hw, m.addr)
      BY <1>6, <2>2, <2>3 DEF Grant, Table!Give, Uses
    <3> QED
      BY <2>1, <3>1 DEF Table!LNext
  <2>4. CASE holder[m.addr] = m.hw
    <3>1. holder' = holder
      BY <1>6, <2>1, <2>4 DEF Grant, TypeOK
    <3> QED
      BY <1>0, <2>2, <3>1
  <2> QED
    BY <1>6, <2>3, <2>4 DEF Grant, MayHave
<1>7. ASSUME NEW s \in Servers, NEW m \in net,
             Refuse(s, m) \/ \E a \in Addrs : Offer(s, m, a)
      PROVE  [Table!LNext]_(Table!lvars)
  BY <1>2, <1>7 DEF Refuse, Offer, client
<1>8. CASE Tick \/ Noise \/ UNCHANGED vars
  BY <1>2, <1>8 DEF Tick, Noise, vars, client
<1> QED
  BY <1>3, <1>4, <1>5, <1>6, <1>7, <1>8 DEF Next, Waits, Receives, Serves

(* DrakX's client and any servers that keep their bindings implement the   *)
(* table of leases.                                                        *)
THEOREM ImplementsTableHolds == Spec => ImplementsTable
<1>1. Init => TypeOK /\ Addressed /\ Granted /\ Table!LInit
  <2>1. Init => TypeOK /\ Addressed /\ Granted
    BY InitType DEF Init, Addressed, Granted, Bound
  <2>2. Init => Table!LInit
    BY DEF Init, Table!LInit, Bound
  <2> QED
    BY <2>1, <2>2
<1>2. TypeOK /\ Addressed /\ Granted /\ [Next]_vars => (TypeOK /\ Addressed /\ Granted)'
  BY TypeStep, GrantedStep
<1> QED
  BY <1>1, <1>2, TableStep, PTL DEF Spec, ImplementsTable, Table!LeaseSpec

-----------------------------------------------------------------------------
(* A step that leaves the port and the state of every machine alone.       *)
LEMMA PortSame ==
  ASSUME PortFree, UNCHANGED <<pc, port>>, net \subseteq net'
  PROVE  PortFree'
  BY DEF PortFree, Transacting

(* Every step lets the port go when an attempt ends, but for the return    *)
(* that forgets it; the ACK that led there stays among the messages.       *)
LEMMA PortStep == TypeOK /\ PortFree /\ [Next]_vars => PortFree'
<1> SUFFICES ASSUME TypeOK, PortFree, [Next]_vars PROVE PortFree'
  OBVIOUS
<1>1. CASE Tick \/ Noise \/ UNCHANGED vars
  BY <1>1, PortSame DEF Tick, Noise, vars, client
<1>2. ASSUME NEW s \in Servers, NEW m \in net, Serves(s, m) PROVE PortFree'
  BY <1>2, PortSame DEF Serves, Offer, Grant, Refuse, Answer, client
<1>3. ASSUME NEW c \in Clients, SendAgain(c) PROVE PortFree'
  BY <1>3, PortSame DEF SendAgain
<1>4. ASSUME NEW c \in Clients, Discover(c) PROVE PortFree'
  BY <1>4 DEF Discover, PortFree, Transacting, TypeOK
<1>5. ASSUME NEW c \in Clients, CannotBegin(c) PROVE PortFree'
  BY <1>5 DEF CannotBegin, Begins, PortFree, Transacting, TypeOK
<1>6. ASSUME NEW c \in Clients, BreaksOff(c) \/ GiveUp(c) \/ Reboot(c) PROVE PortFree'
  BY <1>6 DEF BreaksOff, GiveUp, Fail, Reboot, PortFree, Transacting, TypeOK
<1>7. ASSUME NEW c \in Clients, NEW m \in net, GetsOffer(c, m) \/ GetsAck(c, m)
      PROVE  PortFree'
  <2>1. CASE GetsOffer(c, m)
    BY <1>7, <2>1 DEF GetsOffer, PortFree, Transacting, TypeOK
  <2>2. CASE GetsAck(c, m)
    BY <1>7, <2>2 DEF GetsAck, PortFree, Transacting, TypeOK
  <2> QED
    BY <1>7, <2>1, <2>2
<1>8. ASSUME NEW c \in Clients, NEW m \in net, AckWithoutLease(c, m) PROVE PortFree'
  <2>1. /\ m.type = "ACK" /\ m.hw = c /\ m.server \in NoLeaseTime
        /\ UNCHANGED <<net, port>> /\ \A d \in Clients \ {c} : pc'[d] = pc[d]
    BY <1>8 DEF AckWithoutLease, Accepts, TypeOK
  <2> QED
    BY <2>1 DEF PortFree, Transacting
<1> QED
  BY <1>1, <1>2, <1>3, <1>4, <1>5, <1>6, <1>7, <1>8 DEF Next, Waits, Receives

(* No end of an attempt but one keeps the port.                            *)
THEOREM PortFreeHolds == Spec => []PortFree
<1>1. Init => TypeOK /\ PortFree
  BY InitType DEF Init, PortFree
<1>2. TypeOK /\ PortFree /\ [Next]_vars => (TypeOK /\ PortFree)'
  BY TypeStep, PortStep
<1> QED
  BY <1>1, <1>2, PTL DEF Spec

-----------------------------------------------------------------------------
(* The packets that a machine may still send in this attempt: each half of *)
(* it has MaxTries of its own.                                             *)
SendsLeft(c) ==
  CASE pc[c] = "discover" -> 2 * MaxTries - tries[c]
    [] pc[c] = "request"  -> MaxTries - tries[c]
    [] OTHER              -> 0

(* What an attempt of c may do: begin, wait, end, or come nearer to its    *)
(* end.                                                                    *)
Nearer(c) ==
  /\ ~Transacting(c) /\ Transacting(c)' => SendsLeft(c)' = 2 * MaxTries - 1
  /\ Transacting(c) => \/ UNCHANGED <<pc[c], tries[c], id[c]>>
                       \/ ~Transacting(c)'
                       \/ SendsLeft(c)' \in Nat /\ SendsLeft(c)' < SendsLeft(c)

(* A step of somebody else.                                                *)
LEMMA OthersNearer ==
  ASSUME NEW c \in Clients, UNCHANGED <<pc[c], tries[c], id[c]>>
  PROVE  Nearer(c)
  BY DEF Nearer, Transacting

(* A step of the machine.                                                  *)
LEMMA MachineNearer ==
  ASSUME TypeOK, NEW c \in Clients,
         \/ Discover(c) \/ CannotBegin(c) \/ Waits(c) \/ Reboot(c)
         \/ \E m \in net : Receives(c, m)
  PROVE  Nearer(c)
<1>1. MaxTries \in Nat \ {0} /\ tries[c] \in 0 .. MaxTries
  BY BoundsAssumption DEF TypeOK
<1>2. CASE Discover(c)
  <2>1. ~Transacting(c) /\ pc'[c] = "discover" /\ tries'[c] = 1
    BY <1>2 DEF Discover, Begins, TypeOK
  <2> QED
    BY <2>1 DEF Nearer, SendsLeft
<1>3. ASSUME pc'[c] \notin {"discover", "request"} PROVE Nearer(c)
  BY <1>3 DEF Nearer, Transacting
<1>4. CASE CannotBegin(c) \/ BreaksOff(c) \/ GiveUp(c) \/ Reboot(c)
  BY <1>3, <1>4 DEF CannotBegin, BreaksOff, GiveUp, Fail, Reboot, TypeOK
<1>5. CASE SendAgain(c)
  <2>1. /\ Transacting(c) /\ pc' = pc /\ tries'[c] = tries[c] + 1 /\ tries[c] < MaxTries
    BY <1>5 DEF SendAgain, TypeOK
  <2>2. CASE pc[c] = "discover"
    <3>1. SendsLeft(c) = 2 * MaxTries - tries[c] /\ SendsLeft(c)' = 2 * MaxTries - tries'[c]
      BY <2>1, <2>2 DEF SendsLeft
    <3> QED
      BY <1>1, <2>1, <3>1 DEF Nearer
  <2>3. CASE pc[c] = "request"
    <3>1. SendsLeft(c) = MaxTries - tries[c] /\ SendsLeft(c)' = MaxTries - tries'[c]
      BY <2>1, <2>3 DEF SendsLeft
    <3> QED
      BY <1>1, <2>1, <3>1 DEF Nearer
  <2> QED
    BY <2>1, <2>2, <2>3 DEF Transacting
<1>6. ASSUME NEW m \in net, Receives(c, m) PROVE Nearer(c)
  <2>1. CASE GetsOffer(c, m)
    <3>1. pc[c] = "discover" /\ pc'[c] = "request" /\ tries'[c] = 1
      BY <2>1 DEF GetsOffer, TypeOK
    <3>2. SendsLeft(c) = 2 * MaxTries - tries[c] /\ SendsLeft(c)' = MaxTries - 1
      BY <3>1 DEF SendsLeft
    <3>3. SendsLeft(c)' \in Nat /\ SendsLeft(c)' < SendsLeft(c)
      BY <1>1, <3>2
    <3> QED
      BY <3>1, <3>3 DEF Nearer, Transacting
  <2>2. CASE GetsAck(c, m) \/ AckWithoutLease(c, m)
    BY <1>3, <2>2 DEF GetsAck, AckWithoutLease, TypeOK
  <2> QED
    BY <1>6, <2>1, <2>2 DEF Receives
<1> QED
  BY <1>2, <1>4, <1>5, <1>6 DEF Waits

(* What a step of machine c leaves alone.                                  *)
LEMMA OneMachine ==
  ASSUME TypeOK, NEW c \in Clients,
         \/ Discover(c) \/ CannotBegin(c) \/ Waits(c) \/ Reboot(c)
         \/ \E m \in net : Receives(c, m)
  PROVE  \A d \in Clients \ {c} : UNCHANGED <<pc[d], tries[d], id[d]>>
<1>1. CASE Discover(c) \/ CannotBegin(c)
  BY <1>1 DEF Discover, CannotBegin, TypeOK
<1>2. CASE Waits(c)
  BY <1>2 DEF Waits, BreaksOff, SendAgain, GiveUp, Fail, TypeOK
<1>3. CASE Reboot(c)
  BY <1>3 DEF Reboot, TypeOK
<1>4. ASSUME NEW m \in net, Receives(c, m)
      PROVE  \A d \in Clients \ {c} : UNCHANGED <<pc[d], tries[d], id[d]>>
  BY <1>4 DEF Receives, GetsOffer, GetsAck, AckWithoutLease, TypeOK
<1> QED
  BY <1>1, <1>2, <1>3, <1>4

(* An attempt sends no more than 2 * MaxTries packets, whatever comes and  *)
(* is lost: no answer, and no packet of anybody else, gives it any back.   *)
(* So it only waits for a poll that times out, of which it needs finitely  *)
(* many.                                                                   *)
THEOREM AttemptIsBounded == Spec => [][\A c \in Clients : Nearer(c)]_vars
<1>1. ASSUME TypeOK, Next PROVE \A c \in Clients : Nearer(c)
  <2>1. CASE Tick \/ Noise
    BY <2>1, OthersNearer DEF Tick, Noise, client
  <2>2. ASSUME NEW s \in Servers, NEW m \in net, Serves(s, m) PROVE \A c \in Clients : Nearer(c)
    BY <2>2, OthersNearer DEF Serves, Offer, Grant, Refuse, client
  <2>3. ASSUME NEW c \in Clients,
               \/ Discover(c) \/ CannotBegin(c) \/ Waits(c) \/ Reboot(c)
               \/ \E m \in net : Receives(c, m)
        PROVE  \A d \in Clients : Nearer(d)
    <3>1. Nearer(c)
      BY <1>1, <2>3, MachineNearer
    <3>2. \A d \in Clients \ {c} : UNCHANGED <<pc[d], tries[d], id[d]>>
      BY <1>1, <2>3, OneMachine
    <3> QED
      BY <3>1, <3>2, OthersNearer
  <2> QED
    BY <1>1, <2>1, <2>2, <2>3 DEF Next
<1> QED
  BY <1>1, TypeCorrect, PTL DEF Spec
=============================================================================
