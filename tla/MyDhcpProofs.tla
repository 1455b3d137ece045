---------------------------- MODULE MyDhcpProofs ----------------------------
(***************************************************************************)
(* Type correctness of MyDhcp and the safety of its leases, for any number *)
(* of clients and addresses, any TTL, and any loss, duplication,           *)
(* reordering and crash; then the ring as a first-in first-out pool, which *)
(* is what LeasePool says, and the addresses that renewals name.           *)
(***************************************************************************)
EXTENDS MyDhcp, TLAPS, SequenceTheorems, FiniteSetTheorems, CommonLemmas

-----------------------------------------------------------------------------
(* The bounds are natural numbers, and 0 is in range of every counter.     *)
LEMMA ConstantsTyped ==
  /\ TTL \in Nat /\ TTL >= 1
  /\ MaxLost \in Nat /\ MaxDup \in Nat /\ MaxMissed \in Nat
  /\ RetryLimit \in Nat /\ MaxKills \in Nat
<1>1. TTL \in Nat /\ TTL >= 1
  BY NetAssumption, SMTT(30)
<1>2. MaxLost \in Nat /\ MaxDup \in Nat
  BY NetAssumption, SMTT(30)
<1>3. MaxMissed \in Nat /\ RetryLimit \in Nat
  BY ServerAssumption, SMTT(30)
<1>4. MaxKills \in Nat
  BY ClientAssumption, SMTT(30)
<1> QED
  BY <1>1, <1>2, <1>3, <1>4

LEMMA ZeroTyped ==
  /\ 0 \in 0 .. TTL - 1
  /\ 0 \in 0 .. MaxMissed /\ 0 \in 0 .. RetryLimit /\ 0 \in 0 .. MaxKills
  /\ 0 \in 0 .. MaxLost /\ 0 \in 0 .. MaxDup
<1>1. \A n \in Nat : 0 \in 0 .. n
  OBVIOUS
<1>2. TTL - 1 \in Nat
  BY ConstantsTyped
<1> QED
  BY <1>1, <1>2, ConstantsTyped

(* The network: a step keeps net a bag, and what is in transit after it    *)
(* was in transit before or is one of the datagrams the step sends.        *)
OnlySends(out) ==
  /\ net' \in [Message -> Nat]
  /\ \A m \in Message : net'[m] > 0 => net[m] > 0 \/ m \in out

(* sendto() adds nothing but the datagrams it is given.                    *)
LEMMA SendAdds ==
  ASSUME NetTypeOK, NEW out, Send(out)
  PROVE  OnlySends(out) /\ NetTypeOK'
BY DEF NetTypeOK, Send, OnlySends

(* recvfrom() followed by sendto() adds nothing but the datagrams sent.    *)
LEMMA ReceiveAdds ==
  ASSUME NetTypeOK, NEW m, NEW out, ReceiveAndSend(m, out)
  PROVE  OnlySends(out) /\ NetTypeOK'
<1>1. net \in [Message -> Nat] /\ net[m] > 0
  BY DEF NetTypeOK, ReceiveAndSend, InTransit
<1>2. /\ net' = [x \in Message |-> (IF x = m THEN net[x] - 1 ELSE net[x])
                                   + (IF x \in out THEN 1 ELSE 0)]
      /\ UNCHANGED <<lost, dups>>
  BY DEF ReceiveAndSend
<1>3. \A x \in Message : /\ net'[x] \in Nat
                         /\ net'[x] > 0 => net[x] > 0 \/ x \in out
  BY <1>1, <1>2
<1> QED
  BY <1>2, <1>3 DEF OnlySends, NetTypeOK

(* Loss and duplication add no datagram that was not in transit.           *)
LEMMA FaultAdds ==
  ASSUME NetTypeOK, NEW m \in Message, Lose(m) \/ Duplicate(m)
  PROVE  OnlySends({}) /\ NetTypeOK'
<1>1. net \in [Message -> Nat] /\ net[m] \in Nat \ {0}
  BY DEF NetTypeOK, Lose, Duplicate, InTransit
<1>2. PICK k \in Nat : net' = [net EXCEPT ![m] = k]
  <2>1. CASE Lose(m)
    <3>1. net[m] - 1 \in Nat
      BY <1>1
    <3> QED
      BY <2>1, <3>1 DEF Lose
  <2>2. CASE Duplicate(m)
    <3>1. net[m] + 1 \in Nat
      BY <1>1
    <3> QED
      BY <2>2, <3>1 DEF Duplicate
  <2> QED
    BY <2>1, <2>2
<1>3. OnlySends({})
  BY <1>1, <1>2 DEF OnlySends
<1>4. lost' \in 0 .. MaxLost /\ dups' \in 0 .. MaxDup
  <2>1. lost \in 0 .. MaxLost /\ dups \in 0 .. MaxDup
    BY DEF NetTypeOK
  <2>2. \A j, n \in Nat : j \in 0 .. n /\ j < n => j + 1 \in 0 .. n
    OBVIOUS
  <2>3. lost \in Nat /\ dups \in Nat
    BY <2>1, ConstantsTyped
  <2> QED
    BY <2>1, <2>2, <2>3, ConstantsTyped DEF Lose, Duplicate
<1> QED
  BY <1>3, <1>4 DEF OnlySends, NetTypeOK

-----------------------------------------------------------------------------
(* The ring after remove_and_insert(): the entries behind the one that is  *)
(* moved are one place nearer to the head.                                 *)
LEMMA TailMoved ==
  ASSUME order \in Seq(Addr), NEW i \in DOMAIN order
  PROVE  LET moved == MoveToTail(i)
         IN  /\ moved \in Seq(Addr) /\ Len(moved) = Len(order)
             /\ \A k \in 1 .. Len(order) :
                  moved[k] = IF k < i THEN order[k]
                             ELSE IF k < Len(order) THEN order[k + 1] ELSE order[i]
<1> DEFINE n == Len(order)
           rest == SubSeq(order, 1, i - 1) \o SubSeq(order, i + 1, n)
<1>1. order \in Seq(Addr) /\ n \in Nat /\ i \in 1 .. n
  OBVIOUS
<1>2. /\ rest \in Seq(Addr) /\ Len(rest) = n - 1
      /\ \A k \in 1 .. n - 1 : rest[k] = IF k < i THEN order[k] ELSE order[k + 1]
  BY <1>1, ElementGone
<1>3. MoveToTail(i) = Append(rest, order[i]) /\ order[i] \in Addr
  BY <1>1 DEF MoveToTail, RemoveAt
<1> HIDE DEF n, rest
<1>4. /\ Append(rest, order[i]) \in Seq(Addr)
      /\ Len(Append(rest, order[i])) = Len(rest) + 1
      /\ \A k \in 1 .. Len(rest) : Append(rest, order[i])[k] = rest[k]
      /\ Append(rest, order[i])[Len(rest) + 1] = order[i]
  BY <1>2, <1>3, AppendProperties
<1>5. Len(rest) + 1 = n
  BY <1>1, <1>2
<1>6. ASSUME NEW k \in 1 .. n
      PROVE  MoveToTail(i)[k] = IF k < i THEN order[k]
                                ELSE IF k < n THEN order[k + 1] ELSE order[i]
  <2>1. CASE k < n
    <3>1. k \in 1 .. n - 1
      BY <1>1, <2>1
    <3> QED
      BY <1>2, <1>3, <1>4, <2>1, <3>1
  <2>2. CASE k = n
    <3>1. ~(k < i) /\ ~(k < n)
      BY <1>1, <2>2
    <3> QED
      BY <1>3, <1>4, <1>5, <2>2, <3>1
  <2> QED
    BY <1>1, <2>1, <2>2
<1> QED
  BY <1>3, <1>4, <1>5, <1>6 DEF n

(* A second more in an entry leaves a well-formed entry.                   *)
LEMMA AgedTyped ==
  ASSUME ServerTypeOK, NEW a \in Addr
  PROVE  /\ Aged(a) \in [status : {"DISCOVER_WAIT", "REQUEST_WAIT", "IP_ALLOC"},
                         id     : Client \cup {NoClient},
                         rttl   : 0 .. TTL - 1]
         /\ Aged(a).status = Status(a)
         /\ Aged(a).id = Id(a)
<1>1. client_list[a] \in [status : {"DISCOVER_WAIT", "REQUEST_WAIT", "IP_ALLOC"},
                          id     : Client \cup {NoClient},
                          rttl   : 0 .. TTL - 1]
  BY DEF ServerTypeOK
<1>2. CASE Status(a) # "IP_ALLOC"
  BY <1>1, <1>2 DEF Aged, Status, Id
<1>3. CASE Status(a) = "IP_ALLOC"
  <2>1. client_list[a].rttl \in 0 .. TTL - 1
    BY <1>1
  <2>2. (IF IsDue(a) THEN 0 ELSE client_list[a].rttl + 1) \in 0 .. TTL - 1
    BY <2>1, <1>3, ConstantsTyped DEF IsDue
  <2> QED
    BY <1>1, <1>3, <2>2 DEF Aged, Status, Id
<1> QED
  BY <1>2, <1>3

-----------------------------------------------------------------------------
(* Type correctness.                                                       *)

(* The initial state of the three components is well typed.                *)
LEMMA InitTyped == Init => TypeOK
<1> SUFFICES ASSUME Init PROVE TypeOK
  OBVIOUS
<1>1. NetTypeOK
  BY ZeroTyped DEF Init, NetInit, NetTypeOK
<1>2. ServerTypeOK
  <2>1. order \in Seq(Addr)
    <3>1. Cardinality(Addr) \in Nat
      BY ServerAssumption, FS_CardinalityType
    <3>2. order \in [1 .. Cardinality(Addr) -> Addr]
      BY DEF Init, ServerInit, SetToSeqs
    <3> QED
      BY <3>1, <3>2
  <2> QED
    BY <2>1, ZeroTyped DEF Init, ServerInit, ServerTypeOK
<1>3. ClientTypeOK
  <2> QED
    BY ZeroTyped DEF Init, ClientInit, ClientTypeOK
<1> QED
  BY <1>1, <1>2, <1>3 DEF TypeOK

(* What the server does with a datagram leaves it well typed and sends one *)
(* datagram at most.                                                       *)
LEMMA ReceiveTyped ==
  ASSUME TypeOK, NEW c \in Client, ServerReceive(c)
  PROVE  ServerTypeOK' /\ NetTypeOK'
<1> USE DEF TypeOK
<1> DEFINE Entry == [status : {"DISCOVER_WAIT", "REQUEST_WAIT", "IP_ALLOC"},
                     id : Client \cup {NoClient}, rttl : 0 .. TTL - 1]
<1>0. /\ client_list \in [Addr -> Entry]
      /\ \A i \in DOMAIN order : order[i] \in Addr
  BY DEF ServerTypeOK
<1>1. Returned(c) => /\ skt' \in Client \cup {NoClient}
                     /\ time10' \in 0 .. RetryLimit
                     /\ UNCHANGED <<alrmflag, timeoutflag, up, ranOut>>
  BY ZeroTyped DEF Returned
<1>2. CASE ServerDiscover(c)
  <2>1. PICK i \in DOMAIN order :
          /\ client_list' = [client_list EXCEPT ![order[i]] = OfferedTo(order[i], c)]
          /\ ReceiveAndSend(Discover(c), {Offer(c, order[i])})
    BY <1>2 DEF ServerDiscover
  <2>2. NetTypeOK'
    BY <2>1, ReceiveAdds
  <2>3. OfferedTo(order[i], c) \in Entry
    BY <1>0, <2>1 DEF OfferedTo
  <2>4. client_list' \in [Addr -> Entry]
    BY <1>0, <2>1, <2>3
  <2>5. ServerTypeOK'
    BY <1>1, <1>2, <2>4 DEF ServerDiscover, ServerTypeOK
  <2> QED
    BY <2>2, <2>5
<1>3. CASE ServerStarve(c)
  <2>1. NetTypeOK'
    BY <1>3, ReceiveAdds DEF ServerStarve
  <2> QED
    BY <1>1, <1>3, <2>1 DEF ServerStarve, ServerTypeOK
<1>4. CASE ServerRequest(c)
  <2>1. PICK i \in DOMAIN order :
          /\ client_list' = [client_list EXCEPT ![order[i]] = AckedTo(order[i], c)]
          /\ ReceiveAndSend(Request(c), {Ack(c, order[i])})
    BY <1>4 DEF ServerRequest
  <2>2. NetTypeOK'
    BY <2>1, ReceiveAdds
  <2>3. AckedTo(order[i], c) \in Entry
    BY ZeroTyped DEF AckedTo
  <2>4. client_list' \in [Addr -> Entry]
    BY <1>0, <2>1, <2>3
  <2>5. ServerTypeOK'
    BY <1>1, <1>4, <2>4 DEF ServerRequest, ServerTypeOK
  <2> QED
    BY <2>2, <2>5
<1>5. CASE ServerRelease(c)
  <2>1. PICK i \in DOMAIN order :
          /\ client_list' = [client_list EXCEPT ![order[i]] = Freed(@)]
          /\ order' = MoveToTail(i)
    BY <1>5 DEF ServerRelease
  <2>2. NetTypeOK'
    BY <1>5, ReceiveAdds DEF ServerRelease
  <2>3. order' \in Seq(Addr)
    BY <2>1, TailMoved DEF ServerTypeOK
  <2>4. Freed(client_list[order[i]]) \in Entry
    BY <1>0, <2>1 DEF Freed
  <2>5. client_list' \in [Addr -> Entry]
    BY <1>0, <2>1, <2>4
  <2>6. ServerTypeOK'
    BY <1>1, <1>5, <2>3, <2>5 DEF ServerRelease, ServerTypeOK
  <2> QED
    BY <2>2, <2>6
<1>6. CASE ServerUnknown(c)
  <2>0. PICK m \in {Request(c), Release(c)} : ReceiveAndSend(m, {})
    BY <1>6 DEF ServerUnknown
  <2>1. NetTypeOK'
    BY <2>0, ReceiveAdds
  <2> QED
    BY <1>1, <1>6, <2>1 DEF ServerUnknown, ServerTypeOK
<1> QED
  BY <1>2, <1>3, <1>4, <1>5, <1>6 DEF ServerReceive

(* The alarm, inside select() or outside, leaves the server well typed.    *)
LEMMA AlarmTyped ==
  ASSUME TypeOK, ServerTick \/ AlarmOutsideSelect
  PROVE  ServerTypeOK' /\ NetTypeOK'
<1> USE DEF TypeOK
<1> DEFINE Entry == [status : {"DISCOVER_WAIT", "REQUEST_WAIT", "IP_ALLOC"},
                     id : Client \cup {NoClient}, rttl : 0 .. TTL - 1]
<1>0. /\ \A a \in Addr : client_list[a] \in Entry /\ Aged(a) \in Entry
      /\ \A a \in Addr : Freed(Aged(a)) \in Entry /\ OfferedTo(a, skt) \in Entry
  <2>1. \A a \in Addr : client_list[a] \in Entry /\ Aged(a) \in Entry
    BY AgedTyped DEF ServerTypeOK
  <2>2. \A e \in Entry : [e EXCEPT !.status = "DISCOVER_WAIT", !.id = NoClient] \in Entry
    OBVIOUS
  <2>3. skt \in Client \cup {NoClient}
    BY DEF ServerTypeOK
  <2>4. \A e \in Entry : [e EXCEPT !.status = "REQUEST_WAIT", !.id = skt] \in Entry
    BY <2>3
  <2> QED
    BY <2>1, <2>2, <2>4 DEF Freed, OfferedTo
<1>1. Tick => alrmflag' \in 0 .. MaxMissed /\ skt' \in Client \cup {NoClient}
  BY ZeroTyped DEF Tick, ServerTypeOK
<1>2. UNCHANGED netVars => NetTypeOK'
  BY DEF netVars, NetTypeOK
<1>3. CASE AlarmOutsideSelect
  <2>1. alrmflag' \in 0 .. MaxMissed
    BY <1>3, ServerAssumption DEF AlarmOutsideSelect, ServerTypeOK
  <2> QED
    BY <1>2, <1>3, <2>1 DEF AlarmOutsideSelect, ServerTypeOK
<1>4. CASE ServerTickOnly
  BY <1>0, <1>1, <1>2, <1>4 DEF ServerTickOnly, ServerTypeOK
<1>5. CASE ServerExpire
  <2>1. PICK i \in DOMAIN order :
          /\ client_list' = [a \in Addr |-> IF a = order[i] THEN Freed(Aged(a))
                                                            ELSE Aged(a)]
          /\ order' = MoveToTail(i)
    BY <1>5 DEF ServerExpire
  <2>2. order' \in Seq(Addr)
    BY <2>1, TailMoved DEF ServerTypeOK
  <2> QED
    BY <1>0, <1>1, <1>2, <1>5, <2>1, <2>2 DEF ServerExpire, ServerTypeOK
<1>6. CASE ServerCount
  <2>1. time10' \in 0 .. RetryLimit
    BY <1>6, ServerAssumption DEF ServerCount, ServerTypeOK
  <2> QED
    BY <1>0, <1>1, <1>2, <1>6, <2>1 DEF ServerCount, ServerTypeOK
<1>7. CASE ServerResend
  <2>1. NetTypeOK'
    BY <1>7, SendAdds DEF ServerResend
  <2>2. time10' \in 0 .. RetryLimit
    BY <1>7, ZeroTyped DEF ServerResend
  <2> QED
    BY <1>0, <1>1, <1>7, <2>1, <2>2 DEF ServerResend, ServerTypeOK
<1>8. CASE ServerTimeout
  BY <1>0, <1>1, <1>2, <1>8 DEF ServerTimeout, ServerTypeOK
<1> QED
  BY <1>3, <1>4, <1>5, <1>6, <1>7, <1>8 DEF ServerTick

(* A client's step leaves the clients well typed.                          *)
LEMMA ClientTyped ==
  ASSUME TypeOK, NEW c \in Client, ClientNext(c)
  PROVE  ClientTypeOK' /\ NetTypeOK'
<1> USE DEF TypeOK
<1>1. UNCHANGED netVars => NetTypeOK'
  BY DEF netVars, NetTypeOK
<1>2. \A out : Send(out) => NetTypeOK'
  BY SendAdds
<1>3. \A m, out : ReceiveAndSend(m, out) => NetTypeOK'
  BY ReceiveAdds
<1>4. CASE ClientStart(c)
  BY <1>2, <1>4 DEF ClientStart, Goto, ClientTypeOK
<1>5. CASE ClientOffer(c)
  BY <1>3, <1>5 DEF ClientOffer, Goto, ClientTypeOK
<1>6. CASE ClientAck(c)
  BY <1>3, <1>6 DEF ClientAck, Goto, ClientTypeOK
<1>7. CASE ClientIllegal(c)
  BY <1>3, <1>7 DEF ClientIllegal, Goto, ClientTypeOK
<1>8. CASE ClientHangUp(c)
  BY <1>1, <1>8 DEF ClientHangUp, ClientTypeOK
<1>9. CASE ClientReleasePrep(c)
  BY <1>1, <1>2, <1>9 DEF ClientReleasePrep, Goto, ClientTypeOK
<1>10. CASE ClientAlarm(c)
  <2>1. (IF HalfPassed(c) THEN 0 ELSE Passed(c)) \in 0 .. TTL - 1
    <3>1. rttl[c] \in 0 .. TTL - 1
      BY DEF ClientTypeOK
    <3>2. Passed(c) \in 0 .. TTL - 1
      BY <3>1, ConstantsTyped DEF Passed
    <3> QED
      BY <3>2, ZeroTyped
  <2>2. rttl' \in [Client -> 0 .. TTL - 1]
    BY <1>10, <2>1 DEF ClientAlarm, ClientTypeOK
  <2> QED
    BY <1>1, <1>2, <1>10, <2>2 DEF ClientAlarm, Goto, ClientTypeOK
<1>11. CASE ClientKilled(c)
  BY <1>1, <1>11, ClientAssumption DEF ClientKilled, Goto, ClientTypeOK
<1>12. CASE ClientGone(c)
  BY <1>3, <1>12 DEF ClientGone, clientVars, ClientTypeOK
<1> QED
  BY <1>4, <1>5, <1>6, <1>7, <1>8, <1>9, <1>10, <1>11, <1>12 DEF ClientNext

(* Every step of the system leaves it well typed.                          *)
LEMMA NextTyped == TypeOK /\ [Next]_vars => TypeOK'
<1> SUFFICES ASSUME TypeOK, [Next]_vars PROVE TypeOK'
  OBVIOUS
<1>1. CASE ServerStep
  BY <1>1, ReceiveTyped, AlarmTyped DEF ServerStep, clientVars, TypeOK, ClientTypeOK
<1>2. CASE ClientStep
  BY <1>2, ClientTyped DEF ClientStep, serverVars, TypeOK, ServerTypeOK
<1>3. CASE Network
  BY <1>3, FaultAdds
     DEF Network, serverVars, clientVars, TypeOK, ServerTypeOK, ClientTypeOK
<1>4. CASE UNCHANGED vars
  BY <1>4 DEF vars, netVars, serverVars, clientVars, TypeOK,
              NetTypeOK, ServerTypeOK, ClientTypeOK
<1> QED
  BY <1>1, <1>2, <1>3, <1>4 DEF Next

(* In every behaviour the ring, the datagrams and the clients are well     *)
(* formed; in particular no rttl ever reaches TTL (server.c:253-256).      *)
THEOREM TypeCorrect == Spec => []TypeOK
<1>1. Init => TypeOK
  BY InitTyped
<1>2. TypeOK /\ [Next]_vars => TypeOK'
  BY NextTyped
<1> QED
  BY <1>1, <1>2, PTL DEF Spec

-----------------------------------------------------------------------------
(* The safety of leases.                                                   *)

(* ACK and RELEASE datagrams are told apart from all others by their type, *)
(* and from each other by their client and address.                        *)
LEMMA MessagesDiffer ==
  /\ \A c \in Client : Release(c) \in Message
  /\ \A c \in Client, a \in Addr : Ack(c, a) \in Message
  /\ \A c, d : Release(c) = Release(d) => c = d
  /\ \A c, d, a, b : Ack(c, a) = Ack(d, b) => c = d /\ a = b
  /\ \A c, d, a, b : Ack(c, a) \notin {Offer(d, b), Starve(d), Discover(d),
                                      Request(d), Release(d)}
  /\ \A c, d, b : Release(c) \notin {Offer(d, b), Starve(d), Discover(d),
                                    Request(d), Ack(d, b)}
BY DEF Ack, Release, Offer, Starve, Discover, Request, Message

(* A step that sends neither adds neither.                                 *)
NoNewAck     == \A c \in Client, a \in Addr : InTransit(Ack(c, a))' => InTransit(Ack(c, a))
NoNewRelease == \A c \in Client : InTransit(Release(c))' => InTransit(Release(c))

LEMMA SendsNeither ==
  ASSUME NEW out, OnlySends(out)
  PROVE  /\ (\A c \in Client, a \in Addr : Ack(c, a) \notin out) => NoNewAck
         /\ (\A c \in Client : Release(c) \notin out) => NoNewRelease
BY MessagesDiffer DEF OnlySends, InTransit, NoNewAck, NoNewRelease

(* A step of the server adds no RELEASE, acknowledges only what it has     *)
(* leased, and takes a lease only from a client whose RELEASE it reads or  *)
(* because a timeout releases an entry.                                    *)
ServerPreserves ==
  /\ ranOut => ranOut'
  /\ NoNewRelease
  /\ \A c \in Client, a \in Addr :
       InTransit(Ack(c, a))' => InTransit(Ack(c, a)) \/ Leased(a, c)'
  /\ \A c \in Client, a \in Addr :
       Leased(a, c) => \/ Leased(a, c)'
                       \/ InTransit(Release(c))
                       \/ ranOut'

(* The server's answer to a datagram.                                      *)
LEMMA ReceivePreserves ==
  ASSUME TypeOK, NEW d \in Client, ServerReceive(d)
  PROVE  ServerPreserves
<1> USE DEF TypeOK
<1>0. /\ client_list \in [Addr -> [status : {"DISCOVER_WAIT", "REQUEST_WAIT", "IP_ALLOC"},
                                   id : Client \cup {NoClient}, rttl : 0 .. TTL - 1]]
      /\ \A i \in DOMAIN order : order[i] \in Addr
  BY DEF ServerTypeOK
<1>1. CASE ServerDiscover(d)
  <2>1. PICK i \in DOMAIN order :
          /\ IsFirst(i, Candidates(d))
          /\ client_list' = [client_list EXCEPT ![order[i]] = OfferedTo(order[i], d)]
          /\ ReceiveAndSend(Discover(d), {Offer(d, order[i])})
    BY <1>1 DEF ServerDiscover
  <2>2. Status(order[i]) = "DISCOVER_WAIT"
    BY <2>1 DEF IsFirst, Candidates, Matching, PositionsIn, Accepting
  <2>3. \A c \in Client, a \in Addr : Leased(a, c) => Leased(a, c)'
    BY <1>0, <2>1, <2>2 DEF Leased, Status, Id
  <2>4. OnlySends({Offer(d, order[i])})
    BY <2>1, ReceiveAdds
  <2>5. NoNewAck /\ NoNewRelease
    BY <2>4, MessagesDiffer, SendsNeither
  <2> QED
    BY <1>1, <2>3, <2>5 DEF ServerDiscover, Returned, ServerPreserves, NoNewAck
<1>2. CASE ServerStarve(d)
  <2>1. OnlySends({Starve(d)})
    BY <1>2, ReceiveAdds DEF ServerStarve
  <2>2. \A c \in Client, a \in Addr : Leased(a, c) => Leased(a, c)'
    BY <1>2 DEF ServerStarve, Leased, Status, Id
  <2>3. NoNewAck /\ NoNewRelease
    BY <2>1, MessagesDiffer, SendsNeither
  <2> QED
    BY <1>2, <2>2, <2>3 DEF ServerStarve, Returned, ServerPreserves, NoNewAck
<1>3. CASE ServerRequest(d)
  <2>1. PICK i \in DOMAIN order :
          /\ IsFirst(i, Matching(d, "REQUEST"))
          /\ client_list' = [client_list EXCEPT ![order[i]] = AckedTo(order[i], d)]
          /\ ReceiveAndSend(Request(d), {Ack(d, order[i])})
    BY <1>3 DEF ServerRequest
  <2>2. PICK e \in Addr : e = order[i]
    BY <1>0
  <2>3. Id(e) = d
    BY <2>1, <2>2 DEF IsFirst, Matching
  <2>4. client_list' = [client_list EXCEPT ![e] = [status |-> "IP_ALLOC", id |-> d, rttl |-> 0]]
    BY <2>1, <2>2 DEF AckedTo
  <2>5. Leased(e, d)'
    BY <1>0, <2>4 DEF Leased, Status, Id
  <2>6. \A c \in Client, a \in Addr : Leased(a, c) => Leased(a, c)'
    BY <1>0, <2>3, <2>4, <2>5 DEF Leased, Status, Id
  <2>7. OnlySends({Ack(d, e)})
    BY <2>1, <2>2, ReceiveAdds
  <2>8. \A c \in Client, a \in Addr :
          InTransit(Ack(c, a))' => InTransit(Ack(c, a)) \/ (c = d /\ a = e)
    BY <2>7, MessagesDiffer DEF OnlySends, InTransit
  <2>9. NoNewRelease
    BY <2>7, MessagesDiffer, SendsNeither
  <2> QED
    BY <1>3, <2>5, <2>6, <2>8, <2>9 DEF ServerRequest, Returned, ServerPreserves
<1>4. CASE ServerRelease(d)
  <2>1. PICK i \in DOMAIN order :
          /\ IsFirst(i, Matching(d, "RELEASE"))
          /\ client_list' = [client_list EXCEPT ![order[i]] = Freed(@)]
    BY <1>4 DEF ServerRelease
  <2>2. Id(order[i]) = d
    BY <2>1 DEF IsFirst, Matching
  <2>3. OnlySends({}) /\ InTransit(Release(d))
    BY <1>4, ReceiveAdds DEF ServerRelease, ReceiveAndSend
  <2>4. \A c \in Client, a \in Addr :
          Leased(a, c) => Leased(a, c)' \/ InTransit(Release(c))
    BY <1>0, <2>1, <2>2, <2>3 DEF Leased, Status, Id
  <2>5. NoNewAck /\ NoNewRelease
    BY <2>3, MessagesDiffer, SendsNeither
  <2> QED
    BY <1>4, <2>4, <2>5 DEF ServerRelease, Returned, ServerPreserves, NoNewAck
<1>5. CASE ServerUnknown(d)
  <2>1. PICK m \in {Request(d), Release(d)} : ReceiveAndSend(m, {})
    BY <1>5 DEF ServerUnknown
  <2>2. OnlySends({})
    BY <2>1, ReceiveAdds
  <2>3. \A c \in Client, a \in Addr : Leased(a, c) => Leased(a, c)'
    BY <1>5 DEF ServerUnknown, Leased, Status, Id
  <2>4. NoNewAck /\ NoNewRelease
    BY <2>2, MessagesDiffer, SendsNeither
  <2> QED
    BY <1>5, <2>3, <2>4 DEF ServerUnknown, Returned, ServerPreserves, NoNewAck
<1> QED
  BY <1>1, <1>2, <1>3, <1>4, <1>5 DEF ServerReceive

(* The alarm.                                                              *)
LEMMA AlarmPreserves ==
  ASSUME TypeOK, ServerTick \/ AlarmOutsideSelect
  PROVE  ServerPreserves
<1> USE DEF TypeOK
<1>0. \A a \in Addr : Aged(a).status = Status(a) /\ Aged(a).id = Id(a)
  BY AgedTyped
<1>1. UNCHANGED netVars => NoNewAck /\ NoNewRelease
  BY DEF netVars, InTransit, NoNewAck, NoNewRelease
<1>2. client_list' = [a \in Addr |-> Aged(a)]
        => \A c \in Client, a \in Addr : Leased(a, c) => Leased(a, c)'
  BY <1>0 DEF Leased, Status, Id
<1>3. CASE AlarmOutsideSelect
  <2>1. \A c \in Client, a \in Addr : Leased(a, c) => Leased(a, c)'
    BY <1>3 DEF AlarmOutsideSelect, Leased, Status, Id
  <2> QED
    BY <1>1, <1>3, <2>1 DEF AlarmOutsideSelect, ServerPreserves, NoNewAck
<1>4. CASE ServerTickOnly
  BY <1>1, <1>2, <1>4 DEF ServerTickOnly, ServerPreserves, NoNewAck
<1>5. CASE ServerExpire
  BY <1>1, <1>5 DEF ServerExpire, ServerPreserves, NoNewAck
<1>6. CASE ServerCount
  BY <1>1, <1>2, <1>6 DEF ServerCount, ServerPreserves, NoNewAck
<1>7. CASE ServerResend
  <2> DEFINE waiting == {a \in Addr : Status(a) = "REQUEST_WAIT"}
  <2>1. /\ client_list' = [a \in Addr |-> IF a \in waiting THEN OfferedTo(a, skt)
                                                           ELSE Aged(a)]
        /\ Send({Offer(skt, a) : a \in waiting})
    BY <1>7 DEF ServerResend
  <2>2. OnlySends({Offer(skt, a) : a \in waiting})
    BY <2>1, SendAdds
  <2>3. NoNewAck /\ NoNewRelease
    BY <2>2, MessagesDiffer, SendsNeither
  <2>4. \A c \in Client, a \in Addr : Leased(a, c) => Leased(a, c)'
    BY <1>0, <2>1 DEF Leased, Status, Id
  <2> QED
    BY <1>7, <2>3, <2>4 DEF ServerResend, ServerPreserves, NoNewAck
<1>8. CASE ServerTimeout
  BY <1>1, <1>2, <1>8 DEF ServerTimeout, ServerPreserves, NoNewAck
<1> QED
  BY <1>3, <1>4, <1>5, <1>6, <1>7, <1>8 DEF ServerTick

(* A client sends a RELEASE only as it ends, sets only the address of an   *)
(* ACK, never comes back from its end, and sends no ACK.                   *)
ClientPreserves ==
  /\ NoNewAck
  /\ \A c \in Client :
       InTransit(Release(c))' => InTransit(Release(c)) \/ status'[c] = "EXIT"
  /\ \A c \in Client : status[c] = "EXIT" => status'[c] = "EXIT"
  /\ \A c \in Client :
       status'[c] # "EXIT" /\ address'[c] # address[c]
         => \E a \in Addr : address'[c] = a /\ InTransit(Ack(c, a))

(* The steps of a client.                                                  *)
LEMMA ClientStepPreserves ==
  ASSUME TypeOK, NEW d \in Client, ClientNext(d)
  PROVE  ClientPreserves
<1> USE DEF TypeOK
<1>0. /\ status \in [Client -> {"INIT", "OFFER_WAIT", "ACK_WAIT", "IPGET", "EXIT"}]
      /\ address \in [Client -> Addr \cup {NoAddr}]
  BY DEF ClientTypeOK
<1>1. UNCHANGED netVars => NoNewAck /\ NoNewRelease
  BY DEF netVars, InTransit, NoNewAck, NoNewRelease
<1>2. \A out : Send(out) => OnlySends(out)
  BY SendAdds
<1>3. \A m, out : ReceiveAndSend(m, out) => OnlySends(out) /\ InTransit(m)
  BY ReceiveAdds DEF ReceiveAndSend
<1>4. CASE ClientStart(d)
  <2>1. NoNewAck /\ NoNewRelease
    BY <1>2, <1>4, MessagesDiffer, SendsNeither DEF ClientStart
  <2> QED
    BY <1>0, <1>4, <2>1 DEF ClientStart, Goto, ClientPreserves, NoNewRelease
<1>5. CASE ClientOffer(d)
  <2>1. PICK a \in Addr : ReceiveAndSend(Offer(d, a), {Request(d)})
    BY <1>5 DEF ClientOffer
  <2>2. NoNewAck /\ NoNewRelease
    BY <1>3, <2>1, MessagesDiffer, SendsNeither
  <2> QED
    BY <1>0, <1>5, <2>2 DEF ClientOffer, Goto, ClientPreserves, NoNewRelease
<1>6. CASE ClientAck(d)
  <2>1. PICK a \in Addr : /\ ReceiveAndSend(Ack(d, a), {})
                          /\ address' = [address EXCEPT ![d] = a]
    BY <1>6 DEF ClientAck
  <2>2. OnlySends({}) /\ InTransit(Ack(d, a))
    BY <1>3, <2>1
  <2>3. NoNewAck /\ NoNewRelease
    BY <2>2, SendsNeither
  <2> QED
    BY <1>0, <1>6, <2>1, <2>2, <2>3 DEF ClientAck, Goto, ClientPreserves, NoNewRelease
<1>7. CASE ClientIllegal(d)
  <2>1. OnlySends({})
    BY <1>3, <1>7 DEF ClientIllegal
  <2>2. NoNewAck /\ NoNewRelease
    BY <2>1, SendsNeither
  <2> QED
    BY <1>0, <1>7, <2>2 DEF ClientIllegal, Goto, ClientPreserves, NoNewRelease
<1>8. CASE ClientHangUp(d)
  BY <1>1, <1>8 DEF ClientHangUp, ClientPreserves, NoNewRelease
<1>9. CASE ClientReleasePrep(d)
  <2>1. CASE status[d] = "IPGET"
    <3>1. OnlySends({Release(d)}) /\ status' = [status EXCEPT ![d] = "EXIT"]
      BY <1>2, <1>9, <2>1 DEF ClientReleasePrep, Goto
    <3>2. NoNewAck
      <4>1. \A c, a : Ack(c, a) # Release(d)
        BY DEF Ack, Release
      <4> QED
        BY <3>1, <4>1, SendsNeither
    <3>3. \A c \in Client : InTransit(Release(c))' => InTransit(Release(c)) \/ c = d
      BY <3>1, MessagesDiffer DEF OnlySends, InTransit
    <3> QED
      BY <1>0, <1>9, <3>1, <3>2, <3>3 DEF ClientReleasePrep, ClientPreserves
  <2>2. CASE status[d] # "IPGET"
    BY <1>1, <1>9, <2>2 DEF ClientReleasePrep, ClientPreserves, NoNewRelease
  <2> QED
    BY <2>1, <2>2
<1>10. CASE ClientAlarm(d)
  <2>1. NoNewAck /\ NoNewRelease
    BY <1>1, <1>2, <1>10, MessagesDiffer, SendsNeither DEF ClientAlarm
  <2> QED
    BY <1>0, <1>10, <2>1 DEF ClientAlarm, Goto, ClientPreserves, NoNewRelease
<1>11. CASE ClientKilled(d)
  BY <1>0, <1>1, <1>11 DEF ClientKilled, Goto, ClientPreserves, NoNewRelease
<1>12. CASE ClientGone(d)
  <2>1. OnlySends({})
    BY <1>3, <1>12 DEF ClientGone
  <2>2. NoNewAck /\ NoNewRelease
    BY <2>1, SendsNeither
  <2> QED
    BY <1>12, <2>2 DEF ClientGone, clientVars, ClientPreserves, NoNewRelease
<1> QED
  BY <1>4, <1>5, <1>6, <1>7, <1>8, <1>9, <1>10, <1>11, <1>12 DEF ClientNext

(* LeaseInv holds initially and is preserved by every step.                *)
LEMMA LeaseInvInit == Init => LeaseInv
<1> SUFFICES ASSUME Init PROVE LeaseInv
  OBVIOUS
<1>1. \A m \in Message : ~InTransit(m)
  BY DEF Init, NetInit, InTransit
<1>2. ReleasedHaveExited /\ AcksBacked
  BY <1>1, MessagesDiffer DEF ReleasedHaveExited, AcksBacked
<1>3. AddressBacked
  BY DEF Init, ClientInit, AddressBacked
<1> QED
  BY <1>2, <1>3 DEF LeaseInv

LEMMA LeaseInvNext == TypeOK /\ LeaseInv /\ [Next]_vars => LeaseInv'
<1> SUFFICES ASSUME TypeOK, LeaseInv, [Next]_vars PROVE LeaseInv'
  OBVIOUS
<1> USE DEF LeaseInv
<1>1. CASE ServerStep
  <2>1. ServerPreserves /\ UNCHANGED clientVars
    BY <1>1, ReceivePreserves, AlarmPreserves DEF ServerStep
  <2>2. ReleasedHaveExited'
    BY <2>1 DEF ServerPreserves, NoNewRelease, clientVars, ReleasedHaveExited
  <2>3. \A c \in Client, a \in Addr :
          ~ranOut' /\ status[c] # "EXIT" /\ Leased(a, c) => Leased(a, c)'
    BY <2>1 DEF ServerPreserves, ReleasedHaveExited
  <2>4. AcksBacked'
    BY <2>1, <2>3 DEF ServerPreserves, clientVars, AcksBacked
  <2>5. AddressBacked'
    <3>1. \A c \in Client : address[c] \in Addr \cup {NoAddr}
      BY DEF TypeOK, ClientTypeOK
    <3>2. \A c \in Client : status'[c] = status[c] /\ address'[c] = address[c]
      BY <2>1 DEF clientVars
    <3>3. ~ranOut' => ~ranOut
      BY <2>1 DEF ServerPreserves
    <3> QED
      BY <2>3, <3>1, <3>2, <3>3 DEF AddressBacked, Leased, Status, Id
  <2> QED
    BY <2>2, <2>4, <2>5
<1>2. CASE ClientStep
  <2>1. ClientPreserves /\ UNCHANGED serverVars
    BY <1>2, ClientStepPreserves DEF ClientStep
  <2>2. ReleasedHaveExited'
    BY <2>1 DEF ClientPreserves, ReleasedHaveExited
  <2>3. ranOut' = ranOut /\ client_list' = client_list
    BY <2>1 DEF serverVars
  <2>4. AcksBacked'
    BY <2>1, <2>3 DEF ClientPreserves, NoNewAck, AcksBacked, Leased, Status, Id
  <2>5. AddressBacked'
    BY <2>1, <2>3 DEF ClientPreserves, AcksBacked, AddressBacked, Leased, Status, Id
  <2> QED
    BY <2>2, <2>4, <2>5
<1>3. CASE Network
  <2>1. NoNewAck /\ NoNewRelease
    BY <1>3, FaultAdds, SendsNeither DEF Network, TypeOK
  <2>2. UNCHANGED <<serverVars, clientVars>>
    BY <1>3 DEF Network
  <2> QED
    BY <2>1, <2>2 DEF NoNewAck, NoNewRelease, serverVars, clientVars,
       ReleasedHaveExited, AcksBacked, AddressBacked, Leased, Status, Id
<1>4. CASE UNCHANGED vars
  BY <1>4 DEF vars, netVars, serverVars, clientVars, ReleasedHaveExited,
              AcksBacked, AddressBacked, Leased, Status, Id, InTransit
<1> QED
  BY <1>1, <1>2, <1>3, <1>4 DEF Next

(* As long as no lease has run out, the address a running client has set   *)
(* is leased to it in the server's ring: whatever the network loses,       *)
(* repeats or delays, however many clients crash, and although OFFERs may  *)
(* be sent again to the wrong client.                                      *)
THEOREM LeasesBackAddresses == Spec => []LeaseBacksAddress
<1>1. Init => TypeOK /\ LeaseInv
  BY InitTyped, LeaseInvInit
<1>2. TypeOK /\ LeaseInv /\ [Next]_vars => (TypeOK /\ LeaseInv)'
  BY NextTyped, LeaseInvNext
<1>3. LeaseInv => LeaseBacksAddress
  BY DEF LeaseInv, AddressBacked, LeaseBacksAddress, Running
<1> QED
  BY <1>1, <1>2, <1>3, PTL DEF Spec

(* Hence no two running clients have one address.                          *)
AddressExclusive ==
  ~ranOut => \A c, d \in Client :
               /\ Running(c) /\ Running(d)
               /\ address[c] = address[d] /\ address[c] # NoAddr
               => c = d

THEOREM AddressesExclusive == Spec => []AddressExclusive
<1>1. LeaseBacksAddress => AddressExclusive
  BY DEF LeaseBacksAddress, AddressExclusive, Leased
<1> QED
  BY <1>1, LeasesBackAddresses, PTL

-----------------------------------------------------------------------------
(* An entry of the ring.                                                   *)
LEMMA EntriesTyped ==
  ASSUME TypeOK
  PROVE  /\ client_list \in
              [Addr -> [status : {"DISCOVER_WAIT", "REQUEST_WAIT", "IP_ALLOC"},
                        id : Client \cup {NoClient}, rttl : 0 .. TTL - 1]]
         /\ \A i \in DOMAIN order : order[i] \in Addr
         /\ \A a \in Addr : Aged(a).status = Status(a) /\ Aged(a).id = Id(a)
         /\ \A c \in Client : c # NoClient
<1>1. ServerTypeOK
  BY DEF TypeOK
<1>2. \A a \in Addr : Aged(a).status = Status(a) /\ Aged(a).id = Id(a)
  BY <1>1, AgedTyped
<1>3. \A c \in Client : c # NoClient
  BY NetAssumption, SMTT(30)
<1> QED
  BY <1>1, <1>2, <1>3 DEF ServerTypeOK

(* Every entry stays in the ring: a list that holds each address.          *)
RingComplete == \A a \in Addr : \E i \in DOMAIN order : order[i] = a

LEMMA RingInit == Init => RingComplete
<1> SUFFICES ASSUME Init PROVE RingComplete
  OBVIOUS
<1> DEFINE n == Cardinality(Addr)
<1>1. n \in Nat /\ IsFiniteSet(Addr)
  BY ServerAssumption, FS_CardinalityType
<1>2. order \in [1 .. n -> Addr] /\ \A i, j \in 1 .. n : i # j => order[i] # order[j]
  BY DEF Init, ServerInit, SetToSeqs
<1>3. IsFiniteSet(1 .. n) /\ Cardinality(1 .. n) = n
  BY <1>1, FS_Interval
<1> HIDE DEF n
<1>4. order \in Injection(1 .. n, Addr)
  BY <1>2 DEF Injection, IsInjective
<1>5. order \in Surjection(1 .. n, Addr)
  BY <1>1, <1>3, <1>4, FS_Injection DEF n
<1> QED
  BY <1>2, <1>5 DEF Surjection, RingComplete

LEMMA MoveToTailKeeps ==
  ASSUME order \in Seq(Addr), NEW i \in DOMAIN order, RingComplete,
         NEW a \in Addr
  PROVE  \E j \in DOMAIN MoveToTail(i) : MoveToTail(i)[j] = a
<1> DEFINE n == Len(order)
           moved == MoveToTail(i)
<1>1. n \in Nat /\ i \in 1 .. n /\ DOMAIN order = 1 .. n
  OBVIOUS
<1>2. /\ DOMAIN moved = 1 .. n
      /\ \A k \in 1 .. n : moved[k] = IF k < i THEN order[k]
                                      ELSE IF k < n THEN order[k + 1] ELSE order[i]
  BY TailMoved
<1>3. PICK k \in 1 .. n : order[k] = a
  BY <1>1 DEF RingComplete
<1> HIDE DEF n, moved
<1>4. CASE k = i
  <2>1. n \in 1 .. n /\ ~(n < i)
    BY <1>1
  <2> QED
    BY <1>2, <1>3, <1>4, <2>1 DEF moved
<1>5. CASE k < i
  BY <1>2, <1>3, <1>5 DEF moved
<1>6. CASE k > i
  <2>1. k - 1 \in 1 .. n /\ ~(k - 1 < i) /\ k - 1 < n /\ (k - 1) + 1 = k
    BY <1>1, <1>6
  <2> QED
    BY <1>2, <1>3, <2>1 DEF moved
<1> QED
  BY <1>1, <1>4, <1>5, <1>6

LEMMA RingNext == TypeOK /\ RingComplete /\ [Next]_vars => RingComplete'
<1> SUFFICES ASSUME TypeOK, RingComplete, [Next]_vars PROVE RingComplete'
  OBVIOUS
<1>1. ASSUME order' = order PROVE RingComplete'
  BY <1>1 DEF RingComplete
<1>2. ASSUME NEW i \in DOMAIN order, order' = MoveToTail(i) PROVE RingComplete'
  BY <1>2, MoveToTailKeeps DEF RingComplete, TypeOK, ServerTypeOK
<1>3. ASSUME NEW d \in Client, ServerReceive(d) PROVE RingComplete'
  BY <1>1, <1>2, <1>3 DEF ServerReceive, ServerDiscover, ServerStarve,
       ServerRequest, ServerRelease, ServerUnknown
<1>4. CASE ServerTick \/ AlarmOutsideSelect
  BY <1>1, <1>2, <1>4 DEF ServerTick, AlarmOutsideSelect, ServerTickOnly,
       ServerExpire, ServerCount, ServerResend, ServerTimeout
<1>5. CASE UNCHANGED serverVars
  BY <1>1, <1>5 DEF serverVars
<1> QED
  BY <1>3, <1>4, <1>5 DEF Next, ServerStep, ClientStep, Network, vars

-----------------------------------------------------------------------------
(* The ring as a queue.  Its busy entries are the ones in front, the free  *)
(* ones nobody's, and every entry stands in it once.                       *)
RingDistinct == \A i, j \in DOMAIN order : order[i] = order[j] => i = j
BusyFirst    == \E k \in 0 .. Len(order) : Busy = 1 .. k
FreeUnnamed  == \A a \in Addr : Id(a) = NoClient <=> Status(a) = "DISCOVER_WAIT"
SenderKnown  == skt = NoClient => \A a \in Addr : Status(a) = "DISCOVER_WAIT"

RingInv == RingComplete /\ RingDistinct /\ BusyFirst /\ FreeUnnamed /\ SenderKnown

(* What a step does to the ring: nothing, an offer of the first free       *)
(* entry, a grant to the client of the entry, a release that moves the     *)
(* entry to the tail, or the resend.                                       *)
Kept(a)        == Id(a)' = Id(a) /\ Status(a)' = Status(a)
Becomes(a, c, st) == /\ Id(a)' = c /\ Status(a)' = st
                     /\ \A b \in Addr : b # a => Kept(b)
Unmoved        == order' = order /\ \A a \in Addr : Kept(a)
Offering(i, a, c) == /\ order' = order /\ order[i] = a /\ Busy = 1 .. i - 1
                     /\ Becomes(a, c, "REQUEST_WAIT")
Granting(a, c)    == order' = order /\ Id(a) = c /\ Becomes(a, c, "IP_ALLOC")
Freeing(i, a)     == /\ order' = MoveToTail(i) /\ order[i] = a
                     /\ Status(a) = "IP_ALLOC"
                     /\ Becomes(a, NoClient, "DISCOVER_WAIT")
Redirecting(c) == /\ timeoutflag' /\ order' = order
                  /\ \A a \in Addr :
                       /\ Status(a)' = Status(a)
                       /\ Id(a)' = IF Status(a) = "REQUEST_WAIT" THEN c ELSE Id(a)

RingStep == \/ Unmoved
            \/ \E i \in DOMAIN order, a \in Addr, c \in Client : Offering(i, a, c)
            \/ \E a \in Addr, c \in Client : Granting(a, c)
            \/ \E i \in DOMAIN order, a \in Addr : Freeing(i, a)
            \/ \E c \in Client : Redirecting(c)

LEMMA RingFacts ==
  ASSUME TypeOK, RingInv
  PROVE  /\ order \in Seq(Addr) /\ DOMAIN order = 1 .. Len(order) /\ Len(order) \in Nat
         /\ \A i \in DOMAIN order : order[i] \in Addr
         /\ \A i \in DOMAIN order : i \in Busy <=> Id(order[i]) # NoClient
         /\ \A i \in DOMAIN order : i \in Busy <=> Status(order[i]) # "DISCOVER_WAIT"
         /\ Busy \subseteq DOMAIN order
         /\ \A a \in Addr : Id(a) \in Client \cup {NoClient}
<1>1. order \in Seq(Addr)
  BY DEF TypeOK, ServerTypeOK
<1>2. \A i \in DOMAIN order : order[i] \in Addr
  BY EntriesTyped
<1>3. \A i \in DOMAIN order : i \in Busy <=> Status(order[i]) # "DISCOVER_WAIT"
  BY <1>2, EntriesTyped DEF Busy, PositionsIn, Status
<1>4. \A i \in DOMAIN order : i \in Busy <=> Id(order[i]) # NoClient
  BY <1>2, <1>3 DEF RingInv, FreeUnnamed
<1>5. \A a \in Addr : Id(a) \in Client \cup {NoClient}
  BY EntriesTyped DEF Id
<1> QED
  BY <1>1, <1>2, <1>3, <1>4, <1>5 DEF Busy, PositionsIn

(* The entry a DISCOVER is answered from is the first free one, and a      *)
(* REQUEST is answered from the first entry in its sender's name.          *)
LEMMA FirstFree ==
  ASSUME TypeOK, RingInv, NEW c \in Client, NEW i, IsFirst(i, Candidates(c))
  PROVE  i \in DOMAIN order /\ Busy = 1 .. i - 1
<1>1. Matching(c, "DISCOVER") = {}
  BY RingFacts, EntriesTyped DEF Matching, PositionsIn, Accepting, RingInv, FreeUnnamed
<1>2. i \in DOMAIN order \ Busy /\ \A j \in DOMAIN order \ Busy : i <= j
  BY <1>1, RingFacts DEF IsFirst, Candidates, PositionsIn
<1>3. PICK k \in 0 .. Len(order) : Busy = 1 .. k
  BY DEF RingInv, BusyFirst
<1>4. Len(order) \in Nat /\ DOMAIN order = 1 .. Len(order)
  BY RingFacts
<1>5. i = k + 1
  <2>1. i \in Nat /\ i > k /\ i <= Len(order)
    BY <1>2, <1>3, <1>4
  <2>2. k + 1 \in DOMAIN order \ Busy
    BY <1>3, <1>4, <2>1
  <2>3. i <= k + 1
    BY <1>2, <2>2
  <2> QED
    BY <1>3, <2>1, <2>3
<1> QED
  BY <1>2, <1>3, <1>5

LEMMA FirstNamed ==
  ASSUME TypeOK, RingInv, NEW c \in Client, NEW i, IsFirst(i, Matching(c, "REQUEST"))
  PROVE  /\ i \in DOMAIN order /\ Id(order[i]) = c
         /\ \A j \in DOMAIN order : Id(order[j]) = c => i <= j
<1>1. \A j \in DOMAIN order : j \in Matching(c, "REQUEST") <=> Id(order[j]) = c
  BY RingFacts, EntriesTyped DEF Matching, Busy, PositionsIn, Accepting
<1>2. Matching(c, "REQUEST") \subseteq DOMAIN order
  BY DEF Matching, PositionsIn
<1> QED
  BY <1>1, <1>2 DEF IsFirst

LEMMA EntryBecomes ==
  ASSUME TypeOK, NEW a \in Addr, NEW e,
         client_list' = [client_list EXCEPT ![a] = e]
  PROVE  Becomes(a, e.id, e.status)
BY EntriesTyped DEF Becomes, Kept, Id, Status

(* Every step is one of these.                                             *)
LEMMA StepOfRing ==
  ASSUME TypeOK, RingInv, [Next]_vars
  PROVE  RingStep
<1>1. client_list' = client_list /\ order' = order => Unmoved
  BY DEF Unmoved, Kept, Id, Status
<1>2. client_list' = [a \in Addr |-> Aged(a)] /\ order' = order => Unmoved
  BY EntriesTyped DEF Unmoved, Kept, Id, Status
<1>3. ASSUME NEW c \in Client, ServerReceive(c) PROVE RingStep
  <2>1. CASE ServerDiscover(c)
    <3>1. PICK i \in DOMAIN order :
            /\ IsFirst(i, Candidates(c))
            /\ client_list' = [client_list EXCEPT ![order[i]] = OfferedTo(order[i], c)]
      BY <2>1 DEF ServerDiscover
    <3>2. PICK e \in Addr : e = order[i]
      BY EntriesTyped
    <3>3. order' = order /\ Busy = 1 .. i - 1
      BY <2>1, <3>1, FirstFree DEF ServerDiscover
    <3>4. OfferedTo(e, c).id = c /\ OfferedTo(e, c).status = "REQUEST_WAIT"
      BY EntriesTyped DEF OfferedTo
    <3>5. Offering(i, e, c)
      BY <3>1, <3>2, <3>3, <3>4, EntryBecomes DEF Offering
    <3> QED
      BY <3>5 DEF RingStep
  <2>2. CASE ServerStarve(c) \/ ServerUnknown(c)
    BY <1>1, <2>2 DEF ServerStarve, ServerUnknown, RingStep
  <2>3. CASE ServerRequest(c)
    <3>1. PICK i \in DOMAIN order :
            /\ IsFirst(i, Matching(c, "REQUEST"))
            /\ client_list' = [client_list EXCEPT ![order[i]] = AckedTo(order[i], c)]
      BY <2>3 DEF ServerRequest
    <3>2. PICK e \in Addr : e = order[i]
      BY EntriesTyped
    <3>3. order' = order /\ Id(e) = c
      BY <2>3, <3>1, <3>2, FirstNamed DEF ServerRequest
    <3>4. AckedTo(e, c).id = c /\ AckedTo(e, c).status = "IP_ALLOC"
      BY DEF AckedTo
    <3>5. Granting(e, c)
      BY <3>1, <3>2, <3>3, <3>4, EntryBecomes DEF Granting
    <3> QED
      BY <3>5 DEF RingStep
  <2>4. CASE ServerRelease(c)
    <3>1. PICK i \in DOMAIN order :
            /\ IsFirst(i, Matching(c, "RELEASE"))
            /\ client_list' = [client_list EXCEPT ![order[i]] = Freed(@)]
            /\ order' = MoveToTail(i)
      BY <2>4 DEF ServerRelease
    <3>2. PICK e \in Addr : e = order[i]
      BY EntriesTyped
    <3>3. Status(e) = "IP_ALLOC"
      BY <3>1, <3>2 DEF IsFirst, Matching, PositionsIn, Accepting
    <3>4. /\ Freed(client_list[e]).id = NoClient
          /\ Freed(client_list[e]).status = "DISCOVER_WAIT"
      BY EntriesTyped DEF Freed
    <3>5. Freeing(i, e)
      BY <3>1, <3>2, <3>3, <3>4, EntryBecomes DEF Freeing
    <3> QED
      BY <3>5 DEF RingStep
  <2> QED
    BY <1>3, <2>1, <2>2, <2>3, <2>4 DEF ServerReceive
<1>4. CASE ServerTick
  <2>1. CASE ServerTickOnly \/ ServerCount \/ ServerTimeout
    BY <1>2, <2>1 DEF ServerTickOnly, ServerCount, ServerTimeout, RingStep
  <2>2. CASE ServerExpire
    <3>1. PICK i \in DOMAIN order :
            /\ FirstBusy(i, "IP_ALLOC")
            /\ client_list' = [a \in Addr |-> IF a = order[i] THEN Freed(Aged(a))
                                                              ELSE Aged(a)]
            /\ order' = MoveToTail(i)
      BY <2>2 DEF ServerExpire
    <3>2. PICK e \in Addr : e = order[i]
      BY EntriesTyped
    <3>3. Status(e) = "IP_ALLOC"
      BY <3>1, <3>2 DEF FirstBusy
    <3>4. Freed(Aged(e)).id = NoClient /\ Freed(Aged(e)).status = "DISCOVER_WAIT"
      BY AgedTyped DEF Freed, TypeOK
    <3>5. Becomes(e, NoClient, "DISCOVER_WAIT")
      <4>1. client_list'[e] = Freed(Aged(e))
        BY <3>1, <3>2
      <4>2. \A a \in Addr : a # e => client_list'[a] = Aged(a)
        BY <3>1, <3>2
      <4>3. Id(e)' = NoClient /\ Status(e)' = "DISCOVER_WAIT"
        BY <3>4, <4>1 DEF Id, Status
      <4>4. ASSUME NEW a \in Addr, a # e PROVE Kept(a)
        BY <4>2, <4>4, EntriesTyped DEF Kept, Id, Status
      <4> QED
        BY <4>3, <4>4 DEF Becomes
    <3>6. Freeing(i, e)
      BY <3>1, <3>2, <3>3, <3>5 DEF Freeing
    <3> QED
      BY <3>6 DEF RingStep
  <2>3. CASE ServerResend
    <3>1. /\ client_list' = [a \in Addr |-> IF Status(a) = "REQUEST_WAIT"
                                            THEN OfferedTo(a, skt) ELSE Aged(a)]
          /\ order' = order /\ timeoutflag'
      BY <2>3 DEF ServerResend
    <3>2. PICK i \in DOMAIN order : FirstBusy(i, "REQUEST_WAIT")
      BY <2>3 DEF ServerResend
    <3>3. skt \in Client
      <4>1. Status(order[i]) = "REQUEST_WAIT" /\ order[i] \in Addr
        BY <3>2, EntriesTyped DEF FirstBusy
      <4> QED
        BY <4>1 DEF RingInv, SenderKnown, TypeOK, ServerTypeOK
    <3>4. \A a \in Addr : /\ OfferedTo(a, skt).id = skt
                          /\ OfferedTo(a, skt).status = "REQUEST_WAIT"
      BY EntriesTyped DEF OfferedTo
    <3>5. Redirecting(skt)
      BY <3>1, <3>4, EntriesTyped DEF Redirecting, Id, Status
    <3> QED
      BY <3>3, <3>5 DEF RingStep
  <2> QED
    BY <1>4, <2>1, <2>2, <2>3 DEF ServerTick
<1>5. CASE AlarmOutsideSelect \/ UNCHANGED serverVars
  BY <1>1, <1>5 DEF AlarmOutsideSelect, serverVars, RingStep
<1> QED
  BY <1>3, <1>4, <1>5 DEF Next, ServerStep, ClientStep, Network, vars

(* The entries a state and the next one have in use.                       *)
LEMMA BusyBoth ==
  ASSUME TypeOK, TypeOK', RingInv
  PROVE  /\ Len(order) \in Nat /\ DOMAIN order = 1 .. Len(order)
         /\ \A j \in DOMAIN order : order[j] \in Addr
         /\ \A j \in DOMAIN order : j \in Busy <=> Status(order[j]) # "DISCOVER_WAIT"
         /\ \A j \in DOMAIN order' : j \in Busy' <=> (Status(order[j]))' # "DISCOVER_WAIT"
         /\ Busy \subseteq DOMAIN order /\ Busy' \subseteq DOMAIN order'
<1>1. \A j \in DOMAIN order' : order'[j] \in Addr
  BY DEF TypeOK, ServerTypeOK
<1>2. \A a \in Addr : Status(a)' \in {"DISCOVER_WAIT", "REQUEST_WAIT", "IP_ALLOC"}
  BY DEF TypeOK, ServerTypeOK, Status
<1> QED
  BY <1>1, <1>2, RingFacts DEF Busy, PositionsIn, Status

(* A release takes the entry out of the busy ones, and a free entry is the *)
(* last one after it.                                                      *)
LEMMA AfterFreeing ==
  ASSUME TypeOK, TypeOK', RingInv, NEW i \in DOMAIN order, NEW a \in Addr, Freeing(i, a)
  PROVE  /\ RingDistinct'
         /\ \E k \in 1 .. Len(order) : i <= k /\ Busy = 1 .. k /\ Busy' = 1 .. k - 1
<1> DEFINE n == Len(order)
<1>ring. n \in Nat /\ DOMAIN order = 1 .. n /\ RingDistinct
  BY BusyBoth DEF RingInv
<1>places.
      /\ \A j \in DOMAIN order : order[j] \in Addr
      /\ \A j \in DOMAIN order : j \in Busy <=> Status(order[j]) # "DISCOVER_WAIT"
      /\ \A j \in DOMAIN order' : j \in Busy' <=> (Status(order[j]))' # "DISCOVER_WAIT"
      /\ Busy \subseteq DOMAIN order /\ Busy' \subseteq DOMAIN order'
  BY BusyBoth
<1>busy. PICK k \in 0 .. n : Busy = 1 .. k
  BY DEF RingInv, BusyFirst
<1> HIDE DEF n
<1>2. /\ order' = MoveToTail(i) /\ order[i] = a /\ Status(a) = "IP_ALLOC"
      /\ Status(a)' = "DISCOVER_WAIT"
      /\ \A b \in Addr : b # a => Status(b)' = Status(b)
  BY DEF Freeing, Becomes, Kept
<1>3. /\ Len(order') = n /\ DOMAIN order' = 1 .. n
      /\ \A j \in 1 .. n : order'[j] = IF j < i THEN order[j]
                                       ELSE IF j < n THEN order[j + 1] ELSE a
  BY <1>2, RingFacts, TailMoved DEF n
<1>4. i \in 1 .. n /\ i \in 1 .. k
  BY <1>ring, <1>places, <1>busy, <1>2
<1> DEFINE from(j) == IF j < i THEN j ELSE IF j < n THEN j + 1 ELSE i
<1>5. ASSUME NEW j \in 1 .. n
      PROVE  /\ from(j) \in 1 .. n /\ order'[j] = order[from(j)]
             /\ from(j) = i <=> j = n
             /\ j # n => (from(j) \in 1 .. k <=> j \in 1 .. k - 1)
  <2>1. i \in Nat /\ k \in Nat /\ j \in Nat /\ 1 <= i /\ i <= k /\ k <= n
        /\ 1 <= j /\ j <= n
    BY <1>ring, <1>busy, <1>4
  <2>2. order'[j] = order[from(j)]
    BY <1>2, <1>3, <1>5
  <2>3. CASE j < i
    BY <1>ring, <2>1, <2>2, <2>3
  <2>4. CASE j >= i /\ j < n
    BY <1>ring, <2>1, <2>2, <2>4
  <2>5. CASE j = n
    BY <1>ring, <2>1, <2>2, <2>5
  <2> QED
    BY <1>ring, <2>1, <2>3, <2>4, <2>5
<1>6. ASSUME NEW j \in 1 .. n, NEW l \in 1 .. n, order'[j] = order'[l]
      PROVE  j = l
  <2>1. from(j) = from(l)
    <3> HIDE DEF from
    <3> QED
      BY <1>ring, <1>5, <1>6 DEF RingDistinct
  <2>2. i \in Nat /\ j \in Nat /\ l \in Nat /\ i <= n /\ j <= n /\ l <= n
    BY <1>ring, <1>4
  <2>3. CASE j = n \/ l = n
    <3> HIDE DEF from
    <3> QED
      BY <1>5, <1>6, <2>1, <2>3
  <2>4. CASE j < n /\ l < n
    BY <1>ring, <2>1, <2>2, <2>4
  <2> QED
    BY <1>ring, <2>2, <2>3, <2>4
<1>7. ASSUME NEW j \in 1 .. n PROVE j \in Busy' <=> j \in 1 .. k - 1
  <2>1. j \in Busy' <=> (Status(order[j]))' # "DISCOVER_WAIT"
    BY <1>places, <1>3
  <2>2. PICK b \in Addr : b = order'[j] /\ b = order[from(j)]
    BY <1>ring, <1>places, <1>5
  <2>3. j \in Busy' <=> Status(b)' # "DISCOVER_WAIT"
    BY <2>1, <2>2 DEF Status
  <2>4. CASE j = n
    <3>1. b = a /\ ~(j \in 1 .. k - 1)
      <4>1. k \in Nat /\ k <= n /\ n \in Nat
        BY <1>ring, <1>busy
      <4>2. b = a
        <5> HIDE DEF from
        <5> QED
          BY <1>2, <1>5, <2>2, <2>4
      <4> QED
        BY <2>4, <4>1, <4>2
    <3> QED
      BY <1>2, <2>3, <3>1
  <2>5. CASE j # n
    <3> HIDE DEF from
    <3>1. b # a
      BY <1>ring, <1>2, <1>4, <1>5, <2>2, <2>5 DEF RingDistinct
    <3>2. from(j) \in DOMAIN order /\ (from(j) \in Busy <=> j \in 1 .. k - 1)
      BY <1>ring, <1>busy, <1>5, <2>5
    <3>3. from(j) \in Busy <=> Status(b) # "DISCOVER_WAIT"
      BY <1>places, <2>2, <3>2
    <3> QED
      BY <1>2, <2>3, <3>1, <3>2, <3>3
  <2> QED
    BY <2>4, <2>5
<1>8. Busy' = 1 .. k - 1 /\ k - 1 \in 0 .. n
  <2>1. k \in Nat /\ k <= n /\ 1 <= k
    BY <1>ring, <1>busy, <1>4
  <2>2. 1 .. k - 1 \subseteq 1 .. n /\ k - 1 \in 0 .. n
    BY <1>ring, <2>1
  <2> QED
    BY <1>places, <1>3, <1>7, <2>2
<1>9. RingDistinct'
  BY <1>3, <1>6 DEF RingDistinct
<1>10. k \in 1 .. n /\ i <= k
  BY <1>ring, <1>busy, <1>4
<1> QED
  BY <1>busy, <1>8, <1>9, <1>10 DEF n

(* An offer puts one entry more in front of the free ones.                 *)
LEMMA AfterOffering ==
  ASSUME TypeOK, TypeOK', RingInv, NEW i \in DOMAIN order, NEW a \in Addr,
         NEW c \in Client, Offering(i, a, c)
  PROVE  Busy' = 1 .. i
<1> DEFINE n == Len(order)
<1>ring. n \in Nat /\ DOMAIN order = 1 .. n /\ RingDistinct
  BY BusyBoth DEF RingInv
<1>places.
      /\ \A j \in DOMAIN order : order[j] \in Addr
      /\ \A j \in DOMAIN order : j \in Busy <=> Status(order[j]) # "DISCOVER_WAIT"
      /\ \A j \in DOMAIN order' : j \in Busy' <=> (Status(order[j]))' # "DISCOVER_WAIT"
      /\ Busy \subseteq DOMAIN order /\ Busy' \subseteq DOMAIN order'
  BY BusyBoth
<1> HIDE DEF n
<1>2. /\ order' = order /\ order[i] = a /\ Busy = 1 .. i - 1
      /\ Status(a)' = "REQUEST_WAIT"
      /\ \A b \in Addr : b # a => Status(b)' = Status(b)
  BY DEF Offering, Becomes, Kept
<1>3. ASSUME NEW j \in 1 .. n PROVE j \in Busy' <=> j \in 1 .. i
  <2>1. PICK b \in Addr : b = order[j]
    BY <1>ring, <1>places
  <2>2. j \in Busy' <=> Status(b)' # "DISCOVER_WAIT"
    BY <1>ring, <1>places, <1>2, <2>1 DEF Status
  <2>3. b = a <=> j = i
    BY <1>ring, <1>2, <2>1 DEF RingDistinct
  <2>4. j \in Busy <=> Status(b) # "DISCOVER_WAIT"
    BY <1>ring, <1>places, <2>1
  <2> QED
    BY <1>ring, <1>2, <2>2, <2>3, <2>4
<1>4. Busy' = 1 .. i /\ i \in 0 .. n
  <2>1. i \in Nat /\ i <= n /\ 1 <= i
    BY <1>ring
  <2>2. 1 .. i \subseteq 1 .. n /\ i \in 0 .. n
    BY <1>ring, <2>1
  <2> QED
    BY <1>ring, <1>places, <1>2, <1>3, <2>2
<1> QED
  BY <1>4

(* Any other step leaves the same places busy.                             *)
LEMMA BusyKept ==
  ASSUME TypeOK, TypeOK', RingInv, order' = order,
         \A a \in Addr : Status(a)' = "DISCOVER_WAIT" <=> Status(a) = "DISCOVER_WAIT"
  PROVE  Busy' = Busy
<1>2. \A j \in DOMAIN order : j \in Busy' <=> j \in Busy
  <2> SUFFICES ASSUME NEW j \in DOMAIN order PROVE j \in Busy' <=> j \in Busy
    OBVIOUS
  <2>1. PICK b \in Addr : b = order[j]
    BY BusyBoth
  <2>2. j \in Busy' <=> Status(b)' # "DISCOVER_WAIT"
    BY BusyBoth, <2>1 DEF Status
  <2> QED
    BY BusyBoth, <2>1, <2>2
<1>3. Busy' = Busy
  BY BusyBoth, <1>2
<1> QED
  BY <1>3

(* Every step keeps the ring a queue.                                      *)
LEMMA RingInvNext == TypeOK /\ RingInv /\ [Next]_vars => RingInv'
<1> SUFFICES ASSUME TypeOK, RingInv, [Next]_vars PROVE RingInv'
  OBVIOUS
<1>0. RingStep /\ RingComplete' /\ TypeOK'
  BY StepOfRing, RingNext, NextTyped DEF RingInv
<1>1. SenderKnown'
  <2>1. CASE skt' = NoClient
    <3>1. skt = NoClient /\ \A a \in Addr : Status(a)' = Status(a)
      <4>1. \A c \in Client : ~ServerReceive(c)
        BY <2>1, EntriesTyped DEF ServerReceive, ServerDiscover, ServerStarve,
             ServerRequest, ServerRelease, ServerUnknown, Returned
      <4>2. CASE ServerTick
        <5>1. skt' = skt
          BY <4>2 DEF ServerTick, ServerTickOnly, ServerExpire, ServerCount,
               ServerResend, ServerTimeout, Tick
        <5>2. \A i \in DOMAIN order : Status(order[i]) = "DISCOVER_WAIT"
          BY RingFacts, <2>1, <5>1 DEF RingInv, SenderKnown
        <5>3. ServerTickOnly
          BY <4>2, <5>2 DEF ServerTick, ServerExpire, ServerCount, ServerResend,
               ServerTimeout, FirstBusy
        <5>4. client_list' = [a \in Addr |-> Aged(a)]
          BY <5>3 DEF ServerTickOnly
        <5> QED
          BY <2>1, <5>1, <5>4, EntriesTyped DEF Status
      <4>3. CASE AlarmOutsideSelect \/ UNCHANGED serverVars
        BY <2>1, <4>3 DEF AlarmOutsideSelect, serverVars, Status
      <4> QED
        BY <4>1, <4>2, <4>3 DEF Next, ServerStep, ClientStep, Network, vars
    <3> QED
      BY <3>1 DEF RingInv, SenderKnown, Status
  <2>2. CASE skt' # NoClient
    BY <2>2 DEF SenderKnown
  <2> QED
    BY <2>1, <2>2
<1>2. FreeUnnamed'
  <2>1. \A c \in Client : c # NoClient
    BY EntriesTyped
  <2>2. FreeUnnamed
    BY DEF RingInv
  <2> QED
    BY <1>0, <2>1, <2>2 DEF RingStep, Unmoved, Offering, Granting, Freeing,
         Redirecting, Becomes, Kept, FreeUnnamed, Id, Status
<1>3. ASSUME order' = order,
             \A a \in Addr : Status(a)' = "DISCOVER_WAIT" <=> Status(a) = "DISCOVER_WAIT"
      PROVE  RingDistinct' /\ BusyFirst'
  BY <1>0, <1>3, BusyKept DEF RingInv, RingDistinct, BusyFirst
<1>4. CASE \E i \in DOMAIN order, a \in Addr : Freeing(i, a)
  <2>1. PICK i \in DOMAIN order, a \in Addr : Freeing(i, a)
    BY <1>4
  <2>2. Len(order') = Len(order) /\ Len(order) \in Nat
    BY <2>1, RingFacts, TailMoved DEF Freeing
  <2>3. RingDistinct' /\ \E k \in 1 .. Len(order) : Busy' = 1 .. k - 1
    BY <1>0, <2>1, AfterFreeing
  <2>4. BusyFirst'
    BY <2>2, <2>3 DEF BusyFirst
  <2> QED
    BY <1>0, <1>1, <1>2, <2>3, <2>4 DEF RingInv
<1>5. CASE \E i \in DOMAIN order, a \in Addr, c \in Client : Offering(i, a, c)
  <2>1. PICK i \in DOMAIN order, a \in Addr, c \in Client : Offering(i, a, c)
    BY <1>5
  <2>2. Busy' = 1 .. i /\ i \in 0 .. Len(order) /\ order' = order
    BY <1>0, <2>1, AfterOffering, RingFacts DEF Offering
  <2>3. RingDistinct' /\ BusyFirst'
    BY <2>2 DEF RingInv, RingDistinct, BusyFirst
  <2> QED
    BY <1>0, <1>1, <1>2, <2>3 DEF RingInv
<1>6. CASE Unmoved \/ \E c \in Client : Redirecting(c)
  BY <1>0, <1>1, <1>2, <1>3, <1>6 DEF Unmoved, Kept, Redirecting, RingInv
<1>7. CASE \E a \in Addr, c \in Client : Granting(a, c)
  <2>1. PICK a \in Addr, c \in Client : Granting(a, c)
    BY <1>7
  <2>2. Status(a) # "DISCOVER_WAIT"
    BY <2>1, EntriesTyped DEF Granting, RingInv, FreeUnnamed
  <2>3. RingDistinct' /\ BusyFirst'
    BY <1>3, <2>1, <2>2 DEF Granting, Becomes, Kept
  <2> QED
    BY <1>0, <1>1, <1>2, <2>3 DEF RingInv
<1> QED
  BY <1>0, <1>4, <1>5, <1>6, <1>7 DEF RingStep

LEMMA RingInvInit == Init => RingInv
<1> SUFFICES ASSUME Init PROVE RingInv
  OBVIOUS
<1>1. TypeOK /\ RingComplete
  BY InitTyped, RingInit
<1>2. \A a \in Addr : Status(a) = "DISCOVER_WAIT" /\ Id(a) = NoClient
  BY DEF Init, ServerInit, Status, Id
<1>3. FreeUnnamed /\ SenderKnown
  BY <1>2 DEF FreeUnnamed, SenderKnown
<1>4. RingDistinct
  <2>1. order \in [1 .. Cardinality(Addr) -> Addr]
        /\ \A i, j \in 1 .. Cardinality(Addr) : i # j => order[i] # order[j]
    BY DEF Init, ServerInit, SetToSeqs
  <2> QED
    BY <2>1 DEF RingDistinct
<1>5. BusyFirst
  <2>1. Busy = {}
    BY <1>1, <1>2, EntriesTyped DEF Busy, PositionsIn
  <2>2. Len(order) \in Nat
    BY <1>1 DEF TypeOK, ServerTypeOK
  <2>3. Busy = 1 .. 0 /\ 0 \in 0 .. Len(order)
    BY <2>1, <2>2
  <2> QED
    BY <2>3 DEF BusyFirst
<1> QED
  BY <1>1, <1>3, <1>4, <1>5 DEF RingInv

-----------------------------------------------------------------------------
(* The queue of the free entries, which LeasePool sees.                    *)
LEMMA BehindFirst ==
  ASSUME NEW S, NEW s \in Seq(S), NEW k \in 0 .. Len(s)
  PROVE  LET q == BehindLast(s, 1 .. k)
         IN  /\ q \in Seq(S) /\ Len(q) = Len(s) - k
             /\ \A j \in 1 .. Len(s) - k : q[j] = s[k + j]
<1> DEFINE n == Len(s)
<1>1. n \in Nat /\ k \in Nat /\ k <= n /\ \A j \in 1 .. n : s[j] \in S
  OBVIOUS
<1>2. Max((1 .. k) \cup {0}) = k
  <2>1. /\ k \in (1 .. k) \cup {0}
        /\ \A y \in (1 .. k) \cup {0} : k >= y /\ y \in Nat
    BY <1>1
  <2>2. \A x \in (1 .. k) \cup {0} :
          (\A y \in (1 .. k) \cup {0} : x >= y) => x = k
    BY <1>1, <2>1
  <2> QED
    BY <2>1, <2>2 DEF Max
<1>3. BehindLast(s, 1 .. k) = SubSeq(s, k + 1, n)
  BY <1>2 DEF BehindLast
<1> HIDE DEF n
<1>4. \A j \in k + 1 .. n : s[j] \in S
  BY <1>1
<1>5. /\ SubSeq(s, k + 1, n) \in Seq(S)
      /\ Len(SubSeq(s, k + 1, n)) = IF k + 1 <= n THEN n - (k + 1) + 1 ELSE 0
      /\ \A j \in 1 .. n - (k + 1) + 1 : SubSeq(s, k + 1, n)[j] = s[(k + 1) + j - 1]
  BY <1>1, <1>4, SubSeqProperties
<1>6. Len(SubSeq(s, k + 1, n)) = n - k
  BY <1>1, <1>5
<1>7. \A j \in 1 .. n - k : /\ j \in 1 .. n - (k + 1) + 1
                            /\ (k + 1) + j - 1 = k + j
  BY <1>1
<1>8. \A j \in 1 .. n - k : SubSeq(s, k + 1, n)[j] = s[k + j]
  BY <1>5, <1>7
<1> QED
  BY <1>3, <1>5, <1>6, <1>8 DEF n

(* The queue after its head is taken, and after an entry joins its tail.   *)
LEMMA BehindMore ==
  ASSUME NEW S, NEW s \in Seq(S), NEW k \in Nat, k < Len(s)
  PROVE  LET q == BehindLast(s, 1 .. k)
         IN  q # <<>> /\ Head(q) = s[k + 1] /\ Tail(q) = BehindLast(s, 1 .. k + 1)
<1> DEFINE n == Len(s)
           q == BehindLast(s, 1 .. k)
           t == BehindLast(s, 1 .. k + 1)
<1>1. n \in Nat /\ k \in 0 .. n /\ k + 1 \in 0 .. n
  OBVIOUS
<1>2. q \in Seq(S) /\ Len(q) = n - k /\ \A j \in 1 .. n - k : q[j] = s[k + j]
  BY <1>1, BehindFirst
<1>3. /\ t \in Seq(S) /\ Len(t) = n - (k + 1)
      /\ \A j \in 1 .. n - (k + 1) : t[j] = s[(k + 1) + j]
  BY <1>1, BehindFirst
<1>4. k < n
  OBVIOUS
<1> HIDE DEF n, q, t
<1>5. q # <<>> /\ 1 \in 1 .. n - k
  BY <1>1, <1>2, <1>4
<1>6. Head(q) = q[1] /\ q[1] = s[k + 1]
  BY <1>2, <1>5
<1>7. /\ Tail(q) \in Seq(S) /\ Len(Tail(q)) = n - (k + 1)
      /\ \A j \in 1 .. n - (k + 1) : Tail(q)[j] = q[j + 1]
  <2>1. /\ Tail(q) \in Seq(S) /\ Len(Tail(q)) = Len(q) - 1
        /\ \A j \in 1 .. Len(Tail(q)) : Tail(q)[j] = q[j + 1]
    BY <1>2, <1>5, HeadTailProperties
  <2>2. Len(q) - 1 = n - (k + 1)
    BY <1>1, <1>2
  <2> QED
    BY <2>1, <2>2
<1>8. ASSUME NEW j \in 1 .. n - (k + 1) PROVE Tail(q)[j] = t[j]
  <2>1. j + 1 \in 1 .. n - k /\ k + (j + 1) = (k + 1) + j
    BY <1>1
  <2>2. q[j + 1] = s[k + (j + 1)]
    BY <1>2, <2>1
  <2> QED
    BY <1>3, <1>7, <2>1, <2>2
<1>9. Tail(q) = t
  <2>1. Len(Tail(q)) = Len(t) /\ \A j \in 1 .. Len(Tail(q)) : Tail(q)[j] = t[j]
    BY <1>3, <1>7, <1>8
  <2> QED
    BY <1>3, <1>7, <2>1, SameSequence
<1> QED
  BY <1>5, <1>6, <1>9 DEF q, t

LEMMA BehindMoved ==
  ASSUME TypeOK, NEW i \in DOMAIN order, NEW k \in i .. Len(order)
  PROVE  BehindLast(MoveToTail(i), 1 .. k - 1)
           = Append(BehindLast(order, 1 .. k), order[i])
<1> DEFINE n == Len(order)
           moved == MoveToTail(i)
           q == BehindLast(order, 1 .. k)
           t == BehindLast(moved, 1 .. k - 1)
           more == Append(q, order[i])
<1>1. order \in Seq(Addr) /\ n \in Nat /\ i \in 1 .. n /\ k \in i .. n
  BY DEF TypeOK, ServerTypeOK
<1>2. /\ moved \in Seq(Addr) /\ Len(moved) = n
      /\ \A l \in 1 .. n : moved[l] = IF l < i THEN order[l]
                                      ELSE IF l < n THEN order[l + 1] ELSE order[i]
  BY <1>1, TailMoved
<1>3. q \in Seq(Addr) /\ Len(q) = n - k /\ \A j \in 1 .. n - k : q[j] = order[k + j]
  <2>1. k \in 0 .. n
    BY <1>1
  <2> QED
    BY <1>1, <2>1, BehindFirst
<1>4. /\ t \in Seq(Addr) /\ Len(t) = n - (k - 1)
      /\ \A j \in 1 .. n - (k - 1) : t[j] = moved[(k - 1) + j]
  <2>1. k - 1 \in 0 .. Len(moved)
    <3> HIDE DEF moved, n
    <3> QED
      BY <1>1, <1>2
  <2> HIDE DEF moved, n, q, more
  <2>2. /\ t \in Seq(Addr) /\ Len(t) = Len(moved) - (k - 1)
        /\ \A j \in 1 .. Len(moved) - (k - 1) : t[j] = moved[(k - 1) + j]
    BY <1>2, <2>1, BehindFirst
  <2> QED
    BY <1>2, <2>2
<1>5. order[i] \in Addr
  BY <1>1
<1> HIDE DEF n, moved, q, t
<1>6. /\ more \in Seq(Addr) /\ Len(more) = Len(q) + 1
      /\ \A j \in 1 .. Len(q) : more[j] = q[j]
      /\ more[Len(q) + 1] = order[i]
  BY <1>3, <1>5, AppendProperties
<1> HIDE DEF more
<1>7. Len(more) = Len(t)
  BY <1>1, <1>3, <1>4, <1>6
<1>8. ASSUME NEW j \in 1 .. Len(more) PROVE more[j] = t[j]
  <2> DEFINE l == (k - 1) + j
  <2>1. l \in 1 .. n /\ ~(l < i) /\ j \in 1 .. n - (k - 1)
    BY <1>1, <1>3, <1>6
  <2>2. t[j] = IF l < n THEN order[l + 1] ELSE order[i]
    <3> HIDE DEF l
    <3>1. t[j] = moved[l]
      BY <1>4, <2>1 DEF l
    <3> QED
      BY <1>2, <2>1, <3>1
  <2>3. CASE j = Len(q) + 1
    <3>1. ~(l < n)
      BY <1>1, <1>3, <2>3
    <3> QED
      BY <1>6, <2>2, <2>3, <3>1
  <2>4. CASE j \in 1 .. Len(q)
    <3>1. l < n /\ l + 1 = k + j /\ j \in 1 .. n - k
      BY <1>1, <1>3, <2>4
    <3>2. more[j] = order[k + j]
      BY <1>3, <1>6, <2>4, <3>1
    <3> HIDE DEF l
    <3> QED
      BY <2>2, <3>1, <3>2
  <2>5. Len(q) \in Nat
    BY <1>3
  <2> QED
    BY <1>6, <2>3, <2>4, <2>5
<1>9. more = t
  BY <1>4, <1>6, <1>7, <1>8, SameSequence
<1> QED
  BY <1>9 DEF more, t, q, moved

LEMMA PoolStep ==
  TypeOK /\ RingInv /\ [Next]_vars => [Pool!PoolNext]_Pool!poolVars
<1> SUFFICES ASSUME TypeOK, RingInv, [Next]_vars
             PROVE  [Pool!PoolNext]_Pool!poolVars
  OBVIOUS
<1> DEFINE queue   == BehindLast(order, Busy)
           named   == [a \in Addr |-> Id(a)]
           allowed == {a \in Addr : Status(a) = "IP_ALLOC"}
<1>0. RingStep /\ TypeOK'
  BY StepOfRing, NextTyped
<1>1. order \in Seq(Addr) /\ Len(order) \in Nat /\ DOMAIN order = 1 .. Len(order)
  BY RingFacts
<1>2. ASSUME order' = order,
             \A a \in Addr : Status(a)' = "DISCOVER_WAIT" <=> Status(a) = "DISCOVER_WAIT"
      PROVE  queue' = queue
  BY <1>0, <1>2, BusyKept
<1>3. CASE Unmoved
  <2>1. queue' = queue /\ named' = named /\ allowed' = allowed
    BY <1>2, <1>3 DEF Unmoved, Kept
  <2> QED
    BY <2>1 DEF Pool!poolVars
<1>4. CASE \E i \in DOMAIN order, a \in Addr, c \in Client : Offering(i, a, c)
  <2>1. PICK i \in DOMAIN order, a \in Addr, c \in Client : Offering(i, a, c)
    BY <1>4
  <2>2. /\ order' = order /\ order[i] = a /\ Busy = 1 .. i - 1 /\ Busy' = 1 .. i
        /\ Becomes(a, c, "REQUEST_WAIT")
    BY <1>0, <2>1, AfterOffering DEF Offering
  <2> DEFINE k == i - 1
  <2>3. k \in Nat /\ k < Len(order) /\ k + 1 = i
    BY <1>1
  <2>4. Busy = 1 .. k /\ Busy' = 1 .. k + 1 /\ order[k + 1] = a
    BY <2>2, <2>3
  <2> HIDE DEF k
  <2>5. queue # <<>> /\ Head(queue) = a /\ queue' = Tail(queue)
    <3>1. queue = BehindLast(order, 1 .. k) /\ queue' = BehindLast(order, 1 .. k + 1)
      BY <2>2, <2>4
    <3> QED
      BY <1>1, <2>3, <2>4, <3>1, BehindMore
  <2>6. named' = [named EXCEPT ![a] = c]
    BY <2>2 DEF Becomes, Kept
  <2>7. allowed' = allowed
    <3>1. Status(a) # "IP_ALLOC"
      <4>1. i \notin Busy
        BY <1>1, <2>2
      <4> QED
        BY <2>2, <4>1, RingFacts
    <3> QED
      BY <2>2, <3>1 DEF Becomes, Kept
  <2>8. Pool!OfferHead(c)
    BY <2>5, <2>6, <2>7 DEF Pool!OfferHead
  <2> QED
    BY <2>8 DEF Pool!PoolNext
<1>5. CASE \E a \in Addr, c \in Client : Granting(a, c)
  <2>1. PICK a \in Addr, c \in Client : Granting(a, c)
    BY <1>5
  <2>2. order' = order /\ Id(a) = c /\ Becomes(a, c, "IP_ALLOC")
    BY <2>1 DEF Granting
  <2>3. c # NoClient /\ Status(a) # "DISCOVER_WAIT"
    BY <2>2, EntriesTyped DEF RingInv, FreeUnnamed
  <2>4. queue' = queue
    BY <1>2, <2>2, <2>3 DEF Becomes, Kept
  <2>5. named' = named /\ allowed' = allowed \cup {a}
    BY <2>2 DEF Becomes, Kept
  <2>6. Pool!Grant(a)
    BY <2>2, <2>3, <2>4, <2>5 DEF Pool!Grant
  <2> QED
    BY <2>6 DEF Pool!PoolNext
<1>6. CASE \E i \in DOMAIN order, a \in Addr : Freeing(i, a)
  <2>1. PICK i \in DOMAIN order, a \in Addr : Freeing(i, a)
    BY <1>6
  <2>2. /\ order' = MoveToTail(i) /\ order[i] = a /\ Status(a) = "IP_ALLOC"
        /\ Becomes(a, NoClient, "DISCOVER_WAIT")
    BY <2>1 DEF Freeing
  <2>3. PICK k \in 1 .. Len(order) : i <= k /\ Busy = 1 .. k /\ Busy' = 1 .. k - 1
    BY <1>0, <2>1, AfterFreeing
  <2>4. queue' = Append(queue, a)
    <3>1. k \in i .. Len(order)
      BY <1>1, <2>3
    <3>2. queue = BehindLast(order, 1 .. k)
          /\ queue' = BehindLast(MoveToTail(i), 1 .. k - 1)
      BY <2>2, <2>3
    <3> QED
      BY <2>2, <3>1, <3>2, BehindMoved
  <2>5. named' = [named EXCEPT ![a] = NoClient] /\ allowed' = allowed \ {a}
    BY <2>2 DEF Becomes, Kept
  <2>6. a \in allowed
    BY <2>2
  <2>7. Pool!GiveBack(a)
    BY <2>4, <2>5, <2>6 DEF Pool!GiveBack
  <2> QED
    BY <2>7 DEF Pool!PoolNext
<1>7. CASE \E c \in Client : Redirecting(c)
  <2>1. PICK c \in Client : Redirecting(c)
    BY <1>7
  <2>2. queue' = queue /\ allowed' = allowed
    BY <1>2, <2>1 DEF Redirecting
  <2>3. \A a \in Addr : Status(a) = "REQUEST_WAIT" <=> Id(a) # NoClient /\ a \notin allowed
    <3>1. \A a \in Addr : Status(a) \in {"DISCOVER_WAIT", "REQUEST_WAIT", "IP_ALLOC"}
      BY EntriesTyped DEF Status
    <3> QED
      BY <3>1 DEF RingInv, FreeUnnamed
  <2>4. named' = [a \in Addr |-> IF named[a] # NoClient /\ a \notin allowed
                                THEN c ELSE named[a]]
    BY <2>1, <2>3 DEF Redirecting
  <2>5. Pool!Redirect(c)
    BY <2>2, <2>4 DEF Pool!Redirect
  <2> QED
    BY <2>5 DEF Pool!PoolNext
<1> QED
  BY <1>0, <1>3, <1>4, <1>5, <1>6, <1>7 DEF RingStep

(* The server's ring, searched from its head and rearranged by             *)
(* remove_and_insert(), is a first-in first-out pool of addresses: with    *)
(* any number of them, whatever datagrams come and whatever runs out       *)
(* (server.c:298-377, 431-513).                                            *)
THEOREM RingImplementsPool == Spec => ImplementsPool
<1>1. Init => Pool!PoolInit
  <2> SUFFICES ASSUME Init PROVE Pool!PoolInit
    OBVIOUS
  <2>1. order \in SetToSeqs(Addr) /\ order \in Seq(Addr) /\ TypeOK
    BY InitTyped DEF Init, ServerInit, TypeOK, ServerTypeOK
  <2>2. \A a \in Addr : Status(a) = "DISCOVER_WAIT" /\ Id(a) = NoClient
    BY DEF Init, ServerInit, Status, Id
  <2>3. Busy = 1 .. 0 /\ Len(order) \in Nat
    BY <2>1, <2>2, EntriesTyped DEF Busy, PositionsIn
  <2>4. BehindLast(order, Busy) = order
    <3> DEFINE q == BehindLast(order, 1 .. 0)
    <3>1. /\ q \in Seq(Addr) /\ Len(q) = Len(order) - 0
          /\ \A j \in 1 .. Len(order) - 0 : q[j] = order[0 + j]
      <4>1. 0 \in 0 .. Len(order)
        BY <2>3
      <4> QED
        BY <2>1, <4>1, BehindFirst
    <3> HIDE DEF q
    <3>2. Len(q) = Len(order) /\ \A j \in 1 .. Len(q) : q[j] = order[j]
      BY <2>3, <3>1
    <3>3. q = order
      BY <2>1, <3>1, <3>2, SameSequence
    <3> QED
      BY <2>3, <3>3 DEF q
  <2>5. Pool!SetToSeqs(Addr) = SetToSeqs(Addr)
    <3>1. Pool!Cardinality(Addr) = Cardinality(Addr)
      BY DEF Cardinality, Pool!Cardinality
    <3> QED
      BY <3>1 DEF SetToSeqs, Pool!SetToSeqs
  <2> QED
    BY <2>1, <2>2, <2>4, <2>5 DEF Pool!PoolInit
<1> QED
  BY <1>1, InitTyped, NextTyped, RingInvInit, RingInvNext, PoolStep,
     PTL DEF Spec, ImplementsPool, Pool!PoolSpec

-----------------------------------------------------------------------------
(* Renewals.  The address a client has, or is being told, is that of the   *)
(* first entry in its name: entries it gets later stand behind it.         *)
FirstOf(c, a) ==
  /\ Id(a) = c
  /\ \E i \in DOMAIN order :
       /\ order[i] = a
       /\ \A j \in DOMAIN order, b \in Addr : order[j] = b /\ Id(b) = c => i <= j

FirstInv ==
  ~ranOut /\ ~timeoutflag
    => \A c \in Client, a \in Addr :
         status[c] # "EXIT" /\ (InTransit(Ack(c, a)) \/ address[c] = a)
           => FirstOf(c, a)

LEMMA FirstUnique ==
  ASSUME TypeOK, NEW c, NEW a \in Addr, NEW b \in Addr, FirstOf(c, a), FirstOf(c, b)
  PROVE  a = b
<1>1. PICK i \in DOMAIN order :
        order[i] = a /\ \A j \in DOMAIN order, e \in Addr : order[j] = e /\ Id(e) = c => i <= j
  BY DEF FirstOf
<1>2. PICK j \in DOMAIN order :
        order[j] = b /\ \A l \in DOMAIN order, e \in Addr : order[l] = e /\ Id(e) = c => j <= l
  BY DEF FirstOf
<1>3. i <= j /\ j <= i
  BY <1>1, <1>2 DEF FirstOf
<1>4. i \in Nat /\ j \in Nat
  BY DEF TypeOK, ServerTypeOK
<1> QED
  BY <1>1, <1>2, <1>3, <1>4

(* As long as no OFFER is resent, the first entry of a client stays so     *)
(* until it is released.                                                   *)
LEMMA FirstStays ==
  ASSUME TypeOK, TypeOK', RingInv, RingStep, ~timeoutflag',
         NEW c \in Client, NEW a \in Addr, FirstOf(c, a),
         \A i \in DOMAIN order, b \in Addr : Freeing(i, b) => Id(b) # c
  PROVE  FirstOf(c, a)'
<1> DEFINE n == Len(order)
<1>1. /\ n \in Nat /\ DOMAIN order = 1 .. n /\ RingDistinct
      /\ \A j \in DOMAIN order : order[j] \in Addr
      /\ c # NoClient /\ Id(a) = c
  BY RingFacts, EntriesTyped DEF RingInv, FirstOf
<1>2. PICK p \in 1 .. n :
        /\ order[p] = a
        /\ \A j \in 1 .. n, b \in Addr : order[j] = b /\ Id(b) = c => p <= j
  BY <1>1 DEF FirstOf
<1>3. ASSUME order' = order, Id(a)' = c,
             \A j \in 1 .. n, b \in Addr : order[j] = b /\ Id(b)' = c => p <= j
      PROVE  FirstOf(c, a)'
  BY <1>1, <1>2, <1>3 DEF FirstOf, Id
<1>4. ASSUME order' = order, \A b \in Addr : Id(b)' = Id(b) PROVE FirstOf(c, a)'
  BY <1>1, <1>2, <1>3, <1>4
<1>5. CASE Unmoved \/ \E b \in Addr, d \in Client : Granting(b, d)
  BY <1>4, <1>5 DEF Unmoved, Granting, Becomes, Kept
<1>6. CASE \E i \in DOMAIN order, b \in Addr, d \in Client : Offering(i, b, d)
  <2>1. PICK i \in DOMAIN order, b \in Addr, d \in Client : Offering(i, b, d)
    BY <1>6
  <2>2. /\ order' = order /\ order[i] = b /\ Busy = 1 .. i - 1
        /\ Becomes(b, d, "REQUEST_WAIT")
    BY <2>1 DEF Offering
  <2>3. p \in 1 .. i - 1
    BY <1>1, <1>2, <2>2, RingFacts
  <2>4. a # b /\ p <= i
    BY <1>1, <1>2, <2>2, <2>3 DEF RingDistinct
  <2>5. ASSUME NEW j \in 1 .. n, NEW e \in Addr, order[j] = e, Id(e)' = c
        PROVE  p <= j
    <3>1. CASE e = b
      BY <1>1, <2>2, <2>4, <2>5, <3>1 DEF RingDistinct
    <3>2. CASE e # b
      BY <1>2, <2>2, <2>5, <3>2 DEF Becomes, Kept
    <3> QED
      BY <3>1, <3>2
  <2> QED
    BY <1>1, <1>3, <2>2, <2>4, <2>5 DEF Becomes, Kept
<1>7. CASE \E i \in DOMAIN order, b \in Addr : Freeing(i, b)
  <2>1. PICK i \in DOMAIN order, b \in Addr : Freeing(i, b)
    BY <1>7
  <2>2. /\ order' = MoveToTail(i) /\ order[i] = b /\ i \in 1 .. n
        /\ Becomes(b, NoClient, "DISCOVER_WAIT")
    BY <1>1, <2>1 DEF Freeing
  <2>3. a # b /\ p # i
    BY <1>1, <1>2, <2>1, <2>2
  <2>4. /\ Len(order') = n /\ DOMAIN order' = 1 .. n
        /\ \A j \in 1 .. n : order'[j] = IF j < i THEN order[j]
                                         ELSE IF j < n THEN order[j + 1] ELSE b
    BY <2>2, RingFacts, TailMoved
  <2>5. /\ Id(a)' = c /\ Id(b)' # c
        /\ \A e \in Addr : e # b => Id(e)' = Id(e)
    BY <1>1, <2>2, <2>3 DEF Becomes, Kept
  <2> DEFINE q == IF p < i THEN p ELSE p - 1
  <2> HIDE DEF n
  <2>6. q \in 1 .. n /\ order'[q] = a
    <3>1. CASE p < i
      BY <1>1, <1>2, <2>2, <2>4, <3>1
    <3>2. CASE p > i
      <4>1. q = p - 1 /\ q \in 1 .. n /\ ~(q < i) /\ q < n /\ q + 1 = p
        BY <1>1, <2>2, <3>2
      <4> HIDE DEF q
      <4> QED
        BY <1>2, <2>4, <4>1
    <3> QED
      BY <1>1, <2>2, <2>3, <3>1, <3>2
  <2>7. ASSUME NEW j \in 1 .. n, NEW e \in Addr, order'[j] = e, Id(e)' = c
        PROVE  q <= j
    <3>1. e # b /\ Id(e) = c
      BY <2>5, <2>7
    <3>2. CASE j < i
      <4>1. p <= j
        BY <1>2, <2>4, <2>7, <3>1, <3>2
      <4> QED
        BY <1>1, <2>2, <3>2, <4>1
    <3>3. CASE ~(j < i)
      <4>1. j < n /\ e = order[j + 1] /\ j + 1 \in 1 .. n
        BY <1>1, <2>4, <2>7, <3>1, <3>3
      <4>2. p <= j + 1
        BY <1>2, <3>1, <4>1
      <4> QED
        BY <1>1, <2>2, <3>3, <4>2
    <3> QED
      BY <3>2, <3>3
  <2> HIDE DEF q
  <2>8. Id(a)' = c /\ \E l \in DOMAIN order' :
                       /\ order'[l] = a
                       /\ \A j \in DOMAIN order', e \in Addr :
                            order'[j] = e /\ Id(e)' = c => l <= j
    BY <2>4, <2>5, <2>6, <2>7
  <2> QED
    BY <2>8 DEF FirstOf, Id
<1> QED
  BY <1>5, <1>6, <1>7 DEF RingStep, Redirecting

(* The server acknowledges the first entry of the client it answers.       *)
LEMMA AckNamesFirst ==
  ASSUME TypeOK, RingInv, ServerStep, NEW c \in Client, NEW a \in Addr,
         InTransit(Ack(c, a))'
  PROVE  InTransit(Ack(c, a)) \/ FirstOf(c, a)
<1> USE DEF TypeOK
<1>1. CASE ServerTick \/ AlarmOutsideSelect
  <2>1. UNCHANGED netVars => NoNewAck
    BY DEF netVars, InTransit, NoNewAck
  <2>2. CASE ServerResend
    <3>1. PICK out : out = {Offer(skt, b) : b \in {b \in Addr : Status(b) = "REQUEST_WAIT"}}
      OBVIOUS
    <3>2. Send(out)
      BY <2>2, <3>1 DEF ServerResend
    <3>3. OnlySends(out)
      BY <3>2, SendAdds
    <3>4. \A d \in Client, e \in Addr : Ack(d, e) \notin out
      BY <3>1, MessagesDiffer
    <3> QED
      BY <3>3, <3>4, SendsNeither DEF NoNewAck
  <2> QED
    BY <1>1, <2>1, <2>2 DEF ServerTick, AlarmOutsideSelect, ServerTickOnly,
       ServerExpire, ServerCount, ServerTimeout, NoNewAck
<1>2. ASSUME NEW d \in Client, ServerReceive(d)
      PROVE  InTransit(Ack(c, a)) \/ FirstOf(c, a)
  <2>1. ASSUME NEW x, NEW out, ReceiveAndSend(x, out),
               \A f \in Client, e \in Addr : Ack(f, e) \notin out
        PROVE  InTransit(Ack(c, a))
    <3>1. OnlySends(out)
      BY <2>1, ReceiveAdds
    <3> QED
      BY <2>1, <3>1, SendsNeither DEF NoNewAck
  <2>2. CASE ServerDiscover(d)
    <3>1. PICK i \in DOMAIN order : ReceiveAndSend(Discover(d), {Offer(d, order[i])})
      BY <2>2 DEF ServerDiscover
    <3>2. \A f, e : Ack(f, e) \notin {Offer(d, order[i])}
      BY MessagesDiffer
    <3> QED
      BY <2>1, <3>1, <3>2
  <2>3. CASE ServerStarve(d)
    <3>1. \A f, e : Ack(f, e) \notin {Starve(d)}
      BY MessagesDiffer
    <3> QED
      BY <2>1, <2>3, <3>1 DEF ServerStarve
  <2>4. CASE ServerRelease(d)
    BY <2>1, <2>4 DEF ServerRelease
  <2>5. CASE ServerUnknown(d)
    BY <2>1, <2>5 DEF ServerUnknown
  <2>6. CASE ServerRequest(d)
    <3>1. PICK i \in DOMAIN order :
            /\ IsFirst(i, Matching(d, "REQUEST"))
            /\ ReceiveAndSend(Request(d), {Ack(d, order[i])})
      BY <2>6 DEF ServerRequest
    <3>2. OnlySends({Ack(d, order[i])})
      BY <3>1, ReceiveAdds
    <3>3. InTransit(Ack(c, a)) \/ (c = d /\ a = order[i])
      BY <1>2, <3>2, MessagesDiffer DEF OnlySends, InTransit
    <3>4. /\ Id(order[i]) = d
          /\ \A j \in DOMAIN order : Id(order[j]) = d => i <= j
      BY <3>1, FirstNamed
    <3> QED
      BY <3>3, <3>4 DEF FirstOf
  <2> QED
    BY <1>2, <2>2, <2>3, <2>4, <2>5, <2>6 DEF ServerReceive
<1> QED
  BY <1>1, <1>2 DEF ServerStep

LEMMA FirstInvNext ==
  TypeOK /\ RingInv /\ LeaseInv /\ FirstInv /\ [Next]_vars => FirstInv'
<1> SUFFICES ASSUME TypeOK, RingInv, LeaseInv, FirstInv, [Next]_vars,
                    ~ranOut', ~timeoutflag', NEW c \in Client, NEW a \in Addr,
                    status'[c] # "EXIT", InTransit(Ack(c, a))' \/ address'[c] = a
             PROVE  FirstOf(c, a)'
  <2>1. ASSUME NEW c \in Client, NEW a \in Addr
        PROVE  (status[c] # "EXIT" /\ (InTransit(Ack(c, a)) \/ address[c] = a))'
                 <=> status'[c] # "EXIT" /\ (InTransit(Ack(c, a))' \/ address'[c] = a)
    OBVIOUS
  <2> QED
    BY <2>1 DEF FirstInv
<1>0. TypeOK' /\ RingStep
  BY NextTyped, StepOfRing
<1>1. UNCHANGED serverVars /\ FirstOf(c, a) => FirstOf(c, a)'
  BY DEF serverVars, FirstOf, Id
<1>2. CASE ServerStep
  <2>1. ServerPreserves /\ UNCHANGED clientVars
    BY <1>2, ReceivePreserves, AlarmPreserves DEF ServerStep
  <2>2. ~timeoutflag
    <3>1. timeoutflag => timeoutflag'
      BY <1>2 DEF ServerStep, ServerReceive, ServerDiscover, ServerStarve,
           ServerRequest, ServerRelease, ServerUnknown, Returned, ServerTick,
           AlarmOutsideSelect, ServerTickOnly, ServerExpire, ServerCount,
           ServerResend, ServerTimeout
    <3> QED
      BY <3>1
  <2>3. ~ranOut /\ status[c] # "EXIT"
    BY <2>1 DEF ServerPreserves, clientVars
  <2>4. FirstOf(c, a)
    <3>1. CASE address'[c] = a
      BY <2>1, <2>2, <2>3, <3>1 DEF clientVars, FirstInv
    <3>2. CASE InTransit(Ack(c, a))'
      BY <1>2, <2>2, <2>3, <3>2, AckNamesFirst DEF FirstInv
    <3> QED
      BY <3>1, <3>2
  <2>5. ASSUME NEW i \in DOMAIN order, NEW b \in Addr, Freeing(i, b)
        PROVE  Id(b) # c
    <3>1. Status(b) = "IP_ALLOC" /\ Status(b)' = "DISCOVER_WAIT"
      BY <2>5 DEF Freeing, Becomes
    <3>2. Id(b) = c => Leased(b, c) /\ ~Leased(b, c)'
      BY <3>1 DEF Leased
    <3>3. ~InTransit(Release(c))
      BY <2>3 DEF LeaseInv, ReleasedHaveExited
    <3> QED
      BY <2>1, <3>2, <3>3 DEF ServerPreserves
  <2> QED
    BY <1>0, <2>4, <2>5, FirstStays
<1>3. CASE ClientStep
  <2>1. ClientPreserves /\ UNCHANGED serverVars
    BY <1>3, ClientStepPreserves DEF ClientStep
  <2>2. ~ranOut /\ ~timeoutflag /\ status[c] # "EXIT"
    BY <2>1 DEF ClientPreserves, serverVars
  <2>3. InTransit(Ack(c, a)) \/ address[c] = a
    BY <2>1 DEF ClientPreserves, NoNewAck
  <2> QED
    BY <1>1, <2>1, <2>2, <2>3 DEF FirstInv
<1>4. CASE Network \/ UNCHANGED vars
  <2>1. NoNewAck
    <3>1. Network => OnlySends({})
      BY FaultAdds DEF Network, TypeOK
    <3>2. UNCHANGED vars => NoNewAck
      BY DEF vars, netVars, InTransit, NoNewAck
    <3> QED
      BY <1>4, <3>1, <3>2, SendsNeither
  <2>2. UNCHANGED <<serverVars, clientVars>>
    BY <1>4 DEF Network, vars
  <2>3. /\ ~ranOut /\ ~timeoutflag /\ status[c] # "EXIT"
        /\ InTransit(Ack(c, a)) \/ address[c] = a
    BY <2>1, <2>2 DEF serverVars, clientVars, NoNewAck
  <2> QED
    BY <1>1, <2>2, <2>3 DEF FirstInv
<1> QED
  BY <1>2, <1>3, <1>4 DEF Next

(* A client's address never changes under it: as long as no lease has run  *)
(* out and no OFFER was sent again, the ACK of a renewal names the address *)
(* the client has, although a DISCOVER the network repeated may have given *)
(* it a second entry of the ring (server.c:331-377, socket.c:119-149).     *)
THEOREM RenewalsKeepAddresses == Spec => RenewalKeepsAddress
<1>1. Init => FirstInv
  <2> SUFFICES ASSUME Init, NEW c \in Client, NEW a \in Addr
               PROVE  ~InTransit(Ack(c, a)) /\ address[c] # a
    BY DEF FirstInv
  <2>1. address[c] = NoAddr /\ NoAddr # a
    <3>1. NoAddr \notin Addr
      BY NetAssumption, SMTT(30)
    <3> QED
      BY <3>1 DEF Init, ClientInit
  <2>2. net[Ack(c, a)] = 0
    BY MessagesDiffer DEF Init, NetInit
  <2> QED
    BY <2>1, <2>2 DEF InTransit
<1>2. TypeOK /\ FirstInv /\ [Next]_vars
        => [\A c \in Client : address[c] # NoAddr /\ ~ranOut /\ ~timeoutflag
                               => address'[c] = address[c]]_vars
  <2> SUFFICES ASSUME TypeOK, FirstInv, Next, NEW c \in Client,
                      address[c] # NoAddr, ~ranOut, ~timeoutflag, address'[c] # address[c]
               PROVE  FALSE
    OBVIOUS
  <2>1. address[c] \in Addr /\ address \in [Client -> Addr \cup {NoAddr}]
    BY DEF TypeOK, ClientTypeOK
  <2>2. ClientStep
    BY DEF Next, ServerStep, Network, clientVars
  <2>3. ClientAck(c)
    BY <2>1, <2>2 DEF ClientStep, ClientNext, ClientStart, ClientOffer, ClientAck,
         ClientIllegal, ClientHangUp, ClientReleasePrep, ClientAlarm, ClientKilled,
         ClientGone, clientVars
  <2>4. PICK a \in Addr : /\ ReceiveAndSend(Ack(c, a), {})
                          /\ address' = [address EXCEPT ![c] = a]
    BY <2>3 DEF ClientAck
  <2>5. InTransit(Ack(c, a)) /\ status[c] = "ACK_WAIT" /\ address'[c] = a
    BY <2>1, <2>3, <2>4 DEF ClientAck, ReceiveAndSend
  <2>6. FirstOf(c, a) /\ FirstOf(c, address[c])
    BY <2>1, <2>5 DEF FirstInv
  <2> QED
    BY <2>1, <2>5, <2>6, FirstUnique
<1> QED
  BY <1>1, <1>2, InitTyped, NextTyped, RingInvInit, RingInvNext, LeaseInvInit,
     LeaseInvNext, FirstInvNext, PTL DEF Spec, RenewalKeepsAddress
=============================================================================
