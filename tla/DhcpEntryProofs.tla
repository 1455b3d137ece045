--------------------------- MODULE DhcpEntryProofs ---------------------------
(***************************************************************************)
(* The entries of the server's ring: none is taken twice by one client and *)
(* none is forgotten, for any number of clients and addresses, as long as  *)
(* the faults that do it stay away; and no lease runs out on a client that *)
(* renews it, which relates the clocks of the two programs.                *)
(***************************************************************************)
EXTENDS MyDhcpProofs, MyDhcpTimed

(* What one step may do to one datagram.                                   *)
LEMMA SendCounts ==
  ASSUME NetTypeOK, NEW out, Send(out)
  PROVE  /\ \A m \in Message : m \notin out => net'[m] = net[m]
         /\ \A m \in Message : m \in out => net'[m] = net[m] + 1
         /\ lost' = lost /\ dups' = dups
BY DEF NetTypeOK, Send

LEMMA ReceiveCounts ==
  ASSUME NetTypeOK, NEW x, NEW out, ReceiveAndSend(x, out)
  PROVE  /\ \A m \in Message : m \notin out /\ m # x => net'[m] = net[m]
         /\ \A m \in Message : m \in out /\ m # x => net'[m] = net[m] + 1
         /\ \A m \in Message : m = x /\ m \notin out => net'[m] = net[m] - 1
         /\ net[x] > 0 /\ lost' = lost /\ dups' = dups
BY DEF NetTypeOK, ReceiveAndSend, InTransit

LEMMA CountsNatural ==
  ASSUME TypeOK
  PROVE  /\ \A m \in Message : net[m] \in Nat
         /\ dups \in Nat /\ lost \in Nat /\ kills \in Nat
  BY ConstantsTyped DEF TypeOK, NetTypeOK, ClientTypeOK

(* The datagrams of a client are told apart by type and address.           *)
LEMMA PeersDiffer ==
  /\ \A c \in Client : /\ Discover(c) \in Message /\ Discover(c).peer = c
                       /\ Request(c) \in Message /\ Request(c).peer = c
                       /\ Release(c) \in Message /\ Release(c).peer = c
                       /\ Starve(c) \in Message /\ Starve(c).peer = c
  /\ \A c \in Client, a \in Addr : /\ Offer(c, a) \in Message /\ Offer(c, a).peer = c
                                   /\ Ack(c, a) \in Message /\ Ack(c, a).peer = c
  /\ \A c, d : Discover(c) = Discover(d) => c = d
  /\ \A c, d, b : Discover(c) \notin {Offer(d, b), Ack(d, b), Starve(d),
                                      Request(d), Release(d)}
BY DEF Ack, Release, Offer, Starve, Discover, Request, Message

-----------------------------------------------------------------------------
(* A client discovers once, and has no entry before the server reads that. *)
OneEntryOf(c) ==
  /\ net[Discover(c)] <= 1
  /\ status[c] = "INIT" => net[Discover(c)] = 0
  /\ status[c] = "INIT" \/ net[Discover(c)] > 0 => \A a \in Addr : Id(a) # c
  /\ \A a, b \in Addr : Id(a) = c /\ Id(b) = c => a = b

EntryInv == dups = 0 /\ ~timeoutflag => \A c \in Client : OneEntryOf(c)

(* The step gives the client nothing new.                                  *)
Fewer(c) == /\ net'[Discover(c)] <= net[Discover(c)]
            /\ status'[c] = "INIT" => status[c] = "INIT"
            /\ \A a \in Addr : Id(a)' = c => Id(a) = c

LEMMA FewerKeeps ==
  ASSUME TypeOK, TypeOK', NEW c \in Client, OneEntryOf(c), Fewer(c)
  PROVE  OneEntryOf(c)'
<1>1. net[Discover(c)] \in Nat /\ net'[Discover(c)] \in Nat
  BY PeersDiffer DEF TypeOK, NetTypeOK
<1> QED
  BY <1>1 DEF OneEntryOf, Fewer, Id

LEMMA ReceiveKeepsOne ==
  ASSUME TypeOK, TypeOK', \A c \in Client : OneEntryOf(c),
         NEW d \in Client, ServerReceive(d), UNCHANGED clientVars
  PROVE  \A c \in Client : OneEntryOf(c)'
<1> USE DEF TypeOK
<1>0. /\ status' = status
      /\ \A c \in Client : net[Discover(c)] \in Nat
  BY CountsNatural, PeersDiffer DEF clientVars
<1>1. CASE ServerDiscover(d)
  <2>1. PICK i \in DOMAIN order :
          /\ client_list' = [client_list EXCEPT ![order[i]] = OfferedTo(order[i], d)]
          /\ ReceiveAndSend(Discover(d), {Offer(d, order[i])})
    BY <1>1 DEF ServerDiscover
  <2>2. PICK e \in Addr : e = order[i]
    BY EntriesTyped
  <2>3. \A a \in Addr : IF a = e THEN Id(a)' = d ELSE Id(a)' = Id(a)
    <3>1. client_list' = [client_list EXCEPT ![e] = OfferedTo(e, d)]
      BY <2>1, <2>2
    <3>2. OfferedTo(e, d).id = d
      BY EntriesTyped DEF OfferedTo
    <3> QED
      BY <3>1, <3>2, EntriesTyped DEF Id
  <2>4. net[Discover(d)] > 0 /\ net'[Discover(d)] = net[Discover(d)] - 1
    BY <2>1, ReceiveCounts, PeersDiffer
  <2>5. ASSUME NEW c \in Client, c # d PROVE OneEntryOf(c)'
    <3>1. net'[Discover(c)] = net[Discover(c)]
      BY <2>1, <2>5, ReceiveCounts, PeersDiffer
    <3>2. Fewer(c)
      BY <1>0, <2>3, <2>5, <3>1 DEF Fewer
    <3> QED
      BY <3>2, FewerKeeps
  <2>6. OneEntryOf(d)'
    <3>1. net[Discover(d)] = 1 /\ \A a \in Addr : Id(a) # d
      BY <1>0, <2>4 DEF OneEntryOf
    <3>2. net'[Discover(d)] = 0 /\ status[d] # "INIT"
      BY <2>4, <3>1 DEF OneEntryOf
    <3>3. \A a, b \in Addr : Id(a)' = d /\ Id(b)' = d => a = b
      BY <2>3, <3>1
    <3> QED
      BY <1>0, <3>2, <3>3 DEF OneEntryOf, Id
  <2> QED
    BY <2>5, <2>6
<1>2. ASSUME ~ServerDiscover(d), NEW c \in Client PROVE OneEntryOf(c)'
  <2>1. net'[Discover(c)] <= net[Discover(c)]
    <3>1. ASSUME NEW x, NEW out, ReceiveAndSend(x, out), Discover(c) \notin out
          PROVE  net'[Discover(c)] <= net[Discover(c)]
      <4>1. /\ Discover(c) \in Message /\ net[Discover(c)] \in Nat
            /\ \A m \in Message : m \notin out /\ m # x => net'[m] = net[m]
            /\ \A m \in Message : m = x /\ m \notin out => net'[m] = net[m] - 1
        BY <1>0, <3>1, ReceiveCounts, PeersDiffer
      <4> QED
        BY <3>1, <4>1
    <3>2. CASE ServerStarve(d)
      <4>1. Discover(c) # Starve(d)
        BY DEF Discover, Starve
      <4> QED
        BY <3>1, <3>2, <4>1 DEF ServerStarve
    <3>3. CASE ServerRequest(d)
      <4>1. PICK i \in DOMAIN order : ReceiveAndSend(Request(d), {Ack(d, order[i])})
        BY <3>3 DEF ServerRequest
      <4>2. Discover(c) # Ack(d, order[i])
        BY DEF Discover, Ack
      <4> QED
        BY <3>1, <4>1, <4>2
    <3>4. CASE ServerRelease(d)
      BY <3>1, <3>4 DEF ServerRelease
    <3>5. CASE ServerUnknown(d)
      BY <3>1, <3>5 DEF ServerUnknown
    <3> QED
      BY <1>2, <3>2, <3>3, <3>4, <3>5 DEF ServerReceive
  <2>2. \A a \in Addr : Id(a)' = c => Id(a) = c
    <3>1. CASE ServerStarve(d) \/ ServerUnknown(d)
      BY <3>1 DEF ServerStarve, ServerUnknown, Id
    <3>2. CASE ServerRequest(d)
      <4>1. PICK i \in DOMAIN order :
              /\ IsFirst(i, Matching(d, "REQUEST"))
              /\ client_list' = [client_list EXCEPT ![order[i]] = AckedTo(order[i], d)]
        BY <3>2 DEF ServerRequest
      <4>2. Id(order[i]) = d /\ AckedTo(order[i], d).id = d /\ order[i] \in Addr
        BY <4>1, EntriesTyped DEF IsFirst, Matching, AckedTo
      <4> QED
        BY <4>1, <4>2, EntriesTyped DEF Id
    <3>3. CASE ServerRelease(d)
      <4>1. PICK i \in DOMAIN order :
              client_list' = [client_list EXCEPT ![order[i]] = Freed(@)]
        BY <3>3 DEF ServerRelease
      <4>2. order[i] \in Addr /\ Freed(client_list[order[i]]).id = NoClient
        BY EntriesTyped DEF Freed
      <4> QED
        BY <4>1, <4>2, EntriesTyped DEF Id
    <3> QED
      BY <1>2, <3>1, <3>2, <3>3 DEF ServerReceive
  <2>3. Fewer(c)
    BY <1>0, <2>1, <2>2 DEF Fewer
  <2> QED
    BY <2>3, FewerKeeps
<1> QED
  BY <1>1, <1>2

LEMMA ClientKeepsOne ==
  ASSUME TypeOK, TypeOK', \A c \in Client : OneEntryOf(c),
         NEW d \in Client, ClientNext(d), UNCHANGED serverVars
  PROVE  \A c \in Client : OneEntryOf(c)'
<1> USE DEF TypeOK
<1>0. /\ \A a \in Addr : Id(a)' = Id(a)
      /\ \A c \in Client : net[Discover(c)] \in Nat
      /\ status \in [Client -> {"INIT", "OFFER_WAIT", "ACK_WAIT", "IPGET", "EXIT"}]
  BY CountsNatural, PeersDiffer DEF serverVars, Id, ClientTypeOK
<1>1. CASE ClientStart(d)
  <2>1. /\ status[d] = "INIT" /\ status' = [status EXCEPT ![d] = "OFFER_WAIT"]
        /\ Send({Discover(d)})
    BY <1>1 DEF ClientStart, Goto
  <2>2. ASSUME NEW c \in Client, c # d PROVE OneEntryOf(c)'
    <3>1. net'[Discover(c)] = net[Discover(c)]
      BY <2>1, <2>2, SendCounts, PeersDiffer
    <3>2. Fewer(c)
      BY <1>0, <2>1, <2>2, <3>1 DEF Fewer
    <3> QED
      BY <3>2, FewerKeeps
  <2>3. OneEntryOf(d)'
    <3>1. net'[Discover(d)] = 1
      BY <2>1, SendCounts, PeersDiffer DEF OneEntryOf
    <3>2. status'[d] = "OFFER_WAIT" /\ \A a \in Addr : Id(a)' # d
      BY <1>0, <2>1 DEF OneEntryOf
    <3> QED
      BY <3>1, <3>2 DEF OneEntryOf, Id
  <2> QED
    BY <2>2, <2>3
<1>2. ASSUME ~ClientStart(d), NEW c \in Client PROVE OneEntryOf(c)'
  <2>1. status'[c] = "INIT" => status[c] = "INIT"
    BY <1>0, <1>2 DEF ClientNext, ClientOffer, ClientAck, ClientIllegal,
         ClientHangUp, ClientReleasePrep, ClientAlarm, ClientKilled, ClientGone,
         Goto, clientVars
  <2>2. net'[Discover(c)] <= net[Discover(c)]
    <3>1. ASSUME NEW x, NEW out, ReceiveAndSend(x, out), Discover(c) \notin out
          PROVE  net'[Discover(c)] <= net[Discover(c)]
      <4>1. /\ Discover(c) \in Message /\ net[Discover(c)] \in Nat
            /\ \A m \in Message : m \notin out /\ m # x => net'[m] = net[m]
            /\ \A m \in Message : m = x /\ m \notin out => net'[m] = net[m] - 1
        BY <1>0, <3>1, ReceiveCounts, PeersDiffer
      <4> QED
        BY <3>1, <4>1
    <3>2. ASSUME NEW out, Send(out), Discover(c) \notin out
          PROVE  net'[Discover(c)] <= net[Discover(c)]
      BY <1>0, <3>2, SendCounts, PeersDiffer
    <3>3. UNCHANGED netVars => net'[Discover(c)] <= net[Discover(c)]
      BY <1>0 DEF netVars
    <3>4. CASE ClientOffer(d)
      BY <3>1, <3>4, PeersDiffer DEF ClientOffer
    <3>5. CASE ClientAck(d)
      BY <3>1, <3>5 DEF ClientAck
    <3>6. CASE ClientIllegal(d)
      BY <3>1, <3>6 DEF ClientIllegal
    <3>7. CASE ClientHangUp(d) \/ ClientKilled(d)
      BY <3>3, <3>7 DEF ClientHangUp, ClientKilled
    <3>8. CASE ClientReleasePrep(d)
      BY <3>2, <3>3, <3>8, PeersDiffer DEF ClientReleasePrep
    <3>9. CASE ClientAlarm(d)
      BY <3>2, <3>3, <3>9, PeersDiffer DEF ClientAlarm
    <3>10. CASE ClientGone(d)
      BY <3>1, <3>10 DEF ClientGone
    <3> QED
      BY <1>2, <3>4, <3>5, <3>6, <3>7, <3>8, <3>9, <3>10 DEF ClientNext
  <2>3. Fewer(c)
    BY <1>0, <2>1, <2>2 DEF Fewer
  <2> QED
    BY <2>3, FewerKeeps
<1> QED
  BY <1>1, <1>2

LEMMA EntryInvNext == TypeOK /\ EntryInv /\ [Next]_vars => EntryInv'
<1> SUFFICES ASSUME TypeOK, EntryInv, [Next]_vars, dups' = 0, ~timeoutflag'
             PROVE  \A c \in Client : OneEntryOf(c)'
  BY DEF EntryInv
<1>0. TypeOK'
  BY NextTyped
<1>1. CASE ServerStep
  <2>1. UNCHANGED clientVars
    BY <1>1 DEF ServerStep
  <2>2. ASSUME NEW d \in Client, ServerReceive(d)
        PROVE  \A c \in Client : OneEntryOf(c)'
    <3>1. dups = 0 /\ ~timeoutflag
      <4>1. timeoutflag' = timeoutflag
        BY <2>2 DEF ServerReceive, ServerDiscover, ServerStarve, ServerRequest,
                    ServerRelease, ServerUnknown, Returned
      <4>2. dups' = dups
        BY <2>2 DEF ServerReceive, ServerDiscover, ServerStarve, ServerRequest,
                    ServerRelease, ServerUnknown, ReceiveAndSend
      <4> QED
        BY <4>1, <4>2
    <3>2. \A c \in Client : OneEntryOf(c)
      BY <3>1 DEF EntryInv
    <3> QED
      BY <1>0, <2>1, <2>2, <3>2, ReceiveKeepsOne
  <2>3. ASSUME ServerTick \/ AlarmOutsideSelect, NEW c \in Client
        PROVE  OneEntryOf(c)'
    <3>1. UNCHANGED netVars /\ timeoutflag' = timeoutflag
      BY <2>3 DEF ServerTick, AlarmOutsideSelect, ServerTickOnly, ServerExpire,
                  ServerCount, ServerResend, ServerTimeout
    <3>2. dups = 0 /\ ~timeoutflag /\ net' = net
      BY <3>1 DEF netVars
    <3>3. OneEntryOf(c)
      BY <3>2 DEF EntryInv
    <3>4. \A a \in Addr : Id(a)' = c => Id(a) = c
      <4>1. client_list' = [a \in Addr |-> Aged(a)]
              => \A a \in Addr : Id(a)' = c => Id(a) = c
        BY EntriesTyped DEF Id
      <4>2. CASE AlarmOutsideSelect
        BY <4>2 DEF AlarmOutsideSelect, Id
      <4>3. CASE ServerTickOnly \/ ServerCount \/ ServerTimeout
        BY <4>1, <4>3 DEF ServerTickOnly, ServerCount, ServerTimeout
      <4>4. CASE ServerExpire
        <5>1. PICK i \in DOMAIN order :
                client_list' = [a \in Addr |-> IF a = order[i] THEN Freed(Aged(a))
                                                               ELSE Aged(a)]
          BY <4>4 DEF ServerExpire
        <5>2. \A a \in Addr : Freed(Aged(a)).id = NoClient
          BY AgedTyped DEF Freed, TypeOK
        <5> QED
          BY <5>1, <5>2, EntriesTyped DEF Id
      <4> QED
        BY <2>3, <3>2, <4>2, <4>3, <4>4 DEF ServerTick, ServerResend
    <3>5. Fewer(c)
      BY <2>1, <3>2, <3>4, CountsNatural, PeersDiffer DEF Fewer, clientVars
    <3> QED
      BY <1>0, <3>3, <3>5, FewerKeeps
  <2> QED
    BY <1>1, <2>2, <2>3 DEF ServerStep
<1>2. CASE ClientStep
  <2>1. PICK d \in Client : ClientNext(d) /\ UNCHANGED serverVars
    BY <1>2 DEF ClientStep
  <2>2. dups' = dups
    BY <2>1 DEF ClientNext, ClientStart, ClientOffer, ClientAck, ClientIllegal,
         ClientHangUp, ClientReleasePrep, ClientAlarm, ClientKilled, ClientGone,
         Send, ReceiveAndSend, netVars
  <2>3. \A c \in Client : OneEntryOf(c)
    BY <2>1, <2>2 DEF EntryInv, serverVars
  <2> QED
    BY <1>0, <2>1, <2>3, ClientKeepsOne
<1>3. CASE Network
  <2>1. PICK m \in Message : Lose(m) \/ Duplicate(m)
    BY <1>3 DEF Network
  <2>2. UNCHANGED <<serverVars, clientVars>>
    BY <1>3 DEF Network
  <2>3. Lose(m)
    BY <2>1, CountsNatural DEF Duplicate
  <2>4. ASSUME NEW c \in Client PROVE OneEntryOf(c)'
    <3>1. OneEntryOf(c)
      BY <2>2, <2>3 DEF Lose, EntryInv, serverVars
    <3>2. net'[Discover(c)] <= net[Discover(c)]
      <4>1. net' = [net EXCEPT ![m] = net[m] - 1] /\ net \in [Message -> Nat]
        BY <2>3 DEF Lose, TypeOK, NetTypeOK
      <4> QED
        BY <4>1, PeersDiffer
    <3>3. Fewer(c)
      BY <2>2, <3>2 DEF Fewer, serverVars, clientVars, Id
    <3> QED
      BY <1>0, <3>1, <3>3, FewerKeeps
  <2> QED
    BY <2>4
<1>4. CASE UNCHANGED vars
  BY <1>4 DEF vars, netVars, serverVars, clientVars, EntryInv, OneEntryOf, Id
<1> QED
  BY <1>1, <1>2, <1>3, <1>4 DEF Next

(* Unless the network repeats a datagram or an OFFER is sent again, no     *)
(* client takes two addresses of the server: whatever is lost or delayed,  *)
(* whoever is killed, and although leases run out (server.c:298-377).      *)
THEOREM OneEntryEach == Spec => []OneEntryPerClient
<1>1. Init => EntryInv
  <2> SUFFICES ASSUME Init, NEW c \in Client PROVE OneEntryOf(c)
    BY DEF EntryInv
  <2>1. net[Discover(c)] = 0
    BY PeersDiffer DEF Init, NetInit
  <2>2. \A a \in Addr : Id(a) # c
    <3>1. c # NoClient
      BY NetAssumption, SMTT(30)
    <3> QED
      BY <3>1 DEF Init, ServerInit, Id
  <2> QED
    BY <2>1, <2>2 DEF OneEntryOf
<1>2. TypeOK /\ EntryInv => OneEntryPerClient
  <2> SUFFICES ASSUME TypeOK, EntryInv, dups = 0, ~timeoutflag,
                      NEW a \in Addr, NEW b \in Addr, Id(a) = Id(b), Id(a) # NoClient
               PROVE  a = b
    BY DEF OneEntryPerClient
  <2>1. Id(a) \in Client
    BY EntriesTyped DEF Id
  <2> QED
    BY <2>1 DEF EntryInv, OneEntryOf
<1> QED
  BY <1>1, <1>2, InitTyped, NextTyped, EntryInvNext, PTL DEF Spec

-----------------------------------------------------------------------------
(* Without faults a client and the server have one datagram between them   *)
(* at most, and what they hold of each other goes through these stages.    *)
Still(c)   == \A m \in Message : m.peer = c => net[m] = 0
Only(c, x) == net[x] = 1 /\ \A m \in Message : m.peer = c /\ m # x => net[m] = 0

HoldsNone(c) == \A a \in Addr : Id(a) # c
Holds(c, a, statuses) ==
  Id(a) = c /\ Status(a) \in statuses /\ \A b \in Addr : Id(b) = c => b = a

Asking(c)     == status[c] = "OFFER_WAIT" /\ Only(c, Discover(c)) /\ HoldsNone(c)
Starved(c)    == status[c] = "OFFER_WAIT" /\ Only(c, Starve(c)) /\ HoldsNone(c)
Offered(c, a) == /\ status[c] = "OFFER_WAIT" /\ Only(c, Offer(c, a))
                 /\ Holds(c, a, {"REQUEST_WAIT"})
Requesting(c, a) == /\ status[c] = "ACK_WAIT" /\ Only(c, Request(c))
                    /\ Holds(c, a, {"REQUEST_WAIT", "IP_ALLOC"})
Acked(c, a)   == /\ status[c] = "ACK_WAIT" /\ Only(c, Ack(c, a))
                 /\ Holds(c, a, {"IP_ALLOC"})
Owning(c, a)  == status[c] = "IPGET" /\ Still(c) /\ Holds(c, a, {"IP_ALLOC"})
Leaving(c, a) == /\ status[c] = "EXIT" /\ Only(c, Release(c))
                 /\ Holds(c, a, {"IP_ALLOC"})
Absent(c)     == status[c] \in {"INIT", "EXIT"} /\ Still(c) /\ HoldsNone(c)

Conversation(c) ==
  \/ Absent(c) \/ Asking(c) \/ Starved(c)
  \/ \E a \in Addr : \/ Offered(c, a) \/ Requesting(c, a) \/ Acked(c, a)
                     \/ Owning(c, a) \/ Leaving(c, a)

Faithful == lost = 0 /\ dups = 0 /\ kills = 0 /\ ~timeoutflag /\ ~ranOut

ConversationInv == Faithful => \A c \in Client : Conversation(c)

(* What a client sees of a step that is not about it.                      *)
NetSame(c)   == \A m \in Message : m.peer = c => net'[m] = net[m]
EntrySame(c) == \A a \in Addr : /\ Id(a)' = c <=> Id(a) = c
                                /\ Id(a) = c => Status(a)' = Status(a)

LEMMA OtherConversations ==
  ASSUME NEW c \in Client, Conversation(c), NetSame(c), EntrySame(c),
         status'[c] = status[c]
  PROVE  Conversation(c)'
<1>1. Still(c) => Still(c)'
  BY DEF Still, NetSame
<1>2. \A x \in Message : x.peer = c /\ Only(c, x) => Only(c, x)'
  BY DEF Only, NetSame
<1>3. HoldsNone(c) => HoldsNone(c)'
  BY DEF HoldsNone, EntrySame, Id
<1>4. \A a \in Addr : \A S : Holds(c, a, S) => Holds(c, a, S)'
  BY DEF Holds, EntrySame, Id, Status
<1>5. /\ Absent(c) => Absent(c)'
      /\ Asking(c) => Asking(c)'
      /\ Starved(c) => Starved(c)'
  BY <1>1, <1>2, <1>3, PeersDiffer DEF Absent, Asking, Starved, Discover, Starve
<1>6. ASSUME NEW a \in Addr
      PROVE  /\ Offered(c, a) => Offered(c, a)'
             /\ Requesting(c, a) => Requesting(c, a)'
             /\ Acked(c, a) => Acked(c, a)'
             /\ Owning(c, a) => Owning(c, a)'
             /\ Leaving(c, a) => Leaving(c, a)'
  <2>1. Offered(c, a) => Offered(c, a)'
    BY <1>2, <1>4, PeersDiffer DEF Offered
  <2>2. Requesting(c, a) => Requesting(c, a)'
    BY <1>2, <1>4, PeersDiffer DEF Requesting
  <2>3. Acked(c, a) => Acked(c, a)'
    BY <1>2, <1>4, PeersDiffer DEF Acked
  <2>4. Owning(c, a) => Owning(c, a)'
    BY <1>1, <1>4 DEF Owning
  <2>5. Leaving(c, a) => Leaving(c, a)'
    BY <1>2, <1>4, PeersDiffer DEF Leaving
  <2> QED
    BY <2>1, <2>2, <2>3, <2>4, <2>5
<1> QED
  BY <1>5, <1>6 DEF Conversation

(* The datagram that is under way tells the stage.                         *)
LEMMA StageOf ==
  ASSUME NEW c \in Client, Conversation(c)
  PROVE  /\ net[Discover(c)] > 0 => Asking(c)
         /\ net[Starve(c)] > 0 => Starved(c)
         /\ net[Request(c)] > 0 => \E a \in Addr : Requesting(c, a)
         /\ net[Release(c)] > 0 => \E a \in Addr : Leaving(c, a)
         /\ \A a \in Addr : net[Offer(c, a)] > 0 => Offered(c, a)
         /\ \A a \in Addr : net[Ack(c, a)] > 0 => Acked(c, a)
<1>1. ASSUME NEW m \in Message, m.peer = c, net[m] > 0
      PROVE  /\ ~Still(c)
             /\ \A x : Only(c, x) => m = x
  BY <1>1 DEF Still, Only
<1>2. ASSUME NEW a \in Addr, NEW b \in Addr
      PROVE  /\ Discover(c) \notin {Starve(c), Request(c), Release(c), Offer(c, a), Ack(c, a)}
             /\ Starve(c) \notin {Request(c), Release(c), Offer(c, a), Ack(c, a)}
             /\ Request(c) \notin {Release(c), Offer(c, a), Ack(c, a)}
             /\ Release(c) \notin {Offer(c, a), Ack(c, a)}
             /\ Offer(c, a) # Ack(c, b)
             /\ Offer(c, a) = Offer(c, b) => a = b
             /\ Ack(c, a) = Ack(c, b) => a = b
  BY DEF Discover, Starve, Request, Release, Offer, Ack
<1>3. /\ Discover(c) # Starve(c) /\ Discover(c) # Request(c)
      /\ Discover(c) # Release(c) /\ Starve(c) # Request(c)
      /\ Starve(c) # Release(c) /\ Request(c) # Release(c)
  BY DEF Discover, Starve, Request, Release
<1> USE DEF Conversation, Absent, Asking, Starved, Offered, Requesting, Acked,
            Owning, Leaving
<1>4. net[Discover(c)] > 0 => Asking(c)
  <2> SUFFICES ASSUME net[Discover(c)] > 0 PROVE Asking(c)
    OBVIOUS
  <2>1. ~Still(c) /\ \A x : Only(c, x) => Discover(c) = x
    BY <1>1, PeersDiffer
  <2> QED
    BY <1>2, <1>3, <2>1
<1>5. net[Starve(c)] > 0 => Starved(c)
  <2> SUFFICES ASSUME net[Starve(c)] > 0 PROVE Starved(c)
    OBVIOUS
  <2>1. ~Still(c) /\ \A x : Only(c, x) => Starve(c) = x
    BY <1>1, PeersDiffer
  <2> QED
    BY <1>2, <1>3, <2>1
<1>6. net[Request(c)] > 0 => \E a \in Addr : Requesting(c, a)
  <2> SUFFICES ASSUME net[Request(c)] > 0 PROVE \E a \in Addr : Requesting(c, a)
    OBVIOUS
  <2>1. ~Still(c) /\ \A x : Only(c, x) => Request(c) = x
    BY <1>1, PeersDiffer
  <2> QED
    BY <1>2, <1>3, <2>1
<1>7. net[Release(c)] > 0 => \E a \in Addr : Leaving(c, a)
  <2> SUFFICES ASSUME net[Release(c)] > 0 PROVE \E a \in Addr : Leaving(c, a)
    OBVIOUS
  <2>1. ~Still(c) /\ \A x : Only(c, x) => Release(c) = x
    BY <1>1, PeersDiffer
  <2> QED
    BY <1>2, <1>3, <2>1
<1>8. ASSUME NEW a \in Addr, net[Offer(c, a)] > 0 PROVE Offered(c, a)
  <2>1. ~Still(c) /\ \A x : Only(c, x) => Offer(c, a) = x
    BY <1>1, <1>8, PeersDiffer
  <2> QED
    BY <1>2, <2>1
<1>9. ASSUME NEW a \in Addr, net[Ack(c, a)] > 0 PROVE Acked(c, a)
  <2>1. ~Still(c) /\ \A x : Only(c, x) => Ack(c, a) = x
    BY <1>1, <1>9, PeersDiffer
  <2> QED
    BY <1>2, <2>1
<1> QED
  BY <1>4, <1>5, <1>6, <1>7, <1>8, <1>9

(* One datagram is answered by another, taken away, or sent where there    *)
(* was none; the other clients' stay as they are.                          *)
LEMMA AnsweredBy ==
  ASSUME TypeOK, NEW c \in Client, NEW x \in Message, NEW y \in Message,
         x.peer = c, y.peer = c, x # y, ReceiveAndSend(x, {y})
  PROVE  /\ Only(c, x) => Only(c, y)'
         /\ \A d \in Client : d # c => NetSame(d)
<1>1. /\ \A m \in Message : m # y /\ m # x => net'[m] = net[m]
      /\ net'[y] = net[y] + 1 /\ net'[x] = net[x] - 1
  BY ReceiveCounts DEF TypeOK
<1> QED
  BY <1>1 DEF Only, NetSame

LEMMA TakenAway ==
  ASSUME TypeOK, NEW c \in Client, NEW x \in Message, x.peer = c,
         ReceiveAndSend(x, {})
  PROVE  /\ Only(c, x) => Still(c)'
         /\ \A d \in Client : d # c => NetSame(d)
<1>1. /\ \A m \in Message : m # x => net'[m] = net[m]
      /\ net'[x] = net[x] - 1
  BY ReceiveCounts DEF TypeOK
<1> QED
  BY <1>1 DEF Only, Still, NetSame

LEMMA SentFirst ==
  ASSUME TypeOK, NEW c \in Client, NEW y \in Message, y.peer = c, Send({y})
  PROVE  /\ Still(c) => Only(c, y)'
         /\ \A d \in Client : d # c => NetSame(d)
<1>1. /\ \A m \in Message : m # y => net'[m] = net[m]
      /\ net'[y] = net[y] + 1
  BY SendCounts DEF TypeOK
<1> QED
  BY <1>1 DEF Only, Still, NetSame

(* What an entry becomes when the server writes it.                        *)
LEMMA EntryWritten ==
  ASSUME TypeOK, NEW c \in Client, NEW e \in Addr, NEW entry,
         client_list' = [client_list EXCEPT ![e] = entry]
  PROVE  /\ Id(e)' = entry.id /\ Status(e)' = entry.status
         /\ \A a \in Addr : a # e => Id(a)' = Id(a) /\ Status(a)' = Status(a)
BY EntriesTyped DEF Id, Status

(* The server finds the entry of a client it waits for.                    *)
LEMMA EntryFound ==
  ASSUME TypeOK, RingComplete, NEW c \in Client, NEW a \in Addr, NEW type,
         Id(a) = c, Status(a) \in Accepting(type)
  PROVE  Matching(c, type) # {}
<1>1. PICK i \in DOMAIN order : order[i] = a
  BY DEF RingComplete
<1>2. i \in Matching(c, type)
  BY <1>1 DEF Matching, PositionsIn
<1> QED
  BY <1>2

LEMMA ReceiveConverses ==
  ASSUME TypeOK, RingComplete, \A c \in Client : Conversation(c),
         NEW d \in Client, ServerReceive(d), UNCHANGED clientVars
  PROVE  \A c \in Client : Conversation(c)'
<1> USE DEF TypeOK
<1>0. status' = status
  BY DEF clientVars
<1>1. ASSUME \A c \in Client : c # d => NetSame(c) /\ EntrySame(c), Conversation(d)'
      PROVE  \A c \in Client : Conversation(c)'
  BY <1>0, <1>1, OtherConversations
<1>2. CASE ServerDiscover(d)
  <2>1. PICK i \in DOMAIN order :
          /\ IsFirst(i, Candidates(d))
          /\ client_list' = [client_list EXCEPT ![order[i]] = OfferedTo(order[i], d)]
          /\ ReceiveAndSend(Discover(d), {Offer(d, order[i])})
    BY <1>2 DEF ServerDiscover
  <2>2. PICK e \in Addr : e = order[i]
    BY EntriesTyped
  <2>3. Status(e) = "DISCOVER_WAIT"
    BY <2>1, <2>2 DEF IsFirst, Candidates, Matching, PositionsIn, Accepting
  <2>4. /\ OfferedTo(e, d).id = d /\ OfferedTo(e, d).status = "REQUEST_WAIT"
    BY EntriesTyped DEF OfferedTo
  <2>5. /\ Id(e)' = d /\ Status(e)' = "REQUEST_WAIT"
        /\ \A a \in Addr : a # e => Id(a)' = Id(a) /\ Status(a)' = Status(a)
    BY <2>1, <2>2, <2>4, EntryWritten
  <2>6. Discover(d) # Offer(d, e)
    BY DEF Discover, Offer
  <2>7. /\ Only(d, Discover(d)) => Only(d, Offer(d, e))'
        /\ \A c \in Client : c # d => NetSame(c)
    BY <2>1, <2>2, <2>6, AnsweredBy, PeersDiffer
  <2>8. Asking(d)
    BY <2>1, ReceiveCounts, StageOf
  <2>9. Conversation(d)'
    <3>1. Offered(d, e)'
      BY <1>0, <2>5, <2>7, <2>8 DEF Asking, Offered, Holds, HoldsNone, Id, Status
    <3> QED
      BY <3>1 DEF Conversation
  <2>10. ASSUME NEW c \in Client, c # d PROVE EntrySame(c)
    <3>1. Id(e) # c
      <4>1. \A S, b : Holds(c, b, S) /\ "DISCOVER_WAIT" \notin S => Id(e) # c
        BY <2>3 DEF Holds
      <4>2. Conversation(c)
        OBVIOUS
      <4> QED
        BY <4>1, <4>2 DEF Conversation, Absent, Asking, Starved, Offered,
             Requesting, Acked, Owning, Leaving, HoldsNone
    <3> QED
      BY <2>5, <2>10, <3>1 DEF EntrySame
  <2> QED
    BY <1>1, <2>7, <2>9, <2>10
<1>3. CASE ServerStarve(d)
  <2>1. Discover(d) # Starve(d) /\ ReceiveAndSend(Discover(d), {Starve(d)})
        /\ client_list' = client_list
    BY <1>3 DEF ServerStarve, Discover, Starve
  <2>2. /\ Only(d, Discover(d)) => Only(d, Starve(d))'
        /\ \A c \in Client : c # d => NetSame(c)
    BY <2>1, AnsweredBy, PeersDiffer
  <2>3. Asking(d)
    BY <2>1, ReceiveCounts, StageOf
  <2>4. Starved(d)'
    BY <1>0, <2>1, <2>2, <2>3 DEF Asking, Starved, HoldsNone, Id
  <2>5. \A c \in Client : EntrySame(c)
    BY <2>1 DEF EntrySame, Id, Status
  <2> QED
    BY <1>1, <2>2, <2>4, <2>5 DEF Conversation
<1>4. CASE ServerRequest(d)
  <2>1. PICK i \in DOMAIN order :
          /\ IsFirst(i, Matching(d, "REQUEST"))
          /\ client_list' = [client_list EXCEPT ![order[i]] = AckedTo(order[i], d)]
          /\ ReceiveAndSend(Request(d), {Ack(d, order[i])})
    BY <1>4 DEF ServerRequest
  <2>2. PICK e \in Addr : e = order[i]
    BY EntriesTyped
  <2>3. Id(e) = d
    BY <2>1, <2>2 DEF IsFirst, Matching
  <2>4. /\ AckedTo(e, d).id = d /\ AckedTo(e, d).status = "IP_ALLOC"
    BY DEF AckedTo
  <2>5. /\ Id(e)' = d /\ Status(e)' = "IP_ALLOC"
        /\ \A a \in Addr : a # e => Id(a)' = Id(a) /\ Status(a)' = Status(a)
    BY <2>1, <2>2, <2>4, EntryWritten
  <2>6. Request(d) # Ack(d, e)
    BY DEF Request, Ack
  <2>7. /\ Only(d, Request(d)) => Only(d, Ack(d, e))'
        /\ \A c \in Client : c # d => NetSame(c)
    BY <2>1, <2>2, <2>6, AnsweredBy, PeersDiffer
  <2>8. PICK a \in Addr : Requesting(d, a)
    BY <2>1, ReceiveCounts, StageOf
  <2>9. Conversation(d)'
    <3>1. \A b \in Addr : Id(b)' = d => b = e
      BY <2>3, <2>5, <2>8 DEF Requesting, Holds
    <3>2. Holds(d, e, {"IP_ALLOC"})'
      BY <2>5, <3>1 DEF Holds, Id, Status
    <3>3. Acked(d, e)'
      BY <1>0, <2>7, <2>8, <3>2 DEF Requesting, Acked
    <3> QED
      BY <3>3 DEF Conversation
  <2>10. ASSUME NEW c \in Client, c # d PROVE EntrySame(c)
    BY <2>3, <2>5, <2>10 DEF EntrySame
  <2> QED
    BY <1>1, <2>7, <2>9, <2>10
<1>5. CASE ServerRelease(d)
  <2>1. PICK i \in DOMAIN order :
          /\ IsFirst(i, Matching(d, "RELEASE"))
          /\ client_list' = [client_list EXCEPT ![order[i]] = Freed(@)]
    BY <1>5 DEF ServerRelease
  <2>2. PICK e \in Addr : e = order[i]
    BY EntriesTyped
  <2>3. Id(e) = d /\ ReceiveAndSend(Release(d), {})
    BY <1>5, <2>1, <2>2 DEF ServerRelease, IsFirst, Matching
  <2>4. Freed(client_list[e]).id = NoClient
    BY EntriesTyped DEF Freed
  <2>5. /\ Id(e)' = NoClient
        /\ \A a \in Addr : a # e => Id(a)' = Id(a) /\ Status(a)' = Status(a)
    BY <2>1, <2>2, <2>4, EntryWritten
  <2>6. /\ Only(d, Release(d)) => Still(d)'
        /\ \A c \in Client : c # d => NetSame(c)
    BY <2>3, TakenAway, PeersDiffer
  <2>7. PICK a \in Addr : Leaving(d, a)
    BY <2>3, ReceiveCounts, StageOf
  <2>8. Conversation(d)'
    <3>1. \A b \in Addr : Id(b)' # d
      BY <2>3, <2>5, <2>7, EntriesTyped DEF Leaving, Holds
    <3>2. Absent(d)'
      BY <1>0, <2>6, <2>7, <3>1 DEF Leaving, Absent, HoldsNone, Id
    <3> QED
      BY <3>2 DEF Conversation
  <2>9. ASSUME NEW c \in Client, c # d PROVE EntrySame(c)
    BY <2>3, <2>5, <2>9, EntriesTyped DEF EntrySame
  <2> QED
    BY <1>1, <2>6, <2>8, <2>9
<1>6. CASE ServerUnknown(d)
  <2>1. PICK m \in {Request(d), Release(d)} :
          Matching(d, m.type) = {} /\ ReceiveAndSend(m, {})
    BY <1>6 DEF ServerUnknown
  <2>2. CASE m = Request(d)
    <3>1. PICK a \in Addr : Requesting(d, a)
      BY <2>1, <2>2, ReceiveCounts, StageOf
    <3>2. m.type = "REQUEST" /\ Status(a) \in Accepting("REQUEST") /\ Id(a) = d
      BY <2>2, <3>1 DEF Request, Requesting, Holds, Accepting
    <3> QED
      BY <2>1, <3>2, EntryFound
  <2>3. CASE m = Release(d)
    <3>1. PICK a \in Addr : Leaving(d, a)
      BY <2>1, <2>3, ReceiveCounts, StageOf
    <3>2. m.type = "RELEASE" /\ Status(a) \in Accepting("RELEASE") /\ Id(a) = d
      BY <2>3, <3>1 DEF Release, Leaving, Holds, Accepting
    <3> QED
      BY <2>1, <3>2, EntryFound
  <2> QED
    BY <2>1, <2>2, <2>3
<1> QED
  BY <1>2, <1>3, <1>4, <1>5, <1>6 DEF ServerReceive

LEMMA ClientConverses ==
  ASSUME TypeOK, \A c \in Client : Conversation(c),
         NEW d \in Client, ClientNext(d), ~ClientKilled(d), UNCHANGED serverVars
  PROVE  \A c \in Client : Conversation(c)'
<1> USE DEF TypeOK
<1>0. /\ status \in [Client -> {"INIT", "OFFER_WAIT", "ACK_WAIT", "IPGET", "EXIT"}]
      /\ client_list' = client_list
      /\ \A c \in Client : EntrySame(c)
  BY DEF ClientTypeOK, serverVars, EntrySame, Id, Status
<1>1. /\ HoldsNone(d) => HoldsNone(d)'
      /\ \A a \in Addr : \A S : Holds(d, a, S) => Holds(d, a, S)'
  BY <1>0 DEF HoldsNone, Holds, Id, Status
<1>2. ASSUME NEW st, status' = [status EXCEPT ![d] = st],
             \A c \in Client : c # d => NetSame(c), Conversation(d)'
      PROVE  \A c \in Client : Conversation(c)'
  BY <1>0, <1>2, OtherConversations
<1>3. ASSUME status' = status, UNCHANGED netVars
      PROVE  \A c \in Client : Conversation(c)'
  BY <1>0, <1>3, OtherConversations DEF NetSame, netVars
<1>4. CASE ClientStart(d)
  <2>1. /\ status[d] = "INIT" /\ status' = [status EXCEPT ![d] = "OFFER_WAIT"]
        /\ Send({Discover(d)})
    BY <1>4 DEF ClientStart, Goto
  <2>2. Absent(d)
    <3>1. Conversation(d)
      OBVIOUS
    <3> QED
      BY <2>1, <3>1 DEF Conversation, Asking, Starved, Offered, Requesting, Acked,
                        Owning, Leaving
  <2>3. /\ Still(d) => Only(d, Discover(d))'
        /\ \A c \in Client : c # d => NetSame(c)
    BY <2>1, SentFirst, PeersDiffer
  <2>4. Asking(d)'
    BY <1>0, <1>1, <2>1, <2>2, <2>3 DEF Absent, Asking
  <2> QED
    BY <1>2, <2>1, <2>3, <2>4 DEF Conversation
<1>5. CASE ClientOffer(d)
  <2>1. PICK a \in Addr : ReceiveAndSend(Offer(d, a), {Request(d)})
    BY <1>5 DEF ClientOffer
  <2>2. Offered(d, a) /\ status' = [status EXCEPT ![d] = "ACK_WAIT"]
    BY <1>5, <2>1, ReceiveCounts, StageOf DEF ClientOffer, Goto
  <2>3. Offer(d, a) # Request(d)
    BY DEF Offer, Request
  <2>4. /\ Only(d, Offer(d, a)) => Only(d, Request(d))'
        /\ \A c \in Client : c # d => NetSame(c)
    BY <2>1, <2>3, AnsweredBy, PeersDiffer
  <2>5. Holds(d, a, {"REQUEST_WAIT", "IP_ALLOC"})
    BY <2>2 DEF Offered, Holds
  <2>6. Requesting(d, a)'
    BY <1>0, <1>1, <2>2, <2>4, <2>5 DEF Offered, Requesting
  <2> QED
    BY <1>2, <2>2, <2>4, <2>6 DEF Conversation
<1>6. CASE ClientAck(d)
  <2>1. PICK a \in Addr : ReceiveAndSend(Ack(d, a), {})
    BY <1>6 DEF ClientAck
  <2>2. Acked(d, a) /\ status' = [status EXCEPT ![d] = "IPGET"]
    BY <1>6, <2>1, ReceiveCounts, StageOf DEF ClientAck, Goto
  <2>3. /\ Only(d, Ack(d, a)) => Still(d)'
        /\ \A c \in Client : c # d => NetSame(c)
    BY <2>1, TakenAway, PeersDiffer
  <2>4. Owning(d, a)'
    BY <1>0, <1>1, <2>2, <2>3 DEF Acked, Owning
  <2> QED
    BY <1>2, <2>2, <2>3, <2>4 DEF Conversation
<1>7. CASE ClientIllegal(d)
  <2>1. PICK m \in Message :
          /\ m.peer = d
          /\ \/ m.type = "SSTARVE"
             \/ m.type = "OFFER" /\ status[d] # "OFFER_WAIT"
             \/ m.type = "ACK"   /\ status[d] # "ACK_WAIT"
          /\ ReceiveAndSend(m, {})
    BY <1>7 DEF ClientIllegal
  <2>2. \/ m = Starve(d)
        \/ \E a \in Addr : m = Offer(d, a) /\ status[d] # "OFFER_WAIT"
        \/ \E a \in Addr : m = Ack(d, a) /\ status[d] # "ACK_WAIT"
    BY <2>1 DEF Message, Starve, Offer, Ack
  <2>3. net[m] > 0
    BY <2>1, ReceiveCounts
  <2>4. m = Starve(d) /\ Starved(d)
    BY <2>2, <2>3, StageOf DEF Offered, Acked
  <2>5. /\ Only(d, Starve(d)) => Still(d)'
        /\ \A c \in Client : c # d => NetSame(c)
    BY <2>1, <2>4, TakenAway, PeersDiffer
  <2>6. status' = [status EXCEPT ![d] = "EXIT"]
    BY <1>7 DEF ClientIllegal, Goto
  <2>7. Absent(d)'
    BY <1>0, <1>1, <2>4, <2>5, <2>6 DEF Starved, Absent
  <2> QED
    BY <1>2, <2>5, <2>6, <2>7 DEF Conversation
<1>8. CASE ClientHangUp(d)
  BY <1>3, <1>8 DEF ClientHangUp
<1>9. ASSUME status[d] = "IPGET" PROVE \E a \in Addr : Owning(d, a)
  <2>1. Conversation(d)
    OBVIOUS
  <2> QED
    BY <1>9, <2>1 DEF Conversation, Absent, Asking, Starved, Offered, Requesting,
                      Acked, Leaving
<1>10. CASE ClientReleasePrep(d)
  <2>1. CASE status[d] # "IPGET"
    BY <1>3, <1>10, <2>1 DEF ClientReleasePrep
  <2>2. CASE status[d] = "IPGET"
    <3>1. Send({Release(d)}) /\ status' = [status EXCEPT ![d] = "EXIT"]
      BY <1>10, <2>2 DEF ClientReleasePrep, Goto
    <3>2. PICK a \in Addr : Owning(d, a)
      BY <1>9, <2>2
    <3>3. /\ Still(d) => Only(d, Release(d))'
          /\ \A c \in Client : c # d => NetSame(c)
      BY <3>1, SentFirst, PeersDiffer
    <3>4. Leaving(d, a)'
      BY <1>0, <1>1, <3>1, <3>2, <3>3 DEF Owning, Leaving
    <3> QED
      BY <1>2, <3>1, <3>3, <3>4 DEF Conversation
  <2> QED
    BY <2>1, <2>2
<1>11. CASE ClientAlarm(d)
  <2>1. CASE ~HalfPassed(d)
    BY <1>3, <1>11, <2>1 DEF ClientAlarm
  <2>2. CASE HalfPassed(d)
    <3>1. Send({Request(d)}) /\ status' = [status EXCEPT ![d] = "ACK_WAIT"]
      BY <1>11, <2>2 DEF ClientAlarm, Goto
    <3>2. PICK a \in Addr : Owning(d, a)
      BY <1>9, <1>11 DEF ClientAlarm
    <3>3. /\ Still(d) => Only(d, Request(d))'
          /\ \A c \in Client : c # d => NetSame(c)
      BY <3>1, SentFirst, PeersDiffer
    <3>4. Holds(d, a, {"REQUEST_WAIT", "IP_ALLOC"})
      BY <3>2 DEF Owning, Holds
    <3>5. Requesting(d, a)'
      BY <1>0, <1>1, <3>1, <3>2, <3>3, <3>4 DEF Owning, Requesting
    <3> QED
      BY <1>2, <3>1, <3>3, <3>5 DEF Conversation
  <2> QED
    BY <2>1, <2>2
<1>12. CASE ClientGone(d)
  <2>1. PICK m \in Message : /\ m.peer = d
                             /\ m.type \in {"OFFER", "ACK", "SSTARVE"}
                             /\ ReceiveAndSend(m, {})
    BY <1>12 DEF ClientGone
  <2>2. \/ m = Starve(d)
        \/ \E a \in Addr : m = Offer(d, a) \/ m = Ack(d, a)
    BY <2>1 DEF Message, Starve, Offer, Ack
  <2>3. net[m] > 0 /\ status[d] = "EXIT"
    BY <1>12, <2>1, ReceiveCounts DEF ClientGone
  <2> QED
    BY <2>2, <2>3, StageOf DEF Starved, Offered, Acked
<1> QED
  BY <1>4, <1>5, <1>6, <1>7, <1>8, <1>10, <1>11, <1>12 DEF ClientNext

LEMMA ConversationNext ==
  TypeOK /\ RingComplete /\ ConversationInv /\ [Next]_vars => ConversationInv'
<1> SUFFICES ASSUME TypeOK, RingComplete, ConversationInv, [Next]_vars, Faithful'
             PROVE  \A c \in Client : Conversation(c)'
  BY DEF ConversationInv
<1>0. /\ lost' = 0 /\ dups' = 0 /\ kills' = 0 /\ ~timeoutflag' /\ ~ranOut'
      /\ lost \in Nat /\ dups \in Nat /\ kills \in Nat
  BY CountsNatural DEF Faithful
<1>1. Faithful => \A c \in Client : Conversation(c)
  BY DEF ConversationInv
<1>2. ASSUME UNCHANGED <<netVars, clientVars>>, timeoutflag' = timeoutflag,
             ranOut' = ranOut, \A c \in Client : EntrySame(c)
      PROVE  \A c \in Client : Conversation(c)'
  <2>1. \A c \in Client : Conversation(c)
    BY <1>0, <1>1, <1>2 DEF Faithful, netVars, clientVars
  <2> QED
    BY <1>2, <2>1, OtherConversations DEF NetSame, netVars, clientVars
<1>3. ASSUME NEW d \in Client, ServerReceive(d), UNCHANGED clientVars
      PROVE  \A c \in Client : Conversation(c)'
  <2>1. UNCHANGED <<lost, dups, kills, timeoutflag, ranOut>>
    BY <1>3 DEF ServerReceive, ServerDiscover, ServerStarve, ServerRequest,
         ServerRelease, ServerUnknown, Returned, ReceiveAndSend, clientVars
  <2>2. Faithful
    BY <1>0, <2>1 DEF Faithful
  <2> QED
    BY <1>1, <1>3, <2>2, ReceiveConverses
<1>4. ASSUME ServerTick \/ AlarmOutsideSelect, UNCHANGED clientVars
      PROVE  \A c \in Client : Conversation(c)'
  <2>1. client_list' = [a \in Addr |-> Aged(a)] => \A c \in Client : EntrySame(c)
    BY EntriesTyped DEF EntrySame, Id, Status
  <2>2. CASE AlarmOutsideSelect
    <3>1. \A c \in Client : EntrySame(c)
      BY <2>2 DEF AlarmOutsideSelect, EntrySame, Id, Status
    <3> QED
      BY <1>2, <1>4, <2>2, <3>1 DEF AlarmOutsideSelect
  <2>3. CASE ServerTickOnly
    BY <1>2, <1>4, <2>1, <2>3 DEF ServerTickOnly
  <2>4. CASE ServerExpire
    BY <1>0, <2>4 DEF ServerExpire
  <2>5. CASE ServerCount
    BY <1>2, <1>4, <2>1, <2>5 DEF ServerCount
  <2>6. CASE ServerResend
    BY <1>0, <2>6 DEF ServerResend
  <2>7. CASE ServerTimeout
    BY <1>2, <1>4, <2>1, <2>7 DEF ServerTimeout
  <2> QED
    BY <1>4, <2>2, <2>3, <2>4, <2>5, <2>6, <2>7 DEF ServerTick
<1>5. ASSUME NEW d \in Client, ClientNext(d), UNCHANGED serverVars
      PROVE  \A c \in Client : Conversation(c)'
  <2>1. ~ClientKilled(d)
    BY <1>0 DEF ClientKilled
  <2>2. UNCHANGED <<lost, dups, kills, timeoutflag, ranOut>>
    BY <1>5, <2>1 DEF ClientNext, ClientStart, ClientOffer, ClientAck, ClientIllegal,
         ClientHangUp, ClientReleasePrep, ClientAlarm, ClientGone,
         Send, ReceiveAndSend, netVars, clientVars, serverVars
  <2>3. Faithful
    BY <1>0, <2>2 DEF Faithful
  <2> QED
    BY <1>1, <1>5, <2>1, <2>3, ClientConverses
<1>6. CASE Network
  BY <1>0, <1>6 DEF Network, Lose, Duplicate
<1>7. CASE UNCHANGED vars
  <2>1. \A c \in Client : EntrySame(c)
    BY <1>7 DEF vars, serverVars, EntrySame, Id, Status
  <2> QED
    BY <1>2, <1>7, <2>1 DEF vars, serverVars
<1> QED
  BY <1>3, <1>4, <1>5, <1>6, <1>7 DEF Next, ServerStep, ClientStep

LEMMA ConversationInit == Init => ConversationInv
<1> SUFFICES ASSUME Init, NEW c \in Client PROVE Conversation(c)
  BY DEF ConversationInv
<1>1. Still(c) /\ status[c] = "INIT"
  BY DEF Init, NetInit, ClientInit, Still
<1>2. HoldsNone(c)
  <2>1. c # NoClient
    BY NetAssumption, SMTT(30)
  <2> QED
    BY <2>1 DEF Init, ServerInit, Id, HoldsNone
<1> QED
  BY <1>1, <1>2 DEF Absent, Conversation

(* Where nothing is lost, repeated, killed or timed out, no entry of the   *)
(* ring is forgotten: it stands for a datagram of its client that is under *)
(* way, or for the lease of a client that runs (server.c:331-445).         *)
THEOREM EntriesAccounted == Spec => []EntryAccountedFor
<1>1. ConversationInv => EntryAccountedFor
  <2> SUFFICES ASSUME ConversationInv, Faithful, NEW a \in Addr, NEW c \in Client,
                      Id(a) = c
               PROVE  \/ Status(a) = "REQUEST_WAIT" /\ status[c] = "OFFER_WAIT"
                         /\ InTransit(Offer(c, a))
                      \/ Status(a) = "REQUEST_WAIT" /\ status[c] = "ACK_WAIT"
                         /\ InTransit(Request(c))
                      \/ Status(a) = "IP_ALLOC" /\ status[c] = "ACK_WAIT"
                         /\ (InTransit(Request(c)) \/ InTransit(Ack(c, a)))
                      \/ Status(a) = "IP_ALLOC" /\ status[c] = "IPGET"
                      \/ Status(a) = "IP_ALLOC" /\ status[c] = "EXIT"
                         /\ InTransit(Release(c))
    BY DEF EntryAccountedFor, Faithful
  <2>1. PICK b \in Addr : \/ Offered(c, b) \/ Requesting(c, b) \/ Acked(c, b)
                          \/ Owning(c, b) \/ Leaving(c, b)
    BY DEF ConversationInv, Conversation, Absent, Asking, Starved, HoldsNone
  <2>2. \A S : Holds(c, b, S) => a = b /\ Status(a) \in S
    BY DEF Holds
  <2>3. \A m : Only(c, m) => InTransit(m)
    BY DEF Only, InTransit
  <2> QED
    BY <2>1, <2>2, <2>3 DEF Offered, Requesting, Acked, Owning, Leaving
<1> QED
  BY <1>1, ConversationInit, InitTyped, NextTyped, RingInit, RingNext, ConversationNext,
     PTL DEF Spec

-----------------------------------------------------------------------------
(* The clock of a lease.  Within a second the server has had its alarm or  *)
(* not, and so has the client; the age the server has counted runs at most *)
(* that far ahead of the seconds the client has.                           *)
Half   == TTL \div 2
Had(p) == IF p \in ticked THEN 1 ELSE 0
Age(a) == client_list[a].rttl

(* A client counts in IPGET only, and renews before it has counted Half.   *)
CountsInLease == \A c \in Client :
                   /\ status[c] \in {"INIT", "OFFER_WAIT", "ACK_WAIT"} => rttl[c] = 0
                   /\ status[c] = "IPGET" => rttl[c] < Half

InTime(c) ==
  \A a \in Addr : Leased(a, c) =>
    /\ Age(a) <= Half + Had(Server)
    /\ InTransit(Ack(c, a)) => Age(a) <= Had(Server)
    /\ status[c] = "IPGET" => Age(a) <= rttl[c] + 1 + Had(Server) - Had(c)

ClockInv ==
  lost = 0 /\ dups = 0 /\ kills = 0
    => ~ranOut /\ ~timeoutflag /\ \A c \in Client : InTime(c)

(* A TTL of three seconds leaves a whole second between the renewal and    *)
(* the end of the lease; one of two seconds does not.                      *)
LEMMA HalfBounds ==
  ASSUME TTL >= 3
  PROVE  Half \in Nat /\ Half >= 1 /\ Half + 1 < TTL
BY ConstantsTyped DEF Half

LEMMA HadBounds ==
  \A p : Had(p) \in Nat /\ Had(p) <= 1 /\ (p \in ticked => Had(p) = 1)
                        /\ (p \notin ticked => Had(p) = 0)
BY DEF Had

(* Whatever the alarms do to the second, the rest is a step of MyDhcp.     *)
LEMMA TimedStep == [TimedNext]_timedVars => [Next]_vars
<1> SUFFICES ASSUME [TimedNext]_timedVars PROVE [Next]_vars
  OBVIOUS
<1>1. CASE TimedServerAlarm
  BY <1>1 DEF TimedServerAlarm, Next, ServerStep
<1>2. CASE \E c \in Client : TimedClientAlarm(c)
  <2>1. PICK c \in Client : (ClientAlarm(c) /\ UNCHANGED serverVars) \/ UNCHANGED vars
    BY <1>2 DEF TimedClientAlarm
  <2> QED
    BY <2>1 DEF Next, ClientStep, ClientNext
<1>3. CASE Untimed
  BY <1>3 DEF Untimed, Next, ServerStep, ClientStep, ClientNext, Network
<1>4. CASE NextSecond \/ UNCHANGED timedVars
  BY <1>4 DEF NextSecond, timedVars
<1> QED
  BY <1>1, <1>2, <1>3, <1>4 DEF TimedNext

LEMMA CountsNext ==
  ASSUME TTL >= 3, TypeOK, CountsInLease, [Next]_vars
  PROVE  CountsInLease'
<1>0. /\ status \in [Client -> {"INIT", "OFFER_WAIT", "ACK_WAIT", "IPGET", "EXIT"}]
      /\ rttl \in [Client -> 0 .. TTL - 1]
  BY DEF TypeOK, ClientTypeOK
<1>1. ASSUME UNCHANGED <<status, rttl>> PROVE CountsInLease'
  BY <1>1 DEF CountsInLease
<1>2. ASSUME NEW d \in Client, ClientNext(d) PROVE CountsInLease'
  <2>1. CASE ClientStart(d)
    BY <1>0, <2>1 DEF ClientStart, Goto, CountsInLease
  <2>2. CASE ClientOffer(d)
    BY <1>0, <2>2 DEF ClientOffer, Goto, CountsInLease
  <2>3. CASE ClientAck(d)
    BY <1>0, <2>3, HalfBounds DEF ClientAck, Goto, CountsInLease
  <2>4. CASE ClientIllegal(d)
    BY <1>0, <2>4 DEF ClientIllegal, Goto, CountsInLease
  <2>5. CASE ClientReleasePrep(d)
    BY <1>0, <2>5 DEF ClientReleasePrep, Goto, CountsInLease
  <2>6. CASE ClientAlarm(d)
    <3>1. rttl[d] \in Nat /\ rttl[d] < Half /\ rttl[d] + 1 < TTL
      BY <1>0, <2>6, ConstantsTyped, HalfBounds DEF ClientAlarm, CountsInLease
    <3>2. Passed(d) = rttl[d] + 1
      BY <3>1, ConstantsTyped DEF Passed
    <3>3. CASE HalfPassed(d)
      BY <1>0, <2>6, <3>3 DEF ClientAlarm, Goto, CountsInLease
    <3>4. CASE ~HalfPassed(d)
      <4>1. Passed(d) < Half
        BY <3>1, <3>2, <3>4, HalfBounds DEF HalfPassed, Half
      <4> QED
        BY <1>0, <2>6, <3>4, <4>1 DEF ClientAlarm, CountsInLease
    <3> QED
      BY <3>3, <3>4
  <2>7. CASE ClientKilled(d)
    BY <1>0, <2>7 DEF ClientKilled, Goto, CountsInLease
  <2>8. CASE ClientHangUp(d) \/ ClientGone(d)
    BY <1>1, <2>8 DEF ClientHangUp, ClientGone, clientVars
  <2> QED
    BY <1>2, <2>1, <2>2, <2>3, <2>4, <2>5, <2>6, <2>7, <2>8 DEF ClientNext
<1> QED
  BY <1>1, <1>2 DEF Next, ServerStep, ClientStep, Network, clientVars, vars

(* No lease is due at an alarm of the server.                              *)
LEMMA NothingDue ==
  ASSUME TTL >= 3, TypeOK, RingInv, \A c \in Client : InTime(c), Server \notin ticked
  PROVE  ~DueTick
<1> SUFFICES ASSUME NEW a \in Addr, IsDue(a) PROVE FALSE
  BY DEF DueTick
<1>1. Status(a) = "IP_ALLOC" /\ Age(a) + 1 >= TTL
  BY DEF IsDue, Age
<1>2. Id(a) \in Client
  BY <1>1, RingFacts DEF RingInv, FreeUnnamed
<1>3. Age(a) <= Half + Had(Server) /\ Had(Server) = 0
  BY <1>1, <1>2, HadBounds DEF InTime, Leased
<1>4. Age(a) \in Nat
  BY EntriesTyped DEF Age
<1> QED
  BY <1>1, <1>3, <1>4, HalfBounds, ConstantsTyped

(* A datagram leaves a lease as old as it was, or starts it anew.          *)
LEMMA ReceiveAges ==
  ASSUME TypeOK, NEW d \in Client, ServerReceive(d), NEW c \in Client, NEW a \in Addr
  PROVE  /\ Leased(a, c)' => Age(a)' = 0 \/ (Leased(a, c) /\ Age(a)' = Age(a))
         /\ InTransit(Ack(c, a))' => InTransit(Ack(c, a)) \/ Age(a)' = 0
<1> USE DEF TypeOK
<1>1. ASSUME NEW x, NEW out, ReceiveAndSend(x, out),
             \A f \in Client, e \in Addr : Ack(f, e) \notin out
      PROVE  InTransit(Ack(c, a))' => InTransit(Ack(c, a))
  <2>1. OnlySends(out)
    BY <1>1, ReceiveAdds
  <2> QED
    BY <1>1, <2>1, SendsNeither DEF NoNewAck
<1>2. CASE ServerDiscover(d)
  <2>1. PICK i \in DOMAIN order :
          /\ client_list' = [client_list EXCEPT ![order[i]] = OfferedTo(order[i], d)]
          /\ ReceiveAndSend(Discover(d), {Offer(d, order[i])})
    BY <1>2 DEF ServerDiscover
  <2>2. PICK e \in Addr : e = order[i]
    BY EntriesTyped
  <2>3. \A f, b : Ack(f, b) \notin {Offer(d, order[i])}
    BY MessagesDiffer
  <2>4. OfferedTo(e, d).status = "REQUEST_WAIT"
    BY EntriesTyped DEF OfferedTo
  <2>5. Leased(a, c)' => Leased(a, c) /\ Age(a)' = Age(a)
    BY <2>1, <2>2, <2>4, EntriesTyped DEF Leased, Status, Id, Age
  <2> QED
    BY <1>1, <2>1, <2>3, <2>5
<1>3. CASE ServerStarve(d)
  <2>1. \A f, e : Ack(f, e) \notin {Starve(d)}
    BY MessagesDiffer
  <2> QED
    BY <1>1, <1>3, <2>1 DEF ServerStarve, Leased, Status, Id, Age
<1>4. CASE ServerRequest(d)
  <2>1. PICK i \in DOMAIN order :
          /\ client_list' = [client_list EXCEPT ![order[i]] = AckedTo(order[i], d)]
          /\ ReceiveAndSend(Request(d), {Ack(d, order[i])})
    BY <1>4 DEF ServerRequest
  <2>2. PICK e \in Addr : e = order[i]
    BY EntriesTyped
  <2>3. /\ client_list'[e] = [status |-> "IP_ALLOC", id |-> d, rttl |-> 0]
        /\ a # e => client_list'[a] = client_list[a]
    BY <2>1, <2>2, EntriesTyped DEF AckedTo
  <2>4. OnlySends({Ack(d, e)})
    BY <2>1, <2>2, ReceiveAdds
  <2>5. InTransit(Ack(c, a))' => InTransit(Ack(c, a)) \/ a = e
    BY <2>4, MessagesDiffer DEF OnlySends, InTransit
  <2> QED
    BY <2>3, <2>5 DEF Leased, Status, Id, Age
<1>5. CASE ServerRelease(d)
  <2>1. PICK i \in DOMAIN order :
          client_list' = [client_list EXCEPT ![order[i]] = Freed(@)]
    BY <1>5 DEF ServerRelease
  <2>2. PICK e \in Addr : e = order[i]
    BY EntriesTyped
  <2>3. Freed(client_list[e]).status = "DISCOVER_WAIT"
    BY EntriesTyped DEF Freed
  <2>4. Leased(a, c)' => Leased(a, c) /\ Age(a)' = Age(a)
    BY <2>1, <2>2, <2>3, EntriesTyped DEF Leased, Status, Id, Age
  <2> QED
    BY <1>1, <1>5, <2>4 DEF ServerRelease
<1>6. CASE ServerUnknown(d)
  <2>1. PICK m \in {Request(d), Release(d)} : ReceiveAndSend(m, {})
    BY <1>6 DEF ServerUnknown
  <2> QED
    BY <1>1, <1>6, <2>1 DEF ServerUnknown, Leased, Status, Id, Age
<1> QED
  BY <1>2, <1>3, <1>4, <1>5, <1>6 DEF ServerReceive

(* Faults are counted and never forgotten.                                 *)
LEMMA FaultsCount ==
  ASSUME TypeOK, [Next]_vars, lost' = 0, dups' = 0, kills' = 0
  PROVE  lost = 0 /\ dups = 0 /\ kills = 0
<1>0. lost \in Nat /\ dups \in Nat /\ kills \in Nat
  BY CountsNatural
<1>1. CASE ServerStep
  BY <1>1 DEF ServerStep, ServerReceive, ServerDiscover, ServerStarve, ServerRequest,
       ServerRelease, ServerUnknown, ReceiveAndSend, ServerTick, AlarmOutsideSelect,
       ServerTickOnly, ServerExpire, ServerCount, ServerResend, ServerTimeout, Send,
       netVars, clientVars
<1>2. CASE ClientStep
  BY <1>0, <1>2 DEF ClientStep, ClientNext, ClientStart, ClientOffer, ClientAck,
       ClientIllegal, ClientHangUp, ClientReleasePrep, ClientAlarm, ClientKilled,
       ClientGone, Send, ReceiveAndSend, netVars, clientVars
<1>3. CASE Network
  BY <1>0, <1>3 DEF Network, Lose, Duplicate, clientVars
<1> QED
  BY <1>1, <1>2, <1>3 DEF Next, vars, netVars, clientVars

LEMMA ClockInvNext ==
  ASSUME TTL >= 3, TypeOK, RingInv, ConversationInv, CountsInLease, ClockInv,
         [TimedNext]_timedVars
  PROVE  ClockInv'
<1> SUFFICES ASSUME lost' = 0, dups' = 0, kills' = 0
             PROVE  ~ranOut' /\ ~timeoutflag' /\ \A c \in Client : InTime(c)'
  BY DEF ClockInv
<1>0. /\ lost = 0 /\ dups = 0 /\ kills = 0 /\ ~ranOut /\ ~timeoutflag
      /\ \A c \in Client : InTime(c) /\ Conversation(c)
  BY TimedStep, FaultsCount DEF ClockInv, ConversationInv, Faithful
<1>t. /\ \A a \in Addr : Age(a) \in Nat
      /\ \A c \in Client : rttl[c] \in Nat
      /\ Half \in Nat
      /\ status \in [Client -> {"INIT", "OFFER_WAIT", "ACK_WAIT", "IPGET", "EXIT"}]
      /\ rttl \in [Client -> 0 .. TTL - 1]
      /\ \A p : Had(p) \in Nat /\ Had(p) <= 1 /\ Had(p)' \in Nat /\ Had(p)' <= 1
  <2>1. \A p : Had(p) \in Nat /\ Had(p) <= 1 /\ Had(p)' \in Nat /\ Had(p)' <= 1
    BY DEF Had
  <2> QED
    BY <2>1, EntriesTyped, HalfBounds, ConstantsTyped DEF Age, TypeOK, ClientTypeOK
<1> USE DEF TypeOK
<1>1. CASE TimedServerAlarm
  <2>1. /\ Server \notin ticked /\ ticked' = ticked \cup {Server}
        /\ UNCHANGED clientVars
    BY <1>1 DEF TimedServerAlarm, TakesAlarm
  <2>2. /\ Had(Server) = 0 /\ Had(Server)' = 1
        /\ \A c \in Client : Had(c)' = Had(c)
    BY <2>1, TimedAssumption DEF Had
  <2>3. ServerTickOnly \/ AlarmOutsideSelect
    <3>1. ~Scanned
      BY <1>0, <2>1, NothingDue DEF Scanned
    <3> QED
      BY <1>1, <3>1 DEF TimedServerAlarm, ServerTick, ServerExpire, ServerCount,
         ServerResend, ServerTimeout
  <2>4. UNCHANGED <<netVars, ranOut, timeoutflag>>
    BY <2>3 DEF ServerTickOnly, AlarmOutsideSelect
  <2>5. ASSUME NEW c \in Client, NEW a \in Addr, Leased(a, c)'
        PROVE  Leased(a, c) /\ Age(a)' <= Age(a) + 1
    <3>1. CASE AlarmOutsideSelect
      BY <1>t, <2>5, <3>1 DEF AlarmOutsideSelect, Leased, Status, Id, Age
    <3>2. CASE ServerTickOnly
      <4>1. client_list'[a] = Aged(a)
        BY <3>2 DEF ServerTickOnly
      <4>2. Leased(a, c)
        BY <2>5, <4>1, EntriesTyped DEF Leased, Status, Id
      <4>3. Aged(a).rttl <= Age(a) + 1
        <5>1. client_list[a] \in
                [status : {"DISCOVER_WAIT", "REQUEST_WAIT", "IP_ALLOC"},
                 id : Client \cup {NoClient}, rttl : 0 .. TTL - 1]
          BY EntriesTyped
        <5> QED
          BY <1>t, <5>1 DEF Aged, Age
      <4> QED
        BY <4>1, <4>2, <4>3 DEF Age
    <3> QED
      BY <2>3, <3>1, <3>2
  <2>6. ASSUME NEW c \in Client, NEW a \in Addr, Leased(a, c)'
        PROVE  /\ Age(a)' <= Half + Had(Server)'
               /\ InTransit(Ack(c, a))' => Age(a)' <= Had(Server)'
               /\ status'[c] = "IPGET"
                    => Age(a)' <= rttl'[c] + 1 + Had(Server)' - Had(c)'
    <3>1. Leased(a, c) /\ Age(a)' <= Age(a) + 1 /\ Age(a)' \in Nat
      <4>1. Age(a)' \in Nat
        BY TimedStep, NextTyped, ConstantsTyped DEF ServerTypeOK, Age
      <4> QED
        BY <2>5, <2>6, <4>1
    <3>2. /\ Age(a) <= Half + Had(Server)
          /\ InTransit(Ack(c, a)) => Age(a) <= Had(Server)
          /\ status[c] = "IPGET" => Age(a) <= rttl[c] + 1 + Had(Server) - Had(c)
      BY <1>0, <3>1 DEF InTime
    <3>3. /\ InTransit(Ack(c, a))' <=> InTransit(Ack(c, a))
          /\ status' = status /\ rttl' = rttl
      BY <2>1, <2>4 DEF netVars, InTransit, clientVars
    <3> QED
      BY <1>t, <2>2, <3>1, <3>2, <3>3
  <2> QED
    BY <1>0, <2>4, <2>6 DEF InTime, Half
<1>2. ASSUME NEW d \in Client, TimedClientAlarm(d)
      PROVE  ~ranOut' /\ ~timeoutflag' /\ \A c \in Client : InTime(c)'
  <2>1. /\ d \notin ticked /\ ticked' = ticked \cup {d} /\ UNCHANGED serverVars
    BY <1>2 DEF TimedClientAlarm, TakesAlarm, vars
  <2>2. /\ Had(Server)' = Had(Server) /\ Had(d) = 0 /\ Had(d)' = 1
        /\ \A c \in Client : c # d => Had(c)' = Had(c)
    BY <2>1, TimedAssumption DEF Had
  <2>3. NoNewAck /\ \A c \in Client : c # d => status'[c] = status[c] /\ rttl'[c] = rttl[c]
    <3>1. CASE ClientAlarm(d)
      <4>1. NoNewAck
        BY <3>1, ClientStepPreserves DEF ClientNext, ClientPreserves
      <4> QED
        BY <1>t, <3>1, <4>1 DEF ClientAlarm, Goto
    <3>2. CASE UNCHANGED vars
      BY <3>2 DEF vars, netVars, clientVars, NoNewAck, InTransit
    <3> QED
      BY <1>2, <3>1, <3>2 DEF TimedClientAlarm
  <2>4. status'[d] = "IPGET" => status[d] = "IPGET" /\ rttl'[d] = rttl[d] + 1
    <3> SUFFICES ASSUME status'[d] = "IPGET"
                 PROVE  status[d] = "IPGET" /\ rttl'[d] = rttl[d] + 1
      OBVIOUS
    <3>1. ClientAlarm(d)
      BY <1>2 DEF TimedClientAlarm, vars, clientVars
    <3>2. status[d] = "IPGET" /\ ~HalfPassed(d) /\ rttl'[d] = Passed(d)
      BY <1>t, <3>1 DEF ClientAlarm, Goto
    <3>3. rttl[d] < Half
      BY <3>2 DEF CountsInLease
    <3>4. Passed(d) = rttl[d] + 1
      BY <1>t, <3>3, HalfBounds, ConstantsTyped DEF Passed
    <3> QED
      BY <3>2, <3>4
  <2>5. ASSUME NEW c \in Client, NEW a \in Addr, Leased(a, c)'
        PROVE  /\ Age(a)' <= Half + Had(Server)'
               /\ InTransit(Ack(c, a))' => Age(a)' <= Had(Server)'
               /\ status'[c] = "IPGET"
                    => Age(a)' <= rttl'[c] + 1 + Had(Server)' - Had(c)'
    <3>1. Leased(a, c) /\ Age(a)' = Age(a)
      BY <2>1, <2>5 DEF serverVars, Leased, Status, Id, Age
    <3>2. /\ Age(a) <= Half + Had(Server)
          /\ InTransit(Ack(c, a)) => Age(a) <= Had(Server)
          /\ status[c] = "IPGET" => Age(a) <= rttl[c] + 1 + Had(Server) - Had(c)
      BY <1>0, <3>1 DEF InTime
    <3>3. InTransit(Ack(c, a))' => InTransit(Ack(c, a))
      BY <2>3 DEF NoNewAck
    <3>4. CASE c = d
      BY <1>t, <2>2, <2>4, <3>1, <3>2, <3>3, <3>4
    <3>5. CASE c # d
      BY <1>t, <2>2, <2>3, <3>1, <3>2, <3>3, <3>5
    <3> QED
      BY <3>4, <3>5
  <2> QED
    BY <1>0, <2>1, <2>5 DEF InTime, Half, serverVars
<1>3. ASSUME NEW d \in Client, ServerReceive(d), UNCHANGED clientVars, ticked' = ticked
      PROVE  ~ranOut' /\ ~timeoutflag' /\ \A c \in Client : InTime(c)'
  <2>1. UNCHANGED <<ranOut, timeoutflag, status, rttl>>
    BY <1>3 DEF ServerReceive, ServerDiscover, ServerStarve, ServerRequest,
         ServerRelease, ServerUnknown, Returned, clientVars
  <2>2. \A p : Had(p)' = Had(p)
    BY <1>3 DEF Had
  <2>3. ASSUME NEW c \in Client, NEW a \in Addr, Leased(a, c)'
        PROVE  /\ Age(a)' <= Half + Had(Server)'
               /\ InTransit(Ack(c, a))' => Age(a)' <= Had(Server)'
               /\ status'[c] = "IPGET"
                    => Age(a)' <= rttl'[c] + 1 + Had(Server)' - Had(c)'
    <3>1. /\ Age(a)' = 0 \/ (Leased(a, c) /\ Age(a)' = Age(a))
          /\ InTransit(Ack(c, a))' => InTransit(Ack(c, a)) \/ Age(a)' = 0
      BY <1>3, <2>3, ReceiveAges
    <3>2. CASE Age(a)' = 0
      BY <1>t, <2>1, <2>2, <3>2
    <3>3. CASE Age(a)' # 0
      BY <1>0, <1>t, <2>1, <2>2, <3>1, <3>3 DEF InTime
    <3> QED
      BY <3>2, <3>3
  <2> QED
    BY <1>0, <2>1, <2>3 DEF InTime, Half
<1>4. ASSUME NEW d \in Client, UNCHANGED serverVars, ticked' = ticked,
             \/ ClientStart(d)   \/ ClientOffer(d) \/ ClientAck(d)
             \/ ClientIllegal(d) \/ ClientGone(d)  \/ ClientKilled(d)
             \/ ClientHangUp(d)  \/ ClientReleasePrep(d)
      PROVE  ~ranOut' /\ ~timeoutflag' /\ \A c \in Client : InTime(c)'
  <2>1. /\ \A p : Had(p)' = Had(p)
        /\ NoNewAck
    BY <1>4, ClientStepPreserves DEF Had, ClientNext, ClientPreserves
  <2>2. ASSUME NEW c \in Client, status'[c] = "IPGET"
        PROVE  /\ rttl'[c] = rttl[c]
               /\ status[c] = "IPGET" \/ (c = d /\ ClientAck(d))
    BY <1>t, <1>4, <2>2 DEF ClientStart, ClientOffer, ClientAck, ClientIllegal,
         ClientHangUp, ClientReleasePrep, ClientKilled, ClientGone, Goto, clientVars
  <2>3. ASSUME NEW c \in Client, NEW a \in Addr, Leased(a, c)'
        PROVE  /\ Age(a)' <= Half + Had(Server)'
               /\ InTransit(Ack(c, a))' => Age(a)' <= Had(Server)'
               /\ status'[c] = "IPGET"
                    => Age(a)' <= rttl'[c] + 1 + Had(Server)' - Had(c)'
    <3>1. Leased(a, c) /\ Age(a)' = Age(a)
      BY <1>4, <2>3 DEF serverVars, Leased, Status, Id, Age
    <3>2. /\ Age(a) <= Half + Had(Server)
          /\ InTransit(Ack(c, a)) => Age(a) <= Had(Server)
          /\ status[c] = "IPGET" => Age(a) <= rttl[c] + 1 + Had(Server) - Had(c)
      BY <1>0, <3>1 DEF InTime
    <3>3. InTransit(Ack(c, a))' => InTransit(Ack(c, a))
      BY <2>1 DEF NoNewAck
    <3>4. ASSUME c = d, ClientAck(d) PROVE Age(a) <= Had(Server)
      <4>1. PICK b \in Addr : ReceiveAndSend(Ack(d, b), {})
        BY <3>4 DEF ClientAck
      <4>2. InTransit(Ack(d, b)) /\ net[Ack(d, b)] > 0
        BY <4>1 DEF ReceiveAndSend, InTransit
      <4>3. Acked(d, b)
        BY <1>0, <4>2, StageOf
      <4>4. a = b
        BY <3>1, <3>4, <4>3 DEF Acked, Holds, Leased
      <4> QED
        BY <3>2, <3>4, <4>2, <4>4
    <3>5. status'[c] = "IPGET" => Age(a)' <= rttl'[c] + 1 + Had(Server)' - Had(c)'
      <4> SUFFICES ASSUME status'[c] = "IPGET"
                   PROVE  Age(a)' <= rttl'[c] + 1 + Had(Server)' - Had(c)'
        OBVIOUS
      <4>1. rttl'[c] = rttl[c] /\ (status[c] = "IPGET" \/ Age(a) <= Had(Server))
        BY <2>2, <3>4
      <4> QED
        BY <1>t, <2>1, <3>1, <3>2, <4>1
    <3> QED
      BY <2>1, <3>1, <3>2, <3>3, <3>5
  <2> QED
    BY <1>0, <1>4, <2>3 DEF InTime, Half, serverVars
<1>5. CASE Network
  BY <1>0, <1>5 DEF Network, Lose, Duplicate
<1>6. CASE NextSecond
  <2>1. /\ \A c \in Client : Running(c) => c \in ticked
        /\ \A m \in Message : ~InTransit(m)
        /\ ticked' = {} /\ UNCHANGED vars
    BY <1>6 DEF NextSecond
  <2>2. \A p : Had(p)' = 0
    BY <2>1 DEF Had
  <2>3. ASSUME NEW c \in Client, NEW a \in Addr, Leased(a, c)'
        PROVE  /\ Age(a)' <= Half + Had(Server)'
               /\ ~InTransit(Ack(c, a))'
               /\ Age(a)' <= rttl'[c] + 1 + Had(Server)' - Had(c)'
    <3>1. Leased(a, c) /\ Age(a)' = Age(a) /\ rttl' = rttl /\ net' = net
      BY <2>1, <2>3 DEF vars, netVars, serverVars, clientVars, Leased, Status, Id, Age
    <3>2. \A x \in Message : ~Only(c, x)
      BY <2>1 DEF Only, InTransit
    <3>3. \E b \in Addr : Owning(c, b)
      <4>1. ~HoldsNone(c)
        BY <3>1 DEF Leased, HoldsNone
      <4> QED
        BY <1>0, <3>2, <4>1, PeersDiffer DEF Conversation, Absent, Asking, Starved,
           Offered, Requesting, Acked, Leaving
    <3>4. status[c] = "IPGET" /\ Had(c) = 1 /\ rttl[c] < Half
      BY <2>1, <3>3 DEF Owning, Running, Had, CountsInLease
    <3>5. Age(a) <= rttl[c] + 1 + Had(Server) - Had(c)
      BY <1>0, <3>1, <3>4 DEF InTime
    <3>6. Age(a) <= rttl[c] + 1 /\ Age(a) <= Half
      BY <1>t, <3>4, <3>5
    <3>7. ~InTransit(Ack(c, a))'
      BY <2>1, <3>1, PeersDiffer DEF InTransit
    <3> QED
      BY <1>t, <2>2, <3>1, <3>6, <3>7
  <2> QED
    BY <1>0, <2>1, <2>3 DEF InTime, Half, vars, serverVars
<1>7. CASE UNCHANGED timedVars
  BY <1>0, <1>7 DEF timedVars, vars, netVars, serverVars, clientVars, InTime, Leased,
     Status, Id, Age, Had, InTransit
<1> QED
  BY <1>1, <1>2, <1>3, <1>4, <1>5, <1>6, <1>7 DEF TimedNext, Untimed

(* With a faithful network and nobody killed, no lease ever runs out, of   *)
(* any number of clients and addresses and under any schedule of the       *)
(* alarms within each second: a client renews at TTL / 2 by its own clock, *)
(* and the server has the REQUEST before its clock reaches TTL             *)
(* (server.c:249-260, socket.c:226-244).  A TTL of 1 or 2 seconds, which   *)
(* the configuration may give, is too short for that.                      *)
THEOREM LeasesRenewedInTime ==
  ASSUME TTL >= 3
  PROVE  TimedSpec => []NoLeaseRunsOut
<1> DEFINE TimedInv == /\ TypeOK /\ RingInv /\ ConversationInv
                       /\ CountsInLease /\ ClockInv
<1>1. TimedInit => TimedInv
  <2> SUFFICES ASSUME TimedInit PROVE TimedInv
    OBVIOUS
  <2>1. TypeOK /\ RingInv
    BY InitTyped, RingInvInit DEF TimedInit
  <2>2. ConversationInv
    BY ConversationInit DEF TimedInit
  <2>3. CountsInLease
    BY DEF TimedInit, Init, ClientInit, CountsInLease
  <2>4. ClockInv
    BY DEF TimedInit, Init, ServerInit, ClockInv, InTime, Leased, Status
  <2> QED
    BY <2>1, <2>2, <2>3, <2>4
<1>2. TimedInv /\ [TimedNext]_timedVars => TimedInv'
  <2> SUFFICES ASSUME TimedInv, [TimedNext]_timedVars PROVE TimedInv'
    OBVIOUS
  <2>1. [Next]_vars /\ RingComplete
    BY TimedStep DEF RingInv
  <2>2. TypeOK' /\ RingInv' /\ ConversationInv' /\ CountsInLease'
    BY <2>1, NextTyped, RingInvNext, ConversationNext, CountsNext
  <2>3. ClockInv'
    BY ClockInvNext
  <2> QED
    BY <2>2, <2>3
<1>3. TimedInv => NoLeaseRunsOut
  BY DEF ClockInv, NoLeaseRunsOut
<1> QED
  BY <1>1, <1>2, <1>3, PTL DEF TimedSpec
=============================================================================
