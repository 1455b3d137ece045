------------------------------ MODULE DhcpNet ------------------------------
(***************************************************************************)
(* The UDP network between one mydhcpd (ex-4/server.c) and its mydhcpc     *)
(* clients (ex-4/socket.c): a bag of datagrams that may be lost,           *)
(* duplicated and reordered.  mydhcp/ holds the same two programs.         *)
(*                                                                         *)
(* A client process is named by the pair (IP address, UDP port) that       *)
(* recvfrom() reports for it; a program that is started again gets another *)
(* port and so another name.  The header's code, ttl and netmask fields    *)
(* are left out: the server never reads them, and the only ttl it sends is *)
(* the constant TTL of its configuration file.                             *)
(***************************************************************************)
EXTENDS Naturals

CONSTANTS Client,     \* the client processes
          Addr,       \* the IP addresses of the configuration file
          NoClient,   \* id = port = 0 in an entry of client_list
          NoAddr,     \* address field of a datagram that carries none
          TTL,        \* first line of the configuration file, seconds
          MaxLost,    \* bound: how many datagrams the network may lose
          MaxDup      \* bound: how many it may duplicate

ASSUME NetAssumption == /\ NoClient \notin Client
                        /\ NoAddr \notin Addr
                        /\ TTL \in 1 .. 65535   \* uint16_t ttl
                        /\ MaxLost \in Nat
                        /\ MaxDup \in Nat

VARIABLES net,   \* net[m] = number of copies of m in transit
          lost,  \* datagrams lost so far
          dups   \* datagrams duplicated so far

netVars == <<net, lost, dups>>

(* To the server, from client c.  sdiscover, srequest/srequest2, srealse.  *)
Discover(c) == [type |-> "DISCOVER", peer |-> c, address |-> NoAddr]
Request(c)  == [type |-> "REQUEST",  peer |-> c, address |-> NoAddr]
Release(c)  == [type |-> "RELEASE",  peer |-> c, address |-> NoAddr]
(* To client c.  soffer, sack, sstarve.                                    *)
Offer(c, a) == [type |-> "OFFER",   peer |-> c, address |-> a]
Ack(c, a)   == [type |-> "ACK",     peer |-> c, address |-> a]
Starve(c)   == [type |-> "SSTARVE", peer |-> c, address |-> NoAddr]

Message == [type : {"DISCOVER", "REQUEST", "RELEASE", "SSTARVE"},
            peer : Client, address : {NoAddr}]
           \cup [type : {"OFFER", "ACK"}, peer : Client, address : Addr]

InTransit(m) == net[m] > 0

NetTypeOK == /\ net \in [Message -> Nat]
             /\ lost \in 0 .. MaxLost
             /\ dups \in 0 .. MaxDup

NetInit == /\ net = [m \in Message |-> 0]
           /\ lost = 0
           /\ dups = 0

(* sendto() of the datagrams of the set out.                               *)
Send(out) ==
  /\ net' = [m \in Message |-> net[m] + (IF m \in out THEN 1 ELSE 0)]
  /\ UNCHANGED <<lost, dups>>

(* recvfrom() of m, followed by the sendto() of out.                       *)
ReceiveAndSend(m, out) ==
  /\ InTransit(m)
  /\ net' = [x \in Message |-> (IF x = m THEN net[x] - 1 ELSE net[x])
                               + (IF x \in out THEN 1 ELSE 0)]
  /\ UNCHANGED <<lost, dups>>

(* What UDP may do to a datagram on the way.                               *)
Lose(m) ==
  /\ InTransit(m)
  /\ lost < MaxLost
  /\ lost' = lost + 1
  /\ net' = [net EXCEPT ![m] = @ - 1]
  /\ dups' = dups

Duplicate(m) ==
  /\ InTransit(m)
  /\ dups < MaxDup
  /\ dups' = dups + 1
  /\ net' = [net EXCEPT ![m] = @ + 1]
  /\ lost' = lost
=============================================================================
