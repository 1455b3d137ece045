------------------------------- MODULE MyDhcp -------------------------------
(***************************************************************************)
(* The server and its clients over the network (ex-4, mydhcp): every       *)
(* process runs at its own speed, clocks are not related in any way.       *)
(* MyDhcpTimed adds the 1 s period all of them share.                      *)
(***************************************************************************)
EXTENDS DhcpServer, DhcpClient

vars == <<netVars, serverVars, clientVars>>

Init == NetInit /\ ServerInit /\ ClientInit

ServerStep == /\ \/ \E c \in Client : ServerReceive(c)
                 \/ AlarmOutsideSelect
                 \/ ServerTick
              /\ UNCHANGED clientVars

ClientStep == /\ \E c \in Client : ClientNext(c)
              /\ UNCHANGED serverVars

Network == /\ \E m \in Message : Lose(m) \/ Duplicate(m)
           /\ UNCHANGED <<serverVars, clientVars>>

Next == ServerStep \/ ClientStep \/ Network

Spec == Init /\ [][Next]_vars

-----------------------------------------------------------------------------
(* Fairness.  A datagram that is not lost is received: select() returns    *)
(* for as long as one waits.  The interval timer goes off again and again. *)
ServerReceives(c)  == ServerReceive(c) /\ UNCHANGED clientVars
ClientReceives(c)  == /\ ClientOffer(c) \/ ClientAck(c) \/ ClientIllegal(c)
                         \/ ClientGone(c)
                      /\ UNCHANGED serverVars
ServerTicks        == ServerTick /\ UNCHANGED clientVars
ClientTicks(c)     == /\ ClientAlarm(c) \/ ClientReleasePrep(c)
                      /\ UNCHANGED serverVars

Fairness == /\ WF_vars(ServerTicks)
            /\ \A c \in Client : /\ WF_vars(ServerReceives(c))
                                 /\ WF_vars(ClientReceives(c))
                                 /\ WF_vars(ClientTicks(c))

FairSpec == Spec /\ Fairness

-----------------------------------------------------------------------------
TypeOK == NetTypeOK /\ ServerTypeOK /\ ClientTypeOK

(* No two clients use one address, in its inductive form: as long as       *)
(* count_down() has released nothing, an address that a running client has *)
(* set is an IP_ALLOC entry in that client's name, whatever the network    *)
(* lost, repeated or delayed and whoever was killed.                       *)
LeaseBacksAddress ==
  ~ranOut => \A c \in Client :
               Running(c) /\ address[c] # NoAddr => Leased(address[c], c)

(* What makes it inductive: a RELEASE only travels after its sender ended, *)
(* and an ACK under way to a client is backed like an address already set. *)
ReleasedHaveExited ==
  \A c \in Client : InTransit(Release(c)) => status[c] = "EXIT"

AcksBacked ==
  ~ranOut => \A c \in Client, a \in Addr :
               status[c] # "EXIT" /\ InTransit(Ack(c, a)) => Leased(a, c)

AddressBacked ==
  ~ranOut => \A c \in Client :
               status[c] # "EXIT" /\ address[c] # NoAddr => Leased(address[c], c)

LeaseInv == ReleasedHaveExited /\ AcksBacked /\ AddressBacked

(* A renewal gives a client the address it has.  The server answers it     *)
(* from the first entry of the ring in the client's name, and a repeated   *)
(* DISCOVER may have put a second one there.                               *)
RenewalKeepsAddress ==
  [][\A c \in Client :
       address[c] # NoAddr /\ ~ranOut /\ ~timeoutflag
         => address'[c] = address[c]]_vars

(* Where no datagram has been duplicated and no OFFER resent, no client    *)
(* takes two entries.                                                      *)
OneEntryPerClient ==
  dups = 0 /\ ~timeoutflag
    => \A a, b \in Addr : Id(a) = Id(b) /\ Id(a) # NoClient => a = b

(* Where the network is faithful, nobody is killed and nothing timed out,  *)
(* no entry is forgotten: it waits for its OFFER or REQUEST to arrive, or  *)
(* is leased to a client that runs or whose RELEASE is under way.          *)
EntryAccountedFor ==
  lost = 0 /\ dups = 0 /\ kills = 0 /\ ~timeoutflag /\ ~ranOut
    => \A a \in Addr, c \in Client : Id(a) = c =>
         \/ Status(a) = "REQUEST_WAIT" /\ status[c] = "OFFER_WAIT"
            /\ InTransit(Offer(c, a))
         \/ Status(a) = "REQUEST_WAIT" /\ status[c] = "ACK_WAIT"
            /\ InTransit(Request(c))
         \/ Status(a) = "IP_ALLOC" /\ status[c] = "ACK_WAIT"
            /\ (InTransit(Request(c)) \/ InTransit(Ack(c, a)))
         \/ Status(a) = "IP_ALLOC" /\ status[c] = "IPGET"
         \/ Status(a) = "IP_ALLOC" /\ status[c] = "EXIT" /\ InTransit(Release(c))

(* The ring with its in-place status changes is a FIFO queue of the free   *)
(* addresses: remove_and_insert() keeps them behind the last busy entry,   *)
(* in the order of their release.                                          *)
BehindLast(s, positions) == SubSeq(s, Max(positions \cup {0}) + 1, Len(s))

Pool == INSTANCE LeasePool WITH
          free    <- BehindLast(order, Busy),
          holder  <- [a \in Addr |-> Id(a)],
          granted <- {a \in Addr : Status(a) = "IP_ALLOC"}

ImplementsPool == Pool!PoolSpec

-----------------------------------------------------------------------------
(* What the state diagrams of mydhcp/ say and the code does not do.        *)

(* "timeout / sdiscover()": a client does not wait for an OFFER for ever.  *)
OfferWaitEnds ==
  \A c \in Client : status[c] = "OFFER_WAIT" ~> status[c] # "OFFER_WAIT"

(* "waiting for REQUEST -- timeout / soffer again": the OFFER sent again   *)
(* goes to the client the address was offered to.                          *)
ResendKeepsClient ==
  [][\A a \in Addr : Status(a) = "REQUEST_WAIT" /\ Status(a)' = "REQUEST_WAIT"
                     => Id(a)' = Id(a)]_vars
=============================================================================
