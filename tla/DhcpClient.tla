----------------------------- MODULE DhcpClient -----------------------------
(***************************************************************************)
(* mydhcpc, ex-4/socket.c: client processes that discover, request, renew  *)
(* and release an address.  Every client has a 1 s SIGALRM of its own, so  *)
(* its select() never sits out the 10 s of TIMEOUT: the branch that would  *)
(* send a DISCOVER or REQUEST again (socket.c:273-288) is unreachable and  *)
(* no action stands for it.                                                *)
(***************************************************************************)
EXTENDS DhcpNet

CONSTANT MaxKills  \* bound: clients that end without having said so

ASSUME ClientAssumption == MaxKills \in Nat

VARIABLES status,  \* per client; INIT before sdiscover(), EXIT after exit()
          rttl,    \* seconds in IPGET since the last renewal
          address, \* the address setip() has set
          hupflag, \* a SIGHUP has not been looked at yet
          kills    \* clients killed so far

clientVars == <<status, rttl, address, hupflag, kills>>

ClientTypeOK ==
  /\ status \in [Client -> {"INIT", "OFFER_WAIT", "ACK_WAIT", "IPGET", "EXIT"}]
  /\ rttl \in [Client -> 0 .. TTL - 1]
  /\ address \in [Client -> Addr \cup {NoAddr}]
  /\ hupflag \in [Client -> BOOLEAN]
  /\ kills \in 0 .. MaxKills

ClientInit ==
  /\ status = [c \in Client |-> "INIT"]
  /\ rttl = [c \in Client |-> 0]
  /\ address = [c \in Client |-> NoAddr]
  /\ hupflag = [c \in Client |-> FALSE]
  /\ kills = 0

Running(c) == status[c] \notin {"INIT", "EXIT"}

Goto(c, st) == status' = [status EXCEPT ![c] = st]

(* main() and sdiscover() *)
ClientStart(c) ==
  /\ status[c] = "INIT"
  /\ Goto(c, "OFFER_WAIT")
  /\ Send({Discover(c)})
  /\ UNCHANGED <<rttl, address, hupflag, kills>>

(* OFFER_WAIT and an OFFER: srequest() asks for whatever was offered.      *)
ClientOffer(c) ==
  /\ status[c] = "OFFER_WAIT"
  /\ Goto(c, "ACK_WAIT")
  /\ \E a \in Addr : ReceiveAndSend(Offer(c, a), {Request(c)})
  /\ UNCHANGED <<rttl, address, hupflag, kills>>

(* ACK_WAIT and an ACK: setip().  rttl is not reset.                       *)
ClientAck(c) ==
  /\ status[c] = "ACK_WAIT"
  /\ Goto(c, "IPGET")
  /\ \E a \in Addr : /\ ReceiveAndSend(Ack(c, a), {})
                     /\ address' = [address EXCEPT ![c] = a]
  /\ UNCHANGED <<rttl, hupflag, kills>>

(* Any other datagram: "illegal message" and exit(1), without a RELEASE.   *)
ClientIllegal(c) ==
  /\ Running(c)
  /\ \E m \in Message :
       /\ m.peer = c
       /\ \/ m.type = "SSTARVE"
          \/ m.type = "OFFER" /\ status[c] # "OFFER_WAIT"
          \/ m.type = "ACK"   /\ status[c] # "ACK_WAIT"
       /\ ReceiveAndSend(m, {})
  /\ Goto(c, "EXIT")
  /\ UNCHANGED <<rttl, address, hupflag, kills>>

(* sigh_hup(), at any time.                                                *)
ClientHangUp(c) ==
  /\ Running(c)
  /\ ~hupflag[c]
  /\ hupflag' = [hupflag EXCEPT ![c] = TRUE]
  /\ UNCHANGED <<status, rttl, address, kills>>
  /\ UNCHANGED netVars

(* Mutant of ClientReleasePrep: srealse() exits without a RELEASE.         *)
ClientReleasePrepSilent(c) ==
  /\ Running(c)
  /\ hupflag[c]
  /\ hupflag' = [hupflag EXCEPT ![c] = FALSE]
  /\ status' = [status EXCEPT ![c] = IF @ = "IPGET" THEN "EXIT" ELSE @]
  /\ UNCHANGED <<rttl, address, kills>>
  /\ UNCHANGED netVars

(* select() is interrupted and hupflag is up: RELEASEPREP, which has a row *)
(* in ptab for IPGET only, where srealse() sends a RELEASE and exits; in   *)
(* any other status the hang-up is forgotten.                              *)
ClientReleasePrep(c) ==
  /\ Running(c)
  /\ hupflag[c]
  /\ hupflag' = [hupflag EXCEPT ![c] = FALSE]
  /\ \/ /\ status[c] = "IPGET"
        /\ Send({Release(c)})
        /\ Goto(c, "EXIT")
     \/ /\ status[c] # "IPGET"
        /\ UNCHANGED status
        /\ UNCHANGED netVars
  /\ UNCHANGED <<rttl, address, kills>>

(* Mutant of HalfPassed: the renewal is left to the last second.           *)
LastPassed(c) == (IF rttl[c] + 1 >= TTL THEN 0 ELSE rttl[c] + 1) = TTL - 1

(* select() is interrupted by SIGALRM: seconds count in IPGET only, and    *)
(* after TTL/2 of them srequest2() asks for the lease to be renewed.       *)
Passed(c)  == IF rttl[c] + 1 >= TTL THEN 0 ELSE rttl[c] + 1
HalfPassed(c) == Passed(c) = TTL \div 2

(* Mutant of ClientAlarm: the client discovers again instead of renewing.  *)
ClientAlarmDiscovers(c) ==
  /\ status[c] = "IPGET"
  /\ ~hupflag[c]
  /\ rttl' = [rttl EXCEPT ![c] = IF HalfPassed(c) THEN 0 ELSE Passed(c)]
  /\ \/ HalfPassed(c) /\ Goto(c, "OFFER_WAIT") /\ Send({Discover(c)})
     \/ ~HalfPassed(c) /\ UNCHANGED status /\ UNCHANGED netVars
  /\ UNCHANGED <<address, hupflag, kills>>

ClientAlarm(c) ==
  /\ status[c] = "IPGET"
  /\ ~hupflag[c]
  /\ rttl' = [rttl EXCEPT ![c] = IF HalfPassed(c) THEN 0 ELSE Passed(c)]
  /\ \/ /\ HalfPassed(c)
        /\ Goto(c, "ACK_WAIT")
        /\ Send({Request(c)})
     \/ /\ ~HalfPassed(c)
        /\ UNCHANGED status
        /\ UNCHANGED netVars
  /\ UNCHANGED <<address, hupflag, kills>>

(* The process or its host dies: no code of the program runs.              *)
ClientKilled(c) ==
  /\ Running(c)
  /\ kills < MaxKills
  /\ kills' = kills + 1
  /\ Goto(c, "EXIT")
  /\ UNCHANGED <<rttl, address, hupflag>>
  /\ UNCHANGED netVars

(* What arrives at the port of a process that has ended is thrown away.    *)
ClientGone(c) ==
  /\ status[c] = "EXIT"
  /\ \E m \in Message : /\ m.peer = c
                        /\ m.type \in {"OFFER", "ACK", "SSTARVE"}
                        /\ ReceiveAndSend(m, {})
  /\ UNCHANGED clientVars

ClientNext(c) ==
  \/ ClientStart(c)  \/ ClientOffer(c)       \/ ClientAck(c)   \/ ClientIllegal(c)
  \/ ClientHangUp(c) \/ ClientReleasePrep(c) \/ ClientAlarm(c) \/ ClientKilled(c)
  \/ ClientGone(c)
=============================================================================
