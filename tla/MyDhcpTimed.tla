----------------------------- MODULE MyDhcpTimed -----------------------------
(***************************************************************************)
(* MyDhcp with the one clock all processes have in common.  The server and *)
(* every client set a 1 s interval timer (time_init() in server.c:212 and  *)
(* socket.c:55), so in every second each of them takes one alarm, at any   *)
(* moment of that second; a datagram arrives, is lost, or is thrown away   *)
(* in the second it is sent in, and so is a SIGHUP looked at.              *)
(***************************************************************************)
EXTENDS MyDhcp

CONSTANT Server  \* the server process, beside the clients

ASSUME TimedAssumption == Server \notin Client

VARIABLE ticked  \* the processes that have had the alarm of this second

timedVars == <<vars, ticked>>

TimedTypeOK == ticked \subseteq (Client \cup {Server})

TimedInit == Init /\ ticked = {}

TakesAlarm(p) == p \notin ticked /\ ticked' = ticked \cup {p}

TimedServerAlarm == /\ TakesAlarm(Server)
                    /\ ServerTick \/ AlarmOutsideSelect
                    /\ UNCHANGED clientVars

(* An alarm counts in IPGET only (socket.c:227); elsewhere it just passes. *)
TimedClientAlarm(c) ==
  /\ TakesAlarm(c)
  /\ Running(c)
  /\ \/ ClientAlarm(c) /\ UNCHANGED serverVars
     \/ status[c] # "IPGET" /\ UNCHANGED vars

(* What is done between the alarms.                                        *)
Untimed ==
  /\ \/ /\ \E c \in Client : ServerReceive(c)
        /\ UNCHANGED clientVars
     \/ /\ \E c \in Client :
             \/ ClientStart(c)  \/ ClientOffer(c)       \/ ClientAck(c)
             \/ ClientIllegal(c) \/ ClientGone(c)       \/ ClientKilled(c)
             \/ ClientHangUp(c) \/ ClientReleasePrep(c)
        /\ UNCHANGED serverVars
     \/ Network
  /\ ticked' = ticked

NextSecond ==
  /\ up => Server \in ticked
  /\ \A c \in Client : Running(c) => c \in ticked /\ ~hupflag[c]
  /\ \A m \in Message : ~InTransit(m)
  /\ ticked' = {}
  /\ UNCHANGED vars

TimedNext == \/ TimedServerAlarm
             \/ \E c \in Client : TimedClientAlarm(c)
             \/ Untimed
             \/ NextSecond

TimedSpec == TimedInit /\ [][TimedNext]_timedVars

(* What is done without a signal from outside: datagrams and alarms.       *)
TimedWork ==
  \/ TimedServerAlarm
  \/ \E c \in Client :
       \/ TimedClientAlarm(c)
       \/ (ServerReceives(c) \/ ClientReceives(c)) /\ ticked' = ticked

(* The work of a second is done, by whatever process, and time passes: no  *)
(* second holds an infinity of SIGHUPs, so its end, which a SIGHUP not yet *)
(* looked at delays, is strongly fair.                                     *)
TimedFairness ==
  /\ SF_timedVars(NextSecond)
  /\ WF_timedVars(TimedWork)
  /\ \A c \in Client :
       WF_timedVars(ClientReleasePrep(c) /\ UNCHANGED <<serverVars, ticked>>)

TimedFairSpec == TimedSpec /\ TimedFairness

-----------------------------------------------------------------------------
(* Where no datagram is lost or repeated and nobody killed, no lease ever  *)
(* runs out: a client renews at TTL/2 by its own clock, and the server has *)
(* the REQUEST before its own clock reaches TTL.  This is what makes the   *)
(* condition of LeaseBacksAddress, ~ranOut, true of a normal run.          *)
NoLeaseRunsOut == lost = 0 /\ dups = 0 /\ kills = 0 => ~ranOut

(* A client does not wait for an ACK for ever, neither for its first one   *)
(* nor for one to a renewal, as long as nobody is killed.  After a client  *)
(* was killed, count_down() may free the entry of another one, which is    *)
(* the first of the ring and not the one that is due (see LiveLeaseKept),  *)
(* or end the server: only a client that has no entry any more, or no      *)
(* server, is then left without an answer.                                 *)
AckWaitEnds ==
  \A c \in Client :
    status[c] = "ACK_WAIT" ~>
      (status[c] # "ACK_WAIT" \/ (kills > 0 /\ (~up \/ \A a \in Addr : Id(a) # c)))

(* A client that died without a RELEASE holds no lease in the end, though  *)
(* the server may free others first, provided that from some time on       *)
(*  - no alarm is missed: each may be the one that spoils the tick in      *)
(*    which the lease is due, and rttl starts again from 0;                *)
(*  - no entry is left to wait for a REQUEST: one that stands before every *)
(*    lease keeps count_down() from releasing any (server.c:266-281).      *)
DeadLeaseReclaimed ==
  <>[](alrmflag = 0 /\ \A a \in Addr : Status(a) # "REQUEST_WAIT") =>
    \A c \in Client : status[c] = "EXIT" ~> \A a \in Addr : ~Leased(a, c)

(* The state diagram of mydhcp/: "Timeout / release" leads from "IP        *)
(* address allocated" of one client to its end; a client that renews in    *)
(* time keeps its address although another one has died.                   *)
LiveLeaseKept ==
  lost = 0 => \A c \in Client : status[c] = "IPGET" => Leased(address[c], c)
=============================================================================
