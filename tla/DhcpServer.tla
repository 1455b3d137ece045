----------------------------- MODULE DhcpServer -----------------------------
(***************************************************************************)
(* mydhcpd, ex-4/server.c: one single-threaded process that waits in       *)
(* select() for a datagram or for the 1 s SIGALRM, and keeps the addresses *)
(* of its configuration file in the ring client_list.                      *)
(*                                                                         *)
(* client_list is a sequence, order, of addresses (the order of the fp     *)
(* pointers from the head) and a record per address.  p->ttl and           *)
(* p->ttlcounter are left out: the only assignment to them (server.c:438)  *)
(* is dead, because sack() clears rbuf before it tests rbuf.code == 2, so  *)
(* count_down() always finds p->ttl = 0 and calls release().               *)
(***************************************************************************)
EXTENDS DhcpNet, Sequences, FiniteSets, SequencesExt

CONSTANTS RetryLimit, \* the 10 of "time10 > 10"
          MaxMissed   \* bound: alarms taken outside select() between two ticks

ASSUME ServerAssumption == /\ IsFiniteSet(Addr)
                           /\ RetryLimit \in Nat
                           /\ MaxMissed \in 0 .. 254

VARIABLES client_list,  \* per address: status, id and rttl of its entry
          order,        \* the entries in ring order, head first
          skt,          \* sender of the last datagram received
          alrmflag,     \* SIGALRMs since the last tick
          time10,       \* ticks counted by this call of wait_event
          timeoutflag,  \* the one resend of the OFFERs has been done
          up,           \* the process has not called exit()
          ranOut        \* history: count_down() has released some entry

serverVars ==
  <<client_list, order, skt, alrmflag, time10, timeoutflag, up, ranOut>>

Status(a) == client_list[a].status
Id(a)     == client_list[a].id

Leased(a, c) == Status(a) = "IP_ALLOC" /\ Id(a) = c

ServerTypeOK ==
  /\ client_list \in
       [Addr -> [status : {"DISCOVER_WAIT", "REQUEST_WAIT", "IP_ALLOC"},
                 id     : Client \cup {NoClient},
                 rttl   : 0 .. TTL - 1]]
  /\ order \in Seq(Addr)
  /\ skt \in Client \cup {NoClient}
  /\ alrmflag \in 0 .. MaxMissed
  /\ time10 \in 0 .. RetryLimit
  /\ timeoutflag \in BOOLEAN
  /\ up \in BOOLEAN
  /\ ranOut \in BOOLEAN

(* get_config(): the file may list the addresses in any order.             *)
ServerInit ==
  /\ client_list = [a \in Addr |-> [status |-> "DISCOVER_WAIT",
                                    id |-> NoClient, rttl |-> 0]]
  /\ order \in SetToSeqs(Addr)
  /\ skt = NoClient
  /\ alrmflag = 0
  /\ time10 = 0
  /\ timeoutflag = FALSE
  /\ up = TRUE
  /\ ranOut = FALSE

-----------------------------------------------------------------------------
(* The ring.                                                               *)

(* Mutant of IsFirst: the search goes on to the last entry that matches.   *)
IsLast(i, S) == i \in S /\ \A j \in S : i >= j

(* i is the first position whose entry satisfies what S collects.          *)
IsFirst(i, S) == i \in S /\ \A j \in S : i <= j

PositionsIn(statuses) == {i \in DOMAIN order : Status(order[i]) \in statuses}

(* Mutant of MoveToTail: release() without remove_and_insert().            *)
KeepPlace(i) == order

(* remove_and_insert(): unlink the i-th entry, link it in again before the *)
(* head of the ring, which is after the last entry.                        *)
MoveToTail(i) == Append(RemoveAt(order, i), order[i])

-----------------------------------------------------------------------------
(* Mutant of Accepting: no row {IP_ALLOC, RREQUEST, sack} for a renewal.   *)
AcceptingNoRenewal(type) == CASE type = "DISCOVER" -> {"DISCOVER_WAIT"}
                              [] type = "REQUEST"  -> {"REQUEST_WAIT"}
                              [] type = "RELEASE"  -> {"IP_ALLOC"}

(* check_cli_list(): the event a datagram means to an entry of its sender. *)
Accepting(type) == CASE type = "DISCOVER" -> {"DISCOVER_WAIT"}
                     [] type = "REQUEST"  -> {"REQUEST_WAIT", "IP_ALLOC"}
                     [] type = "RELEASE"  -> {"IP_ALLOC"}

(* Mutant of Matching: the sender is not compared with id and port.        *)
MatchingAnyone(c, type) == PositionsIn(Accepting(type))

Matching(c, type) ==
  {i \in PositionsIn(Accepting(type)) : Id(order[i]) = c}

(* The entry a DISCOVER is answered from: one of the sender's own that     *)
(* waits for a DISCOVER, else the first free one (server.c:302-311).       *)
Candidates(c) == IF Matching(c, "DISCOVER") # {}
                 THEN Matching(c, "DISCOVER")
                 ELSE PositionsIn({"DISCOVER_WAIT"})

(* Every return of wait_event() begins a new call, with time10 = 0, and    *)
(* recvfrom() has overwritten skt.                                         *)
Returned(c) == /\ up
               /\ skt' = c
               /\ time10' = 0
               /\ UNCHANGED <<alrmflag, timeoutflag, up, ranOut>>

(* soffer() *)
OfferedTo(a, c) == [client_list[a] EXCEPT !.status = "REQUEST_WAIT", !.id = c]


ServerDiscover(c) ==
  /\ Returned(c)
  /\ \E i \in DOMAIN order :
       /\ IsFirst(i, Candidates(c))
       /\ client_list' = [client_list EXCEPT ![order[i]] = OfferedTo(order[i], c)]
       /\ ReceiveAndSend(Discover(c), {Offer(c, order[i])})
  /\ order' = order

(* sstarve(): no entry is free.                                            *)
ServerStarve(c) ==
  /\ Returned(c)
  /\ Candidates(c) = {}
  /\ ReceiveAndSend(Discover(c), {Starve(c)})
  /\ UNCHANGED <<client_list, order>>

(* sack() *)
AckedTo(a, c) == [status |-> "IP_ALLOC", id |-> c, rttl |-> 0]

ServerRequest(c) ==
  /\ Returned(c)
  /\ \E i \in DOMAIN order :
       /\ IsFirst(i, Matching(c, "REQUEST"))
       /\ client_list' = [client_list EXCEPT ![order[i]] = AckedTo(order[i], c)]
       /\ ReceiveAndSend(Request(c), {Ack(c, order[i])})
  /\ order' = order

(* release() leaves rttl as it is.                                         *)
Freed(entry) == [entry EXCEPT !.status = "DISCOVER_WAIT", !.id = NoClient]

ServerRelease(c) ==
  /\ Returned(c)
  /\ \E i \in DOMAIN order :
       /\ IsFirst(i, Matching(c, "RELEASE"))
       /\ client_list' = [client_list EXCEPT ![order[i]] = Freed(@)]
       /\ order' = MoveToTail(i)
  /\ ReceiveAndSend(Release(c), {})

(* A REQUEST or RELEASE that matches no entry.  wait_event() falls off its *)
(* end with loop = 0 (undefined behaviour: the value returned); the build  *)
(* of ex-4/makefile returns what fprintf left, 37, and p is the head of    *)
(* the ring, whose status is 0, so no row of ptab is taken.                *)
ServerUnknown(c) ==
  /\ Returned(c)
  /\ \E m \in {Request(c), Release(c)} :
       /\ Matching(c, m.type) = {}
       /\ ReceiveAndSend(m, {})
  /\ UNCHANGED <<client_list, order>>

-----------------------------------------------------------------------------
(* The alarm.                                                              *)

(* sigh_alrm() while the process is not in select(): only the flag counts  *)
(* it; the next tick then finds alrmflag > 1.                              *)
AlarmOutsideSelect ==
  /\ up
  /\ alrmflag < MaxMissed
  /\ alrmflag' = alrmflag + 1
  /\ UNCHANGED <<client_list, order, skt, time10, timeoutflag, up, ranOut>>
  /\ UNCHANGED netVars

(* Mutant of IsDue: rttl > ttl for rttl >= ttl.                            *)
IsDueLate(a) == Status(a) = "IP_ALLOC" /\ client_list[a].rttl + 1 > TTL

(* server.c:249-260: every lease grows older by a second, and one that has *)
(* reached TTL starts again from 0 and makes the tick a due one.           *)
IsDue(a)   == Status(a) = "IP_ALLOC" /\ client_list[a].rttl + 1 >= TTL
Aged(a)    == IF Status(a) # "IP_ALLOC" THEN client_list[a]
              ELSE [client_list[a] EXCEPT !.rttl = IF IsDue(a) THEN 0 ELSE @ + 1]
(* Mutant of DueTick: errno is set one second later than rttl is reset.    *)
DueTickLate == \E a \in Addr : IsDue(a) /\ client_list[a].rttl + 1 > TTL
DueTick    == \E a \in Addr : IsDue(a)

(* The list is looked at only on a due tick that no earlier alarm spoiled. *)
Scanned    == DueTick /\ alrmflag = 0
Busy       == PositionsIn({"REQUEST_WAIT", "IP_ALLOC"})
FirstBusy(i, status) == IsFirst(i, Busy) /\ Status(order[i]) = status

Tick == /\ up
        /\ alrmflag' = 0
        /\ skt' = skt

(* Nothing is due, or alrmflag is not 1: rttl has started again from 0 in  *)
(* the due entries and they keep their lease.                              *)
ServerTickOnly ==
  /\ Tick
  /\ ~Scanned
  /\ client_list' = [a \in Addr |-> Aged(a)]
  /\ UNCHANGED <<order, time10, timeoutflag, up, ranOut>>
  /\ UNCHANGED netVars

(* The first busy entry is a lease: count_down() releases it, and because  *)
(* release() has moved it to the tail the scan is over.                    *)
ServerExpire ==
  /\ Tick
  /\ Scanned
  /\ \E i \in DOMAIN order :
       /\ FirstBusy(i, "IP_ALLOC")
       /\ client_list' = [a \in Addr |-> IF a = order[i] THEN Freed(Aged(a))
                                                         ELSE Aged(a)]
       /\ order' = MoveToTail(i)
  /\ ranOut' = TRUE
  /\ UNCHANGED <<time10, timeoutflag, up>>
  /\ UNCHANGED netVars

(* The first busy entry waits for a REQUEST: only time10 counts.           *)
ServerCount ==
  /\ Tick
  /\ Scanned
  /\ \E i \in DOMAIN order : FirstBusy(i, "REQUEST_WAIT")
  /\ time10 + 1 <= RetryLimit
  /\ time10' = time10 + 1
  /\ client_list' = [a \in Addr |-> Aged(a)]
  /\ UNCHANGED <<order, timeoutflag, up, ranOut>>
  /\ UNCHANGED netVars

(* time10 has passed the limit for the first time: soffer() for every      *)
(* entry that waits for a REQUEST, each to the sender of the last datagram *)
(* received, whom soffer() also records in the entry.                      *)
ServerResend ==
  /\ Tick
  /\ Scanned
  /\ \E i \in DOMAIN order : FirstBusy(i, "REQUEST_WAIT")
  /\ time10 + 1 > RetryLimit
  /\ ~timeoutflag
  /\ LET waiting == {a \in Addr : Status(a) = "REQUEST_WAIT"}
     IN  /\ client_list' = [a \in Addr |-> IF a \in waiting THEN OfferedTo(a, skt)
                                                            ELSE Aged(a)]
         /\ Send({Offer(skt, a) : a \in waiting})
  /\ time10' = 0
  /\ timeoutflag' = TRUE
  /\ UNCHANGED <<order, up, ranOut>>

(* The second time: "timeout" and exit(1).                                 *)
ServerTimeout ==
  /\ Tick
  /\ Scanned
  /\ \E i \in DOMAIN order : FirstBusy(i, "REQUEST_WAIT")
  /\ time10 + 1 > RetryLimit
  /\ timeoutflag
  /\ client_list' = [a \in Addr |-> Aged(a)]
  /\ up' = FALSE
  /\ UNCHANGED <<order, time10, timeoutflag, ranOut>>
  /\ UNCHANGED netVars

ServerReceive(c) == \/ ServerDiscover(c) \/ ServerStarve(c) \/ ServerRequest(c)
                    \/ ServerRelease(c)  \/ ServerUnknown(c)

ServerTick == \/ ServerTickOnly \/ ServerExpire \/ ServerCount
              \/ ServerResend   \/ ServerTimeout
=============================================================================
