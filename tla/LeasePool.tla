------------------------------ MODULE LeasePool ------------------------------
(***************************************************************************)
(* What the address table of mydhcpd promises, without its ring, its       *)
(* timers and its datagrams: free addresses wait in a first-in first-out   *)
(* queue; an address is offered from the head of the queue, granted to the *)
(* client it is offered to, and goes back to the tail once the grant ends. *)
(* A granted address never changes hands without going through the queue.  *)
(***************************************************************************)
EXTENDS Sequences, SequencesExt

CONSTANTS Client, Addr, NoClient

VARIABLES free,    \* the queue of free addresses
          holder,  \* whom an address is offered or granted to
          granted  \* the addresses that are granted

poolVars == <<free, holder, granted>>

PoolInit ==
  /\ free \in SetToSeqs(Addr)
  /\ holder = [a \in Addr |-> NoClient]
  /\ granted = {}

OfferHead(c) ==
  /\ free # <<>>
  /\ holder' = [holder EXCEPT ![Head(free)] = c]
  /\ free' = Tail(free)
  /\ UNCHANGED granted

Grant(a) ==
  /\ holder[a] # NoClient
  /\ granted' = granted \cup {a}
  /\ UNCHANGED <<free, holder>>

GiveBack(a) ==
  /\ a \in granted
  /\ granted' = granted \ {a}
  /\ holder' = [holder EXCEPT ![a] = NoClient]
  /\ free' = Append(free, a)

(* All outstanding offers pass to one client: the server's resend.         *)
Redirect(c) ==
  /\ holder' = [a \in Addr |-> IF holder[a] # NoClient /\ a \notin granted
                               THEN c ELSE holder[a]]
  /\ UNCHANGED <<free, granted>>

PoolNext == \/ \E c \in Client : OfferHead(c) \/ Redirect(c)
            \/ \E a \in Addr : Grant(a) \/ GiveBack(a)

PoolSpec == PoolInit /\ [][PoolNext]_poolVars
=============================================================================
