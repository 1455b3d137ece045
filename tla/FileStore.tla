------------------------------ MODULE FileStore ------------------------------
(***************************************************************************)
(* What myftpd promises of its files, without connections, messages and    *)
(* failures: a file, once there, only grows, one piece after the other,    *)
(* and whoever fetches one gets all that it held at one moment.            *)
(***************************************************************************)
EXTENDS Naturals, Sequences, SequencesExt

CONSTANTS Client, Path, NoFile

VARIABLES store, \* what each file holds
          view   \* what each client has fetched last

storeVars == <<store, view>>

StoreInit == view = [c \in Client |-> NoFile]

Forgotten == \A c \in Client : view'[c] \in {view[c], NoFile}

Create(p) ==
  /\ store[p] = NoFile
  /\ store' = [store EXCEPT ![p] = <<>>]
  /\ Forgotten

Grow(p) ==
  /\ store[p] # NoFile
  /\ store' = [store EXCEPT ![p] = store'[p]]
  /\ IsPrefix(store[p], store'[p])
  /\ Forgotten

Fetch(c, p) ==
  /\ store[p] # NoFile
  /\ view' = [view EXCEPT ![c] = store[p]]
  /\ UNCHANGED store

Forget == Forgotten /\ UNCHANGED store

StoreNext == \/ \E p \in Path : Create(p) \/ Grow(p)
             \/ \E c \in Client, p \in Path : Fetch(c, p)
             \/ Forget

StoreSpec == StoreInit /\ [][StoreNext]_storeVars
=============================================================================
