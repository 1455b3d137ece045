------------------------------- MODULE MyFtp -------------------------------
(***************************************************************************)
(* myftpd with its clients (ex-5bq): the parent, a child per connection    *)
(* and the client processes, each at its own speed.                        *)
(***************************************************************************)
EXTENDS FtpServer, FtpClient

CONSTANTS ServerFiles, \* what the server has at first
          LocalFiles   \* what the clients have

ASSUME FilesAssumption ==
  /\ ServerFiles \in [Path -> Text \cup {NoFile}]
  /\ LocalFiles \in [Client -> [Path -> Text \cup {NoFile}]]

vars == <<wireVars, serverVars, clientVars>>

Init == WireInit /\ ServerInit(ServerFiles) /\ ClientInit(LocalFiles)

Next == \/ ServerStep /\ UNCHANGED clientVars
        \/ (\E c \in Client : ClientNext(c)) /\ UNCHANGED serverVars
        \/ (\E c \in Client : LoseTail(c)) /\ UNCHANGED <<serverVars, clientVars>>

Spec == Init /\ [][Next]_vars

(* A process that can go on does.  No user has to type anything, and no    *)
(* failure has to happen.                                                  *)
ClientGoesOn(c) == \/ QuitReply(c) \/ PwdReply(c) \/ CdReply(c) \/ DirReply(c)
                   \/ GetReply(c) \/ PutReply(c) \/ DirData(c) \/ GetData(c)
                   \/ PutMore(c) \/ PutEnd(c)

Fairness == /\ WF_vars((SigChld \/ Wait) /\ UNCHANGED clientVars)
            /\ \A c \in Client :
                 /\ WF_vars(Accept(c) /\ UNCHANGED clientVars)
                 /\ WF_vars(ChildStep(c) /\ UNCHANGED clientVars)
                 /\ WF_vars(ClientGoesOn(c) /\ UNCHANGED serverVars)

FairSpec == Spec /\ Fairness

-----------------------------------------------------------------------------
TypeOK == WireTypeOK /\ ServerTypeOK /\ ClientTypeOK

(* What may stand first in the stream to a client that is doing something. *)
MayCome(c, m) ==
  CASE doing[c] = "quit" -> m = Done
    [] doing[c] = "pwd" -> m.type = "CMD" /\ m.arg = cwd[c]
    [] doing[c] = "cd" -> m \in {Done, Denied, NotFound}
    [] doing[c] \in {"dir", "get"} -> m \in {DataToClient, Denied, NotFound, Unknown}
    [] doing[c] = "put" -> m \in {DataToServer, Denied, Unknown}
    [] doing[c] \in {"dirData", "getData"} -> m.type = "DATA"
    [] OTHER -> FALSE

(* Client and server agree on which answer belongs to which command and    *)
(* where a message begins, through every order of their steps and every    *)
(* error that is answered, until a failure has left an answer over, as     *)
(* long as recv() gets what was sent in one piece.  In particular pwd      *)
(* shows where the child is, and the prompt comes back only when nothing   *)
(* more will come.                                                         *)
InStep ==
  \A c \in Client \ Split : ~lost[c] /\ down[c] # <<>> => MayCome(c, Head(down[c]))

Plain(s) == \A i \in DOMAIN s : s[i] # Nul

(* A get that was told of the end of the data has added to the local file  *)
(* what the server has read, if it holds no zero bytes.  Where the network *)
(* has split messages nothing is promised, of a put neither.               *)
GetEnds(c) == /\ doing[c] = "getData" /\ doing'[c] = "prompt"
              /\ down[c] # <<>> /\ Head(down[c]) = DataEnd
GetCopies ==
  [][\A c \in Client \ Split :
       GetEnds(c) /\ ~lost[c] /\ path[c] # NoPath
       => LET read == SubSeq(files[path[c]], 1, pos[c])
              got  == local'[c][lpath[c]]
          IN Plain(read) => SubSeq(got, base[c] + 1, Len(got)) = read]_vars

(* When the child has seen the end of a put, all of the client's file is   *)
(* in the server's, behind what was there, in its order, whatever other    *)
(* connections have written between its pieces.  Where the client has      *)
(* asked for its next put meanwhile, putting is that one's.                *)
IsWithin(s, t) ==
  \E at \in [DOMAIN s -> DOMAIN t] :
     /\ \A i \in DOMAIN s : t[at[i]] = s[i]
     /\ \A i, j \in DOMAIN s : i < j => at[i] < at[j]
PutEnds(c) == /\ child[c] = "sput" /\ child'[c] = "loop"
              /\ up[c] # <<>> /\ Head(up[c]) = DataEnd
NextAsked(c) == \E i \in DOMAIN up[c] : up[c][i].type = "STOR"
PutStores ==
  [][\A c \in Client \ Split :
       PutEnds(c) /\ ~NextAsked(c) /\ ~lost[c] /\ Plain(putting[c])
       => LET now == files[path[c]]
          IN IsWithin(putting[c], SubSeq(now, pos[c] + 1, Len(now)))]_vars

(* sig_chld() never waits for a child that still runs, although several    *)
(* children may end before one signal is handled: accept() goes on.        *)
WaitFindsChild == inChld => zombies > 0

(* The files under all connections together are a store of files that only *)
(* grow, and a get without a read error is a snapshot of one, taken when   *)
(* read() returns 0.                                                       *)
Store == INSTANCE FileStore WITH
           store <- files,
           view  <- [c \in Client |-> IF child[c] = "loop" /\ path[c] # NoPath
                                      THEN SubSeq(files[path[c]], 1, pos[c])
                                      ELSE NoFile]

ImplementsStore == Store!StoreSpec

(* Every command comes to an end, unless its child has crashed, or an      *)
(* answer was left over, or both ends wait for each other: after an error  *)
(* of cd that scd_proc() does not answer, or where a split message has     *)
(* made the child pass over a request, if not end.                         *)
BothWait(c) == child[c] = "loop" /\ up[c] = <<>> /\ down[c] = <<>>
Unanswered(c) == \/ child[c] = "crashed" \/ lost[c]
                 \/ doing[c] = "cd" /\ BothWait(c)
                 \/ c \in Split /\ (BothWait(c) \/ child[c] = "exited")
CommandEnds ==
  \A c \in Client : doing[c] \in Waiting ~> doing[c] \notin Waiting \/ Unanswered(c)

(* No child outlives its client, in whatever state the client has left it. *)
ChildEnds == \A c \in Client : conn[c] = "closed" ~> child[c] \in Ended
=============================================================================
