------------------------------ MODULE FtpClient ------------------------------
(***************************************************************************)
(* myftpc (ex-5bq/myftpc.c, proc.c): client processes, each at the prompt  *)
(* or in the middle of one command.  A command is a request, the wait for  *)
(* its answer and, for dir, get and put, a loop over data messages.        *)
(* lpwd, ldir and help only print, and a command with a wrong number of    *)
(* arguments only complains; no action stands for them.                    *)
(***************************************************************************)
EXTENDS FtpWire

CONSTANTS LocalHome,   \* $HOME and first working directory of the clients
          Typed,       \* the files users name
          Quotas       \* bound: how many commands the users may give

ASSUME ClientAssumption == /\ LocalHome \in Dir
                           /\ Typed \subseteq Arg
                           /\ Quotas \subseteq [Client -> Nat]

VARIABLES doing,  \* per client: "off", "prompt", a command it waits in, "ended"
          local,  \* per client: its files
          lcwd,   \* per client: its working directory
          lpath,  \* per client: the local file of its last get or put
          lpos,   \* per client: how far put has read
          left,   \* per client: commands its user will still give
          (* Not in the code: *)
          base,   \* per client: length of the local file when get opened it
          putting \* per client: what put has to send, the local file as it was

clientVars == <<doing, local, lcwd, lpath, lpos, left, base, putting>>

Waiting == {"quit", "pwd", "cd", "dir", "dirData", "get", "getData", "put", "putData"}

ClientTypeOK ==
  /\ doing \in [Client -> {"off", "prompt", "astray", "ended"} \cup Waiting]
  /\ local \in [Client -> [Path -> Text \cup {NoFile}]]
  /\ lcwd \in [Client -> Dir]
  /\ lpath \in [Client -> Path \cup {NoPath}]
  /\ lpos \in [Client -> Nat]
  /\ left \in [Client -> Nat]
  /\ base \in [Client -> Nat]
  /\ putting \in [Client -> Text]

ClientInit(content) ==
  /\ doing = [c \in Client |-> "off"]
  /\ local = content
  /\ lcwd = [c \in Client |-> LocalHome]
  /\ lpath = [c \in Client |-> NoPath]
  /\ lpos = [c \in Client |-> 0]
  /\ left \in Quotas
  /\ base = [c \in Client |-> 0]
  /\ putting = [c \in Client |-> <<>>]

transferVars == <<local, lcwd, lpath, lpos, base, putting>>

Do(c, what) == doing' = [doing EXCEPT ![c] = what]

(* socket_init(): the kernel of a running server completes the connection. *)
Connect(c) ==
  /\ serverUp
  /\ doing[c] = "off"
  /\ Do(c, "prompt")
  /\ conn' = [conn EXCEPT ![c] = "open"]
  /\ UNCHANGED <<serverUp, up, down, faults, lost, transferVars, left>>

-----------------------------------------------------------------------------
(* Requests. *)

(* send_msg().  Once the server has ended, what is sent is thrown away, or *)
(* SIGPIPE ends the client (ClientEnds).                                   *)
Emit(c, m) == /\ up' = IF serverUp THEN [up EXCEPT ![c] = Append(@, m)] ELSE up
              /\ UNCHANGED <<serverUp, conn, down, faults, lost>>

Ask(c, m, what) ==
  /\ doing[c] = "prompt"
  /\ left[c] > 0
  /\ left' = [left EXCEPT ![c] = @ - 1]
  /\ Emit(c, m)
  /\ Do(c, what)

AskQuit(c) == Ask(c, Msg("QUIT", 0), "quit") /\ UNCHANGED transferVars
AskPwd(c)  == Ask(c, Msg("PWD", 0), "pwd") /\ UNCHANGED transferVars
AskCd(c)   == /\ \E d \in Dir \cup {Tilde} : Ask(c, Named("CWD", d), "cd")
              /\ UNCHANGED transferVars
AskDir(c)  == /\ \E d \in Dir \cup {NoArg} : Ask(c, Named("LIST", d), "dir")
              /\ UNCHANGED transferVars

(* get path1 [path2]: the local file is opened, or created, first.         *)
AskGet(c) ==
  \E from \in Typed : \E to \in Typed \cup {ExtractFilename(from)} :
    LET p   == Resolve(lcwd[c], to)
        old == IF local[c][p] = NoFile THEN <<>> ELSE local[c][p]
    IN /\ Ask(c, Named("RETR", from), "get")
       /\ local' = [local EXCEPT ![c][p] = old]
       /\ lpath' = [lpath EXCEPT ![c] = p]
       /\ base' = [base EXCEPT ![c] = Len(old)]
       /\ UNCHANGED <<lcwd, lpos, putting>>

(* put path1 [path2]: without a local file nothing is left.               *)
AskPut(c) ==
  \E from \in Typed : \E to \in Typed \cup {ExtractFilename(from)} :
    LET p == Resolve(lcwd[c], from)
    IN /\ local[c][p] # NoFile
       /\ Ask(c, Named("STOR", to), "put")
       /\ lpath' = [lpath EXCEPT ![c] = p]
       /\ lpos' = [lpos EXCEPT ![c] = 0]
       /\ putting' = [putting EXCEPT ![c] = local[c][p]]
       /\ UNCHANGED <<local, lcwd, base>>

(* lcd: "~" is $HOME; where chdir() fails nothing changes.                 *)
Lcd(c) ==
  /\ doing[c] = "prompt"
  /\ left[c] > 0
  /\ left' = [left EXCEPT ![c] = @ - 1]
  /\ \E d \in Dir : lcwd' = [lcwd EXCEPT ![c] = d]
  /\ UNCHANGED <<wireVars, doing, local, lpath, lpos, base, putting>>

-----------------------------------------------------------------------------
(* Answers. *)

(* Mutant of ErrCheck: the loop ends before the row of UNKWNERR.           *)
ErrCheckShort(m) == m \in {NotFound, Denied}

(* errcheck(): the rows of cmdtbl from CMDERR to UNKWNERR.                 *)
ErrCheck(m) == m \in {NotFound, Denied, Unknown}

(* After recv() of r.  A header made of file text has a length that fits   *)
(* no buffer: what follows is undefined.                                   *)
After(c, r, next) ==
  /\ down' = [down EXCEPT ![c] = r.rest]
  /\ Do(c, IF r.msg.type = "STRAY" THEN "astray" ELSE next)
  /\ UNCHANGED <<serverUp, up, left>>

(* The header of an answer decides; data are not read.                     *)
Reply(c, what, refused, accepted) ==
  /\ doing[c] = what
  /\ \E r \in HeaderOf(c) : After(c, r, IF ErrCheck(r.msg) THEN refused ELSE accepted)
  /\ UNCHANGED <<faults, lost>>

QuitReply(c) ==
  /\ Reply(c, "quit", "prompt", "ended")
  /\ conn' = [conn EXCEPT ![c] = IF doing'[c] = "ended" THEN "closed" ELSE @]
  /\ UNCHANGED transferVars

PwdReply(c) ==
  /\ doing[c] = "pwd"
  /\ \E r \in MessageOf(c) : After(c, r, "prompt")
  /\ UNCHANGED <<conn, faults, transferVars, lost>>

CdReply(c)  == Reply(c, "cd", "prompt", "prompt") /\ UNCHANGED <<conn, transferVars>>
PutReply(c) == Reply(c, "put", "prompt", "putData") /\ UNCHANGED <<conn, transferVars>>

(* Only dir_proc() does not clear the buffer first: at the end of file it  *)
(* looks at whatever malloc() has returned.                                *)
DirReply(c) == /\ \/ Reply(c, "dir", "prompt", "dirData")
                  \/ down[c] = <<>> /\ Reply(c, "dir", "prompt", "prompt")
               /\ UNCHANGED <<conn, transferVars>>

(* A get that is refused removes the local file, whoever made it.          *)
GetReply(c) ==
  /\ Reply(c, "get", "prompt", "getData")
  /\ local' = IF doing'[c] = "prompt" THEN [local EXCEPT ![c][lpath[c]] = NoFile]
                                      ELSE local
  /\ UNCHANGED <<conn, lcwd, lpath, lpos, base, putting>>

Lasts(m) == m.type = "DATA" /\ m.code = 1

DirData(c) ==
  /\ doing[c] = "dirData"
  /\ \E r \in MessageOf(c) : After(c, r, IF Lasts(r.msg) THEN "dirData" ELSE "prompt")
  /\ UNCHANGED <<conn, faults, transferVars, lost>>

(* Whatever has arrived is written before its type is looked at, zeros for *)
(* what has not.  (What a client that goes astray writes is of no account.) *)
GetData(c) ==
  /\ doing[c] = "getData"
  /\ \E r \in MessageOf(c) :
       /\ After(c, r, IF Lasts(r.msg) THEN "getData" ELSE "prompt")
       /\ local' = [local EXCEPT ![c][lpath[c]] = @ \o r.msg.data]
  /\ UNCHANGED <<conn, faults, lcwd, lpath, lpos, base, putting, lost>>

(* write() fails: back to the prompt, although the server goes on sending. *)
GetFails(c) ==
  /\ doing[c] = "getData"
  /\ Fault
  /\ \E r \in MessageOf(c) : r.msg.data # <<>> /\ After(c, r, "prompt")
  /\ lost' = [lost EXCEPT ![c] = TRUE]
  /\ UNCHANGED <<conn, transferVars>>

(* Mutant of PutPiece: the loop ends with the first piece that is not full. *)
PutFullPiece(c) ==
  LET piece == Piece(local[c][lpath[c]], lpos[c])
  IN IF Len(piece) < PieceSize THEN <<>> ELSE piece
PutPiece(c) == Piece(local[c][lpath[c]], lpos[c])

PutMore(c) ==
  /\ doing[c] = "putData"
  /\ PutPiece(c) # <<>>
  /\ Emit(c, Data(PutPiece(c)))
  /\ lpos' = [lpos EXCEPT ![c] = @ + Len(PutPiece(c))]
  /\ UNCHANGED <<doing, local, lcwd, lpath, left, base, putting>>

(* The prompt comes back without an answer to the data.                    *)
PutEnd(c) ==
  /\ doing[c] = "putData"
  /\ PutPiece(c) = <<>>
  /\ Emit(c, DataEnd)
  /\ Do(c, "prompt")
  /\ UNCHANGED <<transferVars, left>>

(* A read error: the server is told of the end only.                       *)
PutFails(c) ==
  /\ doing[c] = "putData"
  /\ Fault
  /\ up' = IF serverUp THEN [up EXCEPT ![c] = Append(@, DataEnd)] ELSE up
  /\ putting' = [putting EXCEPT ![c] = SubSeq(@, 1, lpos[c])]
  /\ Do(c, "prompt")
  /\ UNCHANGED <<serverUp, conn, down, lost, local, lcwd, lpath, lpos, left, base>>

(* The end of standard input at the prompt, SIGPIPE from a server that has *)
(* ended, or any other end of the process: the connection is closed.       *)
(* If answers were left unread it is reset, and requests may get lost.     *)
ClientEnds(c) ==
  /\ doing[c] \notin {"off", "ended"}
  /\ IF doing[c] = "prompt" \/ ~serverUp THEN UNCHANGED faults ELSE Fault
  /\ Do(c, "ended")
  /\ conn' = [conn EXCEPT ![c] = "closed"]
  /\ down' = [down EXCEPT ![c] = <<>>]
  /\ \E k \in IF down[c] = <<>> THEN {Len(up[c])} ELSE 0 .. Len(up[c]) :
       up' = [up EXCEPT ![c] = SubSeq(@, 1, k)]
  /\ UNCHANGED <<serverUp, lost, transferVars, left>>

ClientNext(c) ==
  \/ Connect(c)
  \/ AskQuit(c) \/ AskPwd(c) \/ AskCd(c) \/ AskDir(c) \/ AskGet(c) \/ AskPut(c) \/ Lcd(c)
  \/ QuitReply(c) \/ PwdReply(c) \/ CdReply(c) \/ DirReply(c) \/ GetReply(c) \/ PutReply(c)
  \/ DirData(c) \/ GetData(c) \/ GetFails(c)
  \/ PutMore(c) \/ PutEnd(c) \/ PutFails(c)
  \/ ClientEnds(c)
=============================================================================
