------------------------------ MODULE FtpServer ------------------------------
(***************************************************************************)
(* myftpd (ex-5bq/myftpd.c, proc.c, myls.c): a parent that accepts and a   *)
(* child per connection.  The children share nothing but the files.  What  *)
(* the operating system answers to open(), chdir(), opendir() ... is       *)
(* chosen freely where the files do not decide it.                         *)
(*                                                                         *)
(* The parent never closes its copy of a connection: a client whose child  *)
(* has ended sees no end of file until the parent is gone as well.         *)
(***************************************************************************)
EXTENDS FtpWire

CONSTANTS Home,       \* $HOME of the server
          MaxEntries  \* bound: lines of a directory listing

ASSUME ServerAssumption == Home \in Dir /\ MaxEntries \in Nat

VARIABLES files,    \* the files of the server
          child,    \* per connection: where its child is
          cwd,      \* per connection: working directory of the child
          path,     \* per connection: the file being stored, or the last one read
          pos,      \* per connection: how far the child has read it, or the
                    \* directory; while a file is stored, where it ended when
                    \* it was opened (no step reads that)
          zombies,  \* children that have ended and were not waited for
          sigchld,  \* SIGCHLD is pending for the parent
          inChld    \* the parent is in sig_chld()

serverVars == <<files, child, cwd, path, pos, zombies, sigchld, inChld>>
parentVars == <<zombies, sigchld, inChld>>

Running == {"loop", "list", "listFile", "sget", "sput"}
Ended   == {"exited", "crashed", "killed"}

ServerTypeOK ==
  /\ files \in [Path -> Text \cup {NoFile}]
  /\ child \in [Client -> {"none"} \cup Running \cup Ended]
  /\ cwd \in [Client -> Dir]
  /\ path \in [Client -> Path \cup {NoPath}]
  /\ pos \in [Client -> Nat]
  /\ zombies \in Nat
  /\ sigchld \in BOOLEAN
  /\ inChld \in BOOLEAN

ServerInit(content) ==
  /\ files = content
  /\ child = [c \in Client |-> "none"]
  /\ cwd = [c \in Client |-> Home]
  /\ path = [c \in Client |-> NoPath]
  /\ pos = [c \in Client |-> 0]
  /\ zombies = 0
  /\ sigchld = FALSE
  /\ inChld = FALSE

-----------------------------------------------------------------------------
(* Steps of a child. *)

Goto(c, pc) == child' = [child EXCEPT ![c] = pc]

(* send_msg(); to a client that is gone it fails, and sig_pipe() returns.  *)
Send(c, msgs) ==
  down' = [down EXCEPT ![c] = IF conn[c] = "open" THEN @ \o msgs ELSE @]

(* recv() of one request or data message.                                  *)
Take(c, type) ==
  /\ up[c] # <<>>
  /\ Head(up[c]).type = type
  /\ up' = [up EXCEPT ![c] = Tail(@)]

(* A request whose handler sends msgs and returns to the loop of main().   *)
Request(c, type) == child[c] = "loop" /\ Take(c, type)
Answer(c, msgs) == /\ Send(c, msgs)
                   /\ UNCHANGED <<serverUp, conn, lost, child, faults, parentVars>>

(* exit() or a signal ends the child.                                      *)
End(c, how) == /\ Goto(c, how)
               /\ zombies' = zombies + 1
               /\ sigchld' = TRUE
               /\ UNCHANGED inChld

Line == <<CHOOSE b \in Byte : b # Nul>>  \* some text

Pwd(c) ==
  /\ Request(c, "PWD")
  /\ Answer(c, <<[Named("CMD", cwd[c]) EXCEPT !.data = Line]>>)
  /\ UNCHANGED <<files, cwd, path, pos>>

(* chdir() to $HOME is not checked.  An errno besides EACCES, ENOENT and   *)
(* ENOTDIR is not answered.                                                *)
ChdirErrors == {<<Denied>>, <<NotFound>>, <<>>}

(* Mutant of HomeOr: "~" is a directory like any other.                    *)
AsWritten(to) == to
HomeOr(to) == IF to = Tilde THEN Home ELSE to

Cwd(c) ==
  /\ Request(c, "CWD")
  /\ LET to == Head(up[c]).arg IN
     \/ /\ Answer(c, <<Done>>)
        /\ cwd' = [cwd EXCEPT ![c] = HomeOr(to)]
     \/ /\ \/ to = Tilde /\ Answer(c, <<Done>>)
           \/ to # Tilde /\ \E e \in ChdirErrors : Answer(c, e)
        /\ UNCHANGED cwd
  /\ UNCHANGED <<files, path, pos>>

(* Stray bytes may look like QUIT: the count of a message, without the      *)
(* bytes before it.                                                        *)
Quit(c) ==
  /\ Request(c, "QUIT") \/ Request(c, "STRAY")
  /\ Send(c, <<Done>>)
  /\ End(c, "exited")
  /\ UNCHANGED <<serverUp, conn, lost, files, cwd, path, pos, faults>>

-----------------------------------------------------------------------------
(* ls_send(): errors of opendir(), a file listed through popen() of ls, or *)
(* a directory.  Where popen() fails, both functions send the error.       *)
ListErrors == {Denied, NotFound, Unknown}
HasPath(c) == Head(up[c]).arg # NoArg

List(c) ==
  /\ Request(c, "LIST")
  /\ \/ /\ Send(c, <<DataToClient>>)
        /\ \/ Goto(c, "list")
           \/ HasPath(c) /\ Goto(c, "listFile")
        /\ UNCHANGED <<serverUp, conn, lost, faults, parentVars>>
     \/ \E e \in ListErrors : Answer(c, <<e>>)
     \/ /\ HasPath(c)
        /\ Fault
        /\ Send(c, <<NotFound, NotFound>>)
        /\ lost' = [lost EXCEPT ![c] = TRUE]
        /\ UNCHANGED <<serverUp, conn, child, parentVars>>
  /\ pos' = [pos EXCEPT ![c] = 0]
  /\ path' = [path EXCEPT ![c] = NoPath]
  /\ UNCHANGED <<files, cwd>>

ListEntry(c) ==
  /\ child[c] \in {"list", "listFile"}
  /\ \/ /\ pos[c] < MaxEntries
        /\ Send(c, <<Data(Line)>>)
        /\ pos' = [pos EXCEPT ![c] = @ + 1]
        /\ UNCHANGED <<child, parentVars>>
     \/ /\ Send(c, <<DataEnd>>)
        /\ Goto(c, "loop")
        /\ UNCHANGED <<pos, parentVars>>
  /\ UNCHANGED <<serverUp, conn, lost, up, files, cwd, path, faults>>

(* stat() is given the bare name and is not checked, and getpwuid() of     *)
(* whatever its buffer holds may be NULL.                                  *)
ListCrash(c) ==
  /\ child[c] = "list"
  /\ End(c, "crashed")
  /\ UNCHANGED <<wireVars, files, cwd, path, pos>>

-----------------------------------------------------------------------------
(* sget_proc(): the first piece is read before the answer is sent.         *)
OpenFile(c) == Resolve(cwd[c], Head(up[c]).arg)
NoneOpen(c) == path' = [path EXCEPT ![c] = NoPath]

(* Mutant of AfterFirst: the loop reads the file from its start again.     *)
FromStart(piece) == 0
AfterFirst(piece) == Len(piece)

(* Mutant of Refusal: no return after the error, data end is sent as well. *)
RefusalAndEnd(m) == <<m, DataEnd>>
Refusal(m) == <<m>>

Retr(c) ==
  /\ Request(c, "RETR")
  /\ \/ /\ files[OpenFile(c)] # NoFile
        /\ LET piece == Piece(files[OpenFile(c)], 0) IN
           /\ Send(c, <<DataToClient, Data(piece)>>)
           /\ pos' = [pos EXCEPT ![c] = AfterFirst(piece)]
        /\ path' = [path EXCEPT ![c] = OpenFile(c)]
        /\ Goto(c, "sget")
        /\ UNCHANGED <<serverUp, conn, lost, faults, parentVars>>
     \/ /\ \/ files[OpenFile(c)] = NoFile /\ Answer(c, <<NotFound>>)
           \/ \E e \in {Denied, Unknown} : Answer(c, Refusal(e))
        /\ NoneOpen(c)
        /\ UNCHANGED pos
  /\ UNCHANGED <<files, cwd>>

NextPiece(c) == Piece(files[path[c]], pos[c])

RetrMore(c) ==
  /\ child[c] = "sget"
  /\ NextPiece(c) # <<>>
  /\ Send(c, <<Data(NextPiece(c))>>)
  /\ pos' = [pos EXCEPT ![c] = @ + Len(NextPiece(c))]
  /\ UNCHANGED <<serverUp, conn, lost, up, files, child, cwd, path, parentVars, faults>>

RetrEnd(c) ==
  /\ child[c] = "sget"
  /\ NextPiece(c) = <<>>
  /\ Send(c, <<DataEnd>>)
  /\ Goto(c, "loop")
  /\ UNCHANGED <<serverUp, conn, lost, up, files, cwd, path, pos, parentVars, faults>>

(* A read error after the first piece: the client is told of the end only. *)
RetrFails(c) ==
  /\ child[c] = "sget"
  /\ Fault
  /\ Send(c, <<DataEnd>>)
  /\ Goto(c, "loop")
  /\ NoneOpen(c)
  /\ UNCHANGED <<serverUp, conn, lost, up, files, cwd, pos, parentVars>>

-----------------------------------------------------------------------------
(* sput_proc(). *)

(* Mutant of Opened: O_TRUNC for O_APPEND.                                 *)
Truncated(file) == <<>>
Opened(file) == IF file = NoFile THEN <<>> ELSE file

Stor(c) ==
  /\ Request(c, "STOR")
  /\ \/ /\ files' = [files EXCEPT ![OpenFile(c)] = Opened(@)]
        /\ path' = [path EXCEPT ![c] = OpenFile(c)]
        /\ pos' = [pos EXCEPT ![c] = Len(files'[OpenFile(c)])]
        /\ Send(c, <<DataToServer>>)
        /\ Goto(c, "sput")
        /\ UNCHANGED <<serverUp, conn, lost, faults, parentVars>>
     \/ /\ \E e \in {Denied, Unknown} : Answer(c, <<e>>)
        /\ NoneOpen(c)
        /\ UNCHANGED <<files, pos>>
  /\ UNCHANGED cwd

(* recv() of a data message, which is asked for once: what is written is   *)
(* as long as the header says, whatever has come.  Stray bytes may look    *)
(* like a header of data, a space is the type of DATA: their length fits   *)
(* no buffer, and what is written, here the bytes themselves, is anything. *)
DataHeard(c) ==
  /\ child[c] = "sput"
  /\ up[c] # <<>>
  /\ Head(up[c]).type \in {"DATA", "STRAY"}

(* A message of no data writes nothing, one of code 0 ends the file.       *)
StorData(c) ==
  /\ DataHeard(c)
  /\ \E r \in Parts(c, up[c]) :
       /\ up' = [up EXCEPT ![c] = r.rest]
       /\ files' = [files EXCEPT ![path[c]] = @ \o r.msg.data]
  /\ \/ Head(up[c]).code = 1 /\ UNCHANGED <<child, path>>
     \/ Head(up[c]).code = 0 /\ Goto(c, "loop") /\ NoneOpen(c)
  /\ UNCHANGED <<serverUp, conn, lost, down, cwd, pos, parentVars, faults>>

(* write() fails: back to the loop, without a word to the client.          *)
StorFails(c) ==
  /\ DataHeard(c)
  /\ \E r \in Parts(c, up[c]) : r.msg.data # <<>> /\ up' = [up EXCEPT ![c] = r.rest]
  /\ Fault
  /\ Goto(c, "loop")
  /\ NoneOpen(c)
  /\ UNCHANGED <<serverUp, conn, lost, down, files, cwd, pos, parentVars>>

(* Mutant of StorEof: what recv() returns at the end is taken for data.    *)
StorEofSpins(c) ==
  /\ child[c] = "sput"
  /\ up[c] = <<>>
  /\ conn[c] = "closed"
  /\ UNCHANGED <<wireVars, files, child, cwd, path, pos, parentVars>>

(* What may be left of s, which begins with stray bytes, when four have    *)
(* been taken for a header: more of them, what comes behind them, or that  *)
(* without the first bytes of its own header.                              *)
Beyond(s) ==
  {s, Tail(s)} \cup
  {<<[Msg("STRAY", 0) EXCEPT !.data = Head(t).data]>> \o Tail(t) : t \in {Tail(s)} \ {<<>>}}

(* Anything else is an "illegal command": back to the loop, and the name    *)
(* that follows such a header stays in the stream.                         *)
NameLeft(m) == IF m.arg = NoArg THEN <<>> ELSE <<Msg("STRAY", 0)>>
HeaderTaken(s) == IF Head(s).type = "STRAY" THEN Beyond(s) ELSE {NameLeft(Head(s)) \o Tail(s)}

StorIllegal(c) ==
  /\ child[c] = "sput"
  /\ up[c] # <<>>
  /\ Head(up[c]).type # "DATA"
  /\ \E rest \in HeaderTaken(up[c]) : up' = [up EXCEPT ![c] = rest]
  /\ Goto(c, "loop")
  /\ NoneOpen(c)
  /\ UNCHANGED <<serverUp, conn, lost, down, files, cwd, pos, parentVars, faults>>

(* The client is gone: recv() leaves a header of zeros, which is no DATA.  *)
StorEof(c) ==
  /\ child[c] = "sput"
  /\ up[c] = <<>>
  /\ conn[c] = "closed"
  /\ Goto(c, "loop")
  /\ NoneOpen(c)
  /\ UNCHANGED <<wireVars, files, cwd, pos, parentVars, faults>>

-----------------------------------------------------------------------------
(* The loop of the child finds the row of cmdtbl for what it has received. *)
(* The rows of CMD ... DATA and the last one have no function, and the     *)
(* test for a missing row never holds: the call goes to address 0.  Stray  *)
(* letters are no type either; four of them hold a length that fits no     *)
(* buffer and are read over.  With fewer, before the header that follows,  *)
(* the length may be none, and the call goes to address 0, or small, and   *)
(* QUIT ends the child.  Where a file is stored the buffer overflows.      *)
NoFunction(c) ==
  /\ \/ child[c] = "loop" /\ Take(c, "DATA")
     \/ child[c] \in {"loop", "sput"} /\ Take(c, "STRAY")
  /\ End(c, "crashed")
  /\ UNCHANGED <<serverUp, conn, lost, down, files, cwd, path, pos, faults>>

ReadOver(c) ==
  /\ child[c] = "loop"
  /\ up[c] # <<>>
  /\ Head(up[c]).type = "STRAY"
  /\ \E rest \in Beyond(up[c]) : up' = [up EXCEPT ![c] = rest]
  /\ UNCHANGED <<serverUp, conn, lost, down, files, child, cwd, path, pos, parentVars, faults>>

LoopEof(c) ==
  /\ child[c] = "loop"
  /\ up[c] = <<>>
  /\ conn[c] = "closed"
  /\ End(c, "exited")
  /\ UNCHANGED <<wireVars, files, cwd, path, pos>>

ChildStep(c) ==
  \/ Pwd(c) \/ Cwd(c) \/ Quit(c)
  \/ List(c) \/ ListEntry(c) \/ ListCrash(c)
  \/ Retr(c) \/ RetrMore(c) \/ RetrEnd(c) \/ RetrFails(c)
  \/ Stor(c) \/ StorData(c) \/ StorFails(c) \/ StorIllegal(c) \/ StorEof(c)
  \/ NoFunction(c) \/ ReadOver(c) \/ LoopEof(c)

-----------------------------------------------------------------------------
(* The parent: accept() and fork(), and sig_chld(), which waits once for   *)
(* each signal it gets.  SIGCHLD is blocked while it runs.                 *)
Accept(c) ==
  /\ serverUp
  /\ ~inChld
  /\ conn[c] # "none"
  /\ child[c] = "none"
  /\ Goto(c, "loop")
  /\ UNCHANGED <<wireVars, files, cwd, path, pos, parentVars>>


(* Mutant of SigChld: the signal is still pending when its handler runs.   *)
SigChldStays ==
  /\ serverUp
  /\ sigchld
  /\ ~inChld
  /\ inChld' = TRUE
  /\ UNCHANGED <<wireVars, files, child, cwd, path, pos, zombies, sigchld>>

SigChld ==
  /\ serverUp
  /\ sigchld
  /\ ~inChld
  /\ sigchld' = FALSE
  /\ inChld' = TRUE
  /\ UNCHANGED <<wireVars, files, child, cwd, path, pos, zombies>>

Wait ==
  /\ serverUp
  /\ inChld
  /\ zombies > 0
  /\ zombies' = zombies - 1
  /\ inChld' = FALSE
  /\ UNCHANGED <<wireVars, files, child, cwd, path, pos, sigchld>>

(* A signal to the process group of the server ends the parent and all     *)
(* children; files stay as they are.                                       *)
ServerKilled ==
  /\ serverUp
  /\ Fault
  /\ child' = [c \in Client |-> "killed"]
  /\ serverUp' = FALSE
  /\ UNCHANGED <<conn, lost, up, down, files, cwd, path, pos, parentVars>>

ServerStep == \/ \E c \in Client : ChildStep(c) \/ Accept(c)
              \/ SigChld \/ Wait \/ ServerKilled
=============================================================================
