------------------------------ MODULE FtpWire ------------------------------
(***************************************************************************)
(* What myftpd and myftpc (ex-5bq) share: the messages of send_msg() and a *)
(* TCP connection per client, one first-in first-out stream each way.      *)
(*                                                                         *)
(* One element of a stream is what one send_msg() writes, a header and its *)
(* data.  recv() of the header and then of the data takes one element, as  *)
(* long as TCP hands over in one piece what was sent in one; on a          *)
(* connection in Split it may also hand over a part of the data of a file  *)
(* or a listing, either way (not of a request, nor of a header).  Data     *)
(* that nobody has read are a stray element, which the next recv() takes   *)
(* for a header.  The buffers of a connection have no bound.               *)
(***************************************************************************)
EXTENDS Naturals, Sequences, FiniteSets

CONSTANTS Client,    \* the client processes, one connection each
          Dir,       \* directories
          Name,      \* names of files within a directory
          Here,      \* in an argument: the working directory
          Tilde,     \* the argument ~ of cd
          NoArg,     \* a message without a name
          Byte, Nul, \* what files consist of; Nul is the zero byte
          PieceSize, \* DATASIZE - 1
          Split,     \* clients whose network splits messages, both ways
          NoFile,    \* there is no such file
          NoPath,    \* no file is open
          MaxFaults  \* bound: failed reads and writes, ends by a signal

ASSUME WireAssumption == /\ Here \notin Dir /\ Tilde \notin Dir
                         /\ Nul \in Byte /\ Byte # {Nul}
                         /\ PieceSize \in Nat \ {0}
                         /\ Split \subseteq Client
                         /\ NoFile \notin Seq(Byte)
                         /\ NoPath \notin Dir \X Name
                         /\ MaxFaults \in Nat

VARIABLES serverUp, \* the server has not been killed
          conn,     \* the client's end: "none", "open" or "closed"
          up,       \* to the server
          down,     \* to the client
          faults,   \* failures so far, on either side
          lost      \* not in the code: a failure has left an answer, or a
                    \* part of one, that no command of the client waits for

wireVars == <<serverUp, conn, up, down, faults, lost>>

Path == Dir \X Name                  \* a file of one of the two machines
Arg  == (Dir \cup {Here}) \X Name    \* a file as the user writes it
Text == Seq(Byte)

(* The file an argument stands for in a process whose working directory    *)
(* is cwd, and what extract_filename() leaves of an argument.              *)
Resolve(cwd, arg) == <<IF arg[1] = Here THEN cwd ELSE arg[1], arg[2]>>
ExtractFilename(arg) == <<Here, arg[2]>>

(* The part of s before its first zero byte: strlen() in send_msg().       *)
CString(s) ==
  SubSeq(s, 1, Cardinality({k \in DOMAIN s : \A i \in 1 .. k : s[i] # Nul}))

(* read() of up to PieceSize bytes of s from position pos.                 *)
Piece(s, pos) ==
  SubSeq(s, pos + 1, IF pos + PieceSize < Len(s) THEN pos + PieceSize ELSE Len(s))

Message == [type : {"QUIT", "PWD", "CWD", "LIST", "RETR", "STOR", "CMD",
                    "FILEERR", "UNKWNERR", "DATA", "STRAY"},
            code : {0, 1, 2, 5},
            arg  : Arg \cup Dir \cup {Tilde, NoArg},
            data : Text]

Msg(type, code)   == [type |-> type, code |-> code, arg |-> NoArg, data |-> <<>>]
Named(type, arg)  == [Msg(type, 0) EXCEPT !.arg = arg]
Data(s)           == [Msg("DATA", 1) EXCEPT !.data = CString(s)]
DataEnd           == Msg("DATA", 0)
Done              == Msg("CMD", 0)
DataToClient      == Msg("CMD", 1)
DataToServer      == Msg("CMD", 2)
NotFound          == Msg("FILEERR", 0)
Denied            == Msg("FILEERR", 1)
Unknown           == Msg("UNKWNERR", 5)

(* recv() of nothing: the other end is closed and the buffer keeps the     *)
(* zeros of memset().                                                      *)
Eof == Msg("EOF", 0)

(* The data of m from the k-th byte on, left in the stream.                *)
Stray(m, k) == IF k > Len(m.data) THEN <<>>
               ELSE <<[Msg("STRAY", 0) EXCEPT !.data = SubSeq(m.data, k, Len(m.data))]>>

(* As many bytes as the header of m says, in a buffer of zeros into which  *)
(* recv() has put the first k of them.                                     *)
Buffer(m, k) == [i \in DOMAIN m.data |-> IF i <= k THEN m.data[i] ELSE Nul]

(* What recv() may take of the message at the front of s, header and data, *)
(* when the data are asked for once: all, or what there is of them.        *)
Parts(c, s) ==
  LET m == Head(s) IN
  {[msg |-> [m EXCEPT !.data = Buffer(m, k)], rest |-> Stray(m, k + 1) \o Tail(s)] :
     k \in IF c \in Split /\ m.data # <<>> THEN 1 .. Len(m.data) ELSE {Len(m.data)}}

(* What recv() at client c may take: a header alone, or with its data.     *)
HeaderOf(c) ==
  IF down[c] # <<>>
  THEN {[msg |-> Head(down[c]), rest |-> Stray(Head(down[c]), 1) \o Tail(down[c])]}
  ELSE IF serverUp THEN {} ELSE {[msg |-> Eof, rest |-> <<>>]}

MessageOf(c) ==
  IF down[c] # <<>> THEN Parts(c, down[c]) ELSE HeaderOf(c)

WireTypeOK == /\ serverUp \in BOOLEAN
              /\ conn \in [Client -> {"none", "open", "closed"}]
              /\ up \in [Client -> Seq(Message)]
              /\ down \in [Client -> Seq(Message)]
              /\ faults \in 0 .. MaxFaults
              /\ lost \in [Client -> BOOLEAN]

WireInit == /\ serverUp = TRUE
            /\ conn = [c \in Client |-> "none"]
            /\ up = [c \in Client |-> <<>>]
            /\ down = [c \in Client |-> <<>>]
            /\ faults = 0
            /\ lost = [c \in Client |-> FALSE]

Fault == faults < MaxFaults /\ faults' = faults + 1

(* When the server has ended, what it sent last may not arrive.            *)
LoseTail(c) ==
  /\ ~serverUp
  /\ down[c] # <<>>
  /\ down' = [down EXCEPT ![c] = SubSeq(@, 1, Len(@) - 1)]
  /\ UNCHANGED <<serverUp, conn, up, faults, lost>>
=============================================================================
