----------------------------- MODULE FtpProofs -----------------------------
(***************************************************************************)
(* The file transfer, for any number of clients, directories and files of  *)
(* any length, whatever fails: types, the parent's wait for its children,  *)
(* the files of the server as a store of files that only grow, the         *)
(* conversation of each client with its child, which never get out of step,*)
(* what a get copies and what a put stores.                                *)
(***************************************************************************)
EXTENDS MyFtp, TLAPS, FiniteSetTheorems, SequenceTheorems

-----------------------------------------------------------------------------
(* Data and messages. *)

LEMMA TextFacts == /\ NoFile \notin Text /\ <<>> \in Text /\ Line \in Text
                   /\ NoPath \notin Path
<1>1. PICK b \in Byte : b # Nul
  BY WireAssumption
<1>2. (CHOOSE x \in Byte : x # Nul) \in Byte
  BY <1>1
<1>3. Line \in Text
  BY <1>2 DEF Line, Text
<1> QED
  BY <1>3, WireAssumption DEF Text, Path

(* strlen() is no more than the length.                                    *)
LEMMA CStringTyped ==
  ASSUME NEW s \in Text
  PROVE  CString(s) \in Text
<1> DEFINE D == {k \in DOMAIN s : \A i \in 1 .. k : s[i] # Nul}
<1>1. Len(s) \in Nat /\ DOMAIN s = 1 .. Len(s) /\ \A i \in 1 .. Len(s) : s[i] \in Byte
  BY LenProperties DEF Text
<1>2. IsFiniteSet(1 .. Len(s)) /\ Cardinality(1 .. Len(s)) = Len(s)
  BY <1>1, FS_Interval
<1>3. D \subseteq 1 .. Len(s)
  BY <1>1
<1>4. Cardinality(D) \in Nat /\ Cardinality(D) <= Len(s)
  BY <1>2, <1>3, FS_Subset, FS_CardinalityType
<1> HIDE DEF D
<1>5. \A i \in 1 .. Cardinality(D) : s[i] \in Byte
  BY <1>1, <1>4
<1>6. SubSeq(s, 1, Cardinality(D)) \in Seq(Byte)
  BY <1>4, <1>5, SubSeqProperties
<1> QED
  BY <1>6 DEF CString, D, Text

(* read() returns nothing only at the end of the file.                     *)
LEMMA PieceFacts ==
  ASSUME NEW s \in Text, NEW at \in Nat, at <= Len(s)
  PROVE  /\ Piece(s, at) \in Text /\ Len(Piece(s, at)) \in Nat
         /\ at + Len(Piece(s, at)) <= Len(s)
         /\ Piece(s, at) = <<>> => at = Len(s)
<1> DEFINE n == IF at + PieceSize < Len(s) THEN at + PieceSize ELSE Len(s)
<1>1. Len(s) \in Nat /\ \A i \in 1 .. Len(s) : s[i] \in Byte
  BY LenProperties DEF Text
<1>2. PieceSize \in Nat \ {0}
  BY WireAssumption
<1>3. n \in Nat /\ at <= n /\ n <= Len(s) /\ (at # Len(s) => at < n)
  BY <1>1, <1>2
<1>4. Piece(s, at) = SubSeq(s, at + 1, n)
  BY DEF Piece
<1> HIDE DEF n
<1>5. \A i \in at + 1 .. n : s[i] \in Byte
  BY <1>1, <1>3
<1>6. /\ SubSeq(s, at + 1, n) \in Seq(Byte)
      /\ Len(SubSeq(s, at + 1, n)) = IF at + 1 <= n THEN n - (at + 1) + 1 ELSE 0
  BY <1>3, <1>5, SubSeqProperties
<1>7. Len(Piece(s, at)) = n - at
  BY <1>3, <1>4, <1>6
<1>8. Piece(s, at) = <<>> => at = Len(s)
  BY <1>1, <1>3, <1>7
<1> QED
  BY <1>3, <1>4, <1>6, <1>7, <1>8 DEF Text

(* The requests that name a file name one, and cd names a directory.       *)
ToServer == {m \in Message : /\ m.type \in {"RETR", "STOR"} => m.arg \in Arg
                             /\ m.type = "CWD" => m.arg \in Dir \cup {Tilde}}

LEMMA MsgTyped ==
  ASSUME NEW type \in {"QUIT", "PWD", "CWD", "LIST", "RETR", "STOR", "CMD",
                       "FILEERR", "UNKWNERR", "DATA", "STRAY"},
         NEW code \in {0, 1, 2, 5}
  PROVE  /\ Msg(type, code) \in Message
         /\ type \notin {"RETR", "STOR", "CWD"} => Msg(type, code) \in ToServer
BY TextFacts DEF Msg, Message, ToServer

LEMMA NamedTyped ==
  /\ \A d \in Dir \cup {Tilde} : Named("CWD", d) \in ToServer
  /\ \A d \in Dir \cup {NoArg} : Named("LIST", d) \in ToServer
  /\ \A a \in Arg : Named("RETR", a) \in ToServer /\ Named("STOR", a) \in ToServer
  /\ \A d \in Dir : [Named("CMD", d) EXCEPT !.data = Line] \in Message
BY TextFacts DEF Named, Msg, Message, ToServer

LEMMA DataTyped == \A s \in Text : Data(s) \in ToServer /\ Data(s) \in Message
BY CStringTyped, TextFacts DEF Data, Msg, Message, ToServer

LEMMA RepliesTyped ==
  /\ {DataEnd, Done, DataToClient, DataToServer, NotFound, Denied, Unknown} \subseteq Message
  /\ DataEnd \in ToServer
BY MsgTyped DEF DataEnd, Done, DataToClient, DataToServer, NotFound, Denied, Unknown

(* The first element of a stream and the others.                           *)
LEMMA FirstTaken ==
  ASSUME NEW S, NEW s \in Seq(S), s # <<>>
  PROVE  /\ Len(s) \in Nat /\ Len(s) >= 1
         /\ Head(s) = s[1] /\ s[1] \in S
         /\ Tail(s) \in Seq(S) /\ Len(Tail(s)) = Len(s) - 1
         /\ \A i \in 1 .. Len(s) - 1 : Tail(s)[i] = s[i + 1]
         /\ Len(s) = 1 => Tail(s) = <<>>
<1>1. Len(s) \in Nat /\ Len(s) >= 1
  BY EmptySeq
<1>2. /\ Tail(s) \in Seq(S) /\ Len(Tail(s)) = Len(s) - 1
      /\ \A i \in 1 .. Len(Tail(s)) : Tail(s)[i] = s[i + 1]
  BY HeadTailProperties
<1>3. Head(s) = s[1] /\ s[1] \in S
  BY <1>1, ElementOfSeq
<1>4. Len(s) = 1 => Tail(s) = <<>>
  <2>1. \A t \in Seq(S) : t # <<>> => Len(t) # 0
    BY EmptySeq
  <2>2. Len(s) = 1 => Len(Tail(s)) = 0
    BY <1>2
  <2> QED
    BY <1>2, <2>1, <2>2
<1> QED
  BY <1>1, <1>2, <1>3, <1>4

LEMMA StrayTyped ==
  ASSUME NEW m \in Message, NEW k \in Nat \ {0}
  PROVE  Stray(m, k) \in Seq(Message) /\ Stray(m, k) \in Seq(ToServer)
<1>1. m.data \in Text /\ Len(m.data) \in Nat
      /\ \A i \in 1 .. Len(m.data) : m.data[i] \in Byte
  BY LenProperties DEF Message, Text
<1>2. SubSeq(m.data, k, Len(m.data)) \in Text
  BY <1>1, SubSeqProperties DEF Text
<1>3. [Msg("STRAY", 0) EXCEPT !.data = SubSeq(m.data, k, Len(m.data))] \in ToServer
  BY <1>2 DEF Msg, Message, ToServer
<1>4. [Msg("STRAY", 0) EXCEPT !.data = SubSeq(m.data, k, Len(m.data))] \in Message
  BY <1>3 DEF ToServer
<1> QED
  BY <1>3, <1>4 DEF Stray

(* A buffer shows bytes, and all that was sent where all has come.         *)
LEMMA BufferFacts ==
  ASSUME NEW m, m.data \in Text, NEW k \in Nat
  PROVE  /\ Buffer(m, k) \in Text /\ Len(Buffer(m, k)) = Len(m.data)
         /\ k = Len(m.data) => Buffer(m, k) = m.data
<1>1. /\ Len(m.data) \in Nat /\ DOMAIN m.data = 1 .. Len(m.data)
      /\ \A i \in 1 .. Len(m.data) : m.data[i] \in Byte
      /\ m.data = [i \in 1 .. Len(m.data) |-> m.data[i]]
  BY LenProperties DEF Text
<1> DEFINE s == [i \in 1 .. Len(m.data) |-> IF i <= k THEN m.data[i] ELSE Nul]
<1>2. Buffer(m, k) = s
  BY <1>1 DEF Buffer
<1>3. s \in Seq(Byte)
  BY <1>1, WireAssumption, IsASeq
<1>4. Len(s) = Len(m.data)
  BY <1>1, <1>3, LenProperties
<1>5. k = Len(m.data) => s = m.data
  BY <1>1
<1> QED
  BY <1>2, <1>3, <1>4, <1>5 DEF Text

(* What recv() takes of a message, and what it leaves in the stream.       *)
LEMMA PartsTyped ==
  ASSUME NEW S \in {Message, ToServer}, NEW s \in Seq(S), s # <<>>,
         NEW c \in Client, NEW r \in Parts(c, s)
  PROVE  r.rest \in Seq(S) /\ r.msg.data \in Text
<1>m. PICK m : m = Head(s)
  OBVIOUS
<1>1. m \in Message /\ Tail(s) \in Seq(S)
  BY <1>m, FirstTaken DEF ToServer
<1>2. m.data \in Text /\ Len(m.data) \in Nat
  BY <1>1, LenProperties DEF Message, Text
<1> DEFINE K == IF c \in Split /\ m.data # <<>> THEN 1 .. Len(m.data) ELSE {Len(m.data)}
           Taken(k) == [msg  |-> [m EXCEPT !.data = Buffer(m, k)],
                        rest |-> Stray(m, k + 1) \o Tail(s)]
<1>3. Parts(c, s) = {Taken(k) : k \in K}
  BY <1>m DEF Parts
<1>4. K \subseteq 0 .. Len(m.data)
  BY <1>2
<1> HIDE DEF K, Taken
<1>5. PICK k \in 0 .. Len(m.data) : r = Taken(k)
  BY <1>3, <1>4
<1>6. Stray(m, k + 1) \in Seq(S)
  BY <1>1, StrayTyped
<1>7. Buffer(m, k) \in Text
  BY <1>2, BufferFacts
<1>8. r.msg.data = Buffer(m, k)
  BY <1>1, <1>5 DEF Message, Taken
<1>9. r.rest = Stray(m, k + 1) \o Tail(s)
  BY <1>5 DEF Taken
<1>10. Stray(m, k + 1) \o Tail(s) \in Seq(S)
  BY <1>1, <1>6, ConcatProperties
<1> QED
  BY <1>7, <1>8, <1>9, <1>10

(* That is all of it where the network splits no messages.                 *)
LEMMA PartsWhole ==
  ASSUME NEW s \in Seq(Message), s # <<>>, NEW c \in Client \ Split, NEW r \in Parts(c, s)
  PROVE  r.msg = Head(s) /\ r.rest = Tail(s)
<1>m. PICK m : m = Head(s)
  OBVIOUS
<1>1. m \in Message /\ Tail(s) \in Seq(Message)
  BY <1>m, FirstTaken
<1>2. m.data \in Text /\ Len(m.data) \in Nat
  BY <1>1, LenProperties DEF Message, Text
<1>3. r = [msg  |-> [m EXCEPT !.data = Buffer(m, Len(m.data))],
           rest |-> Stray(m, Len(m.data) + 1) \o Tail(s)]
  BY <1>m DEF Parts
<1>4. Buffer(m, Len(m.data)) = m.data
  BY <1>2, BufferFacts
<1>5. [m EXCEPT !.data = m.data] = m
  BY <1>1 DEF Message
<1>6. Stray(m, Len(m.data) + 1) = <<>>
  BY <1>2 DEF Stray
<1>7. <<>> \o Tail(s) = Tail(s)
  BY <1>1, ConcatEmptySeq
<1> QED
  BY <1>3, <1>4, <1>5, <1>6, <1>7, <1>m

(* Behind stray bytes.                                                     *)
LEMMA BeyondTyped ==
  ASSUME NEW s \in Seq(ToServer), s # <<>>, NEW t \in Beyond(s)
  PROVE  t \in Seq(ToServer)
<1>1. Tail(s) \in Seq(ToServer)
  BY FirstTaken
<1>2. CASE t \in {s, Tail(s)}
  BY <1>1, <1>2
<1>3. CASE t \notin {s, Tail(s)}
  <2>u. PICK u : u = Tail(s)
    OBVIOUS
  <2>1. u # <<>> /\ t = <<[Msg("STRAY", 0) EXCEPT !.data = Head(u).data]>> \o Tail(u)
    BY <1>3, <2>u DEF Beyond
  <2>2. Head(u) \in ToServer /\ Tail(u) \in Seq(ToServer)
    BY <1>1, <2>1, <2>u, FirstTaken
  <2>x. PICK x : x = [Msg("STRAY", 0) EXCEPT !.data = Head(u).data]
    OBVIOUS
  <2>3. x \in ToServer
    BY <2>2, <2>x DEF Msg, Message, ToServer
  <2>4. <<x>> \o Tail(u) \in Seq(ToServer)
    BY <2>2, <2>3, ConcatProperties
  <2> QED
    BY <2>1, <2>4, <2>x
<1> QED
  BY <1>2, <1>3

-----------------------------------------------------------------------------
(* The invariant: types, and what the steps of a transfer rely on. *)

WireOK == /\ serverUp \in BOOLEAN
          /\ conn \in [Client -> {"none", "open", "closed"}]
          /\ faults \in 0 .. MaxFaults
          /\ lost \in [Client -> BOOLEAN]
UpOK == up \in [Client -> Seq(ToServer)]
DownOK == down \in [Client -> Seq(Message)]

(* A file that is open, or was read last, exists, and is no shorter than   *)
(* what was read of it.                                                    *)
FileInv == \A c \in Client :
  /\ path[c] # NoPath => files[path[c]] \in Text /\ pos[c] <= Len(files[path[c]])
  /\ child[c] \in {"sget", "sput"} => path[c] # NoPath
  /\ child[c] \in {"none", "list", "listFile"} => path[c] = NoPath

ChildrenOK == /\ files \in [Path -> Text \cup {NoFile}]
              /\ child \in [Client -> {"none"} \cup Running \cup Ended]
              /\ cwd \in [Client -> Dir]
              /\ path \in [Client -> Path \cup {NoPath}]
              /\ pos \in [Client -> Nat]
              /\ FileInv
ParentOK == zombies \in Nat /\ sigchld \in BOOLEAN /\ inChld \in BOOLEAN

(* A client in the middle of a transfer has its local file, and put sends  *)
(* what was in it at the start.                                            *)
LocalInv == \A c \in Client :
  /\ doing[c] \in {"get", "getData", "put", "putData"}
     => lpath[c] \in Path /\ local[c][lpath[c]] \in Text
  /\ doing[c] \in {"put", "putData"}
     => putting[c] = local[c][lpath[c]] /\ lpos[c] <= Len(putting[c])
ClientOK == ClientTypeOK /\ LocalInv

FtpInv == WireOK /\ UpOK /\ DownOK /\ ChildrenOK /\ ParentOK /\ ClientOK

LEMMA InvTyped == FtpInv => TypeOK
<1> SUFFICES ASSUME FtpInv PROVE TypeOK
  OBVIOUS
<1>1. \A c \in Client : up[c] \in Seq(Message)
  <2> SUFFICES ASSUME NEW c \in Client PROVE up[c] \in Seq(Message)
    OBVIOUS
  <2>1. up[c] \in Seq(ToServer) /\ ToServer \subseteq Message
    BY DEF FtpInv, UpOK, ToServer
  <2> QED
    BY <2>1, SeqMonotonic
<1>2. up \in [Client -> Seq(Message)]
  BY <1>1 DEF FtpInv, UpOK
<1>3. WireTypeOK
  BY <1>2 DEF FtpInv, WireOK, DownOK, WireTypeOK
<1>4. ServerTypeOK
  BY DEF FtpInv, ChildrenOK, ParentOK, ServerTypeOK
<1> QED
  BY <1>3, <1>4 DEF FtpInv, ClientOK, TypeOK

LEMMA InitTyped == Init => FtpInv
<1> SUFFICES ASSUME Init PROVE FtpInv
  OBVIOUS
<1>1. Home \in Dir /\ LocalHome \in Dir /\ Quotas \subseteq [Client -> Nat]
      /\ MaxFaults \in Nat
  BY WireAssumption, ServerAssumption, ClientAssumption
<1>2. WireOK
  BY <1>1 DEF Init, WireInit, WireOK
<1>3. UpOK /\ DownOK
  BY DEF Init, WireInit, UpOK, DownOK
<1>4. ChildrenOK
  BY <1>1, FilesAssumption DEF Init, ServerInit, ChildrenOK, FileInv
<1>5. ParentOK
  BY DEF Init, ServerInit, ParentOK
<1>6. ClientOK
  BY <1>1, FilesAssumption, TextFacts DEF Init, ClientInit, ClientOK, ClientTypeOK, LocalInv
<1> QED
  BY <1>2, <1>3, <1>4, <1>5, <1>6 DEF FtpInv

LEMMA Kept ==
  /\ WireOK /\ UNCHANGED <<serverUp, conn, faults, lost>> => WireOK'
  /\ UpOK /\ UNCHANGED up => UpOK'
  /\ DownOK /\ UNCHANGED down => DownOK'
  /\ ChildrenOK /\ UNCHANGED <<files, child, cwd, path, pos>> => ChildrenOK'
  /\ ParentOK /\ UNCHANGED parentVars => ParentOK'
  /\ ClientOK /\ UNCHANGED clientVars => ClientOK'
BY DEF WireOK, UpOK, DownOK, ChildrenOK, FileInv, ParentOK, parentVars,
       ClientOK, ClientTypeOK, LocalInv, clientVars

LEMMA FaultTyped == faults \in 0 .. MaxFaults /\ Fault => faults' \in 0 .. MaxFaults
BY WireAssumption DEF Fault

(* Streams.                                                                *)
LEMMA TakeTyped ==
  ASSUME UpOK, NEW c \in Client, NEW type, Take(c, type)
  PROVE  UpOK' /\ Head(up[c]) \in ToServer /\ Head(up[c]).type = type
BY DEF UpOK, Take

LEMMA SendTyped ==
  ASSUME DownOK, NEW c \in Client, NEW msgs \in Seq(Message), Send(c, msgs)
  PROVE  DownOK'
BY DEF DownOK, Send

LEMMA EmitTyped ==
  ASSUME UpOK, NEW c \in Client, NEW m \in ToServer, Emit(c, m)
  PROVE  UpOK'
BY DEF UpOK, Emit

LEMMA ReceivedTyped ==
  ASSUME DownOK, NEW c \in Client, NEW r \in HeaderOf(c) \cup MessageOf(c)
  PROVE  r.rest \in Seq(Message) /\ r.msg.data \in Text
<1>1. CASE down[c] = <<>>
  <2>1. r = [msg |-> Eof, rest |-> <<>>]
    BY <1>1 DEF HeaderOf, MessageOf
  <2>2. r.rest \in Seq(Message)
    BY <2>1
  <2>3. r.msg.data = <<>>
    BY <2>1 DEF Eof, Msg
  <2> QED
    BY <2>2, <2>3, TextFacts
<1>2. CASE down[c] # <<>>
  <2>m. PICK m : m = Head(down[c])
    OBVIOUS
  <2>0. m \in Message /\ Tail(down[c]) \in Seq(Message)
    BY <1>2, <2>m, FirstTaken DEF DownOK
  <2>1. m \in Message /\ m.data \in Text /\ Tail(down[c]) \in Seq(Message)
    BY <2>0 DEF Message
  <2>2. CASE r \in HeaderOf(c)
    <3>1. r = [msg |-> m, rest |-> Stray(m, 1) \o Tail(down[c])]
      BY <1>2, <2>2, <2>m DEF HeaderOf
    <3>2. Stray(m, 1) \in Seq(Message)
      BY <2>1, StrayTyped
    <3> QED
      BY <2>1, <3>1, <3>2, ConcatProperties
  <2>3. CASE r \in MessageOf(c)
    <3>1. r \in Parts(c, down[c]) /\ down[c] \in Seq(Message)
      BY <1>2, <2>3 DEF MessageOf, DownOK
    <3> QED
      BY <1>2, <3>1, PartsTyped
  <2> QED
    BY <2>2, <2>3
<1> QED
  BY <1>1, <1>2

-----------------------------------------------------------------------------
(* Steps of a child. *)

LEMMA EndTyped ==
  ASSUME ParentOK, NEW c \in Client, NEW how \in Ended, End(c, how)
  PROVE  ParentOK' /\ child' = [child EXCEPT ![c] = how]
BY DEF ParentOK, End, Goto

(* Requests whose answer is one message.                                   *)
LEMMA PwdTyped ==
  ASSUME FtpInv, NEW c \in Client, Pwd(c)
  PROVE  WireOK' /\ UpOK' /\ DownOK' /\ ChildrenOK' /\ ParentOK'
<1> DEFINE m == [Named("CMD", cwd[c]) EXCEPT !.data = Line]
<1> USE DEF FtpInv
<1>1. m \in Message /\ <<m>> \in Seq(Message)
  BY NamedTyped DEF ChildrenOK
<1>2. Send(c, <<m>>) /\ UNCHANGED <<serverUp, conn, lost, child, faults, parentVars>>
  BY DEF Pwd, Answer
<1> HIDE DEF m
<1>3. DownOK'
  BY <1>1, <1>2, SendTyped
<1>4. UpOK'
  BY TakeTyped DEF Pwd, Request
<1>5. WireOK' /\ ParentOK'
  BY <1>2, Kept
<1>6. ChildrenOK'
  BY <1>2, Kept DEF Pwd
<1> QED
  BY <1>3, <1>4, <1>5, <1>6

LEMMA CwdTyped ==
  ASSUME FtpInv, NEW c \in Client, Cwd(c)
  PROVE  WireOK' /\ UpOK' /\ DownOK' /\ ChildrenOK' /\ ParentOK'
<1> USE DEF FtpInv
<1>1. Take(c, "CWD") /\ UNCHANGED <<files, path, pos>>
  BY DEF Cwd, Request
<1>2. UpOK' /\ Head(up[c]) \in ToServer /\ Head(up[c]).type = "CWD"
  BY <1>1, TakeTyped
<1>3. Head(up[c]).arg \in Dir \cup {Tilde}
  BY <1>2 DEF ToServer
<1>4. PICK e \in ChdirErrors \cup {<<Done>>} : Answer(c, e)
  BY DEF Cwd, ChdirErrors
<1>5. e \in Seq(Message)
  <2>1. Denied \in Message /\ NotFound \in Message /\ Done \in Message
    BY RepliesTyped
  <2>2. e \in {<<Denied>>, <<NotFound>>, <<>>, <<Done>>}
    BY <1>4 DEF ChdirErrors
  <2>3. /\ <<>> \in Seq(Message) /\ <<Denied>> \in Seq(Message)
        /\ <<NotFound>> \in Seq(Message) /\ <<Done>> \in Seq(Message)
    BY <2>1
  <2> QED
    BY <2>2, <2>3, Zenon
<1>6. DownOK' /\ UNCHANGED <<serverUp, conn, lost, child, faults, parentVars>>
  BY <1>4, <1>5, SendTyped DEF Answer
<1>7. WireOK' /\ ParentOK'
  BY <1>6, Kept
<1>8. cwd' \in [Client -> Dir]
  <2>1. HomeOr(Head(up[c]).arg) \in Dir
    BY <1>3, ServerAssumption DEF HomeOr
  <2>2. cwd' = cwd \/ cwd' = [cwd EXCEPT ![c] = HomeOr(Head(up[c]).arg)]
    BY DEF Cwd
  <2> QED
    BY <2>1, <2>2 DEF ChildrenOK
<1>9. ChildrenOK'
  BY <1>1, <1>6, <1>8 DEF ChildrenOK, FileInv
<1> QED
  BY <1>2, <1>6, <1>7, <1>9

LEMMA QuitTyped ==
  ASSUME FtpInv, NEW c \in Client, Quit(c)
  PROVE  WireOK' /\ UpOK' /\ DownOK' /\ ChildrenOK' /\ ParentOK'
<1> USE DEF FtpInv
<1>1. UpOK'
  BY TakeTyped DEF Quit, Request
<1>2. DownOK'
  <2>1. <<Done>> \in Seq(Message)
    BY RepliesTyped
  <2> QED
    BY <2>1, SendTyped DEF Quit
<1>3. WireOK'
  BY Kept DEF Quit
<1>4. ParentOK' /\ child' = [child EXCEPT ![c] = "exited"]
  BY EndTyped DEF Quit, Ended
<1>5. ChildrenOK'
  BY <1>4 DEF Quit, ChildrenOK, FileInv, Running, Ended
<1> QED
  BY <1>1, <1>2, <1>3, <1>4, <1>5

LEMMA ListTyped ==
  ASSUME FtpInv, NEW c \in Client, List(c)
  PROVE  WireOK' /\ UpOK' /\ DownOK' /\ ChildrenOK' /\ ParentOK'
<1> USE DEF FtpInv
<1>1. UpOK'
  BY TakeTyped DEF List, Request
<1>2. DownOK'
  <2>1. \A e \in ListErrors \cup {DataToClient} : e \in Message
    BY RepliesTyped DEF ListErrors
  <2>2. \A e \in ListErrors \cup {DataToClient} : <<e>> \in Seq(Message)
    BY <2>1
  <2>3. <<NotFound, NotFound>> \in Seq(Message)
    BY RepliesTyped
  <2>4. \/ \E e \in ListErrors \cup {DataToClient} : Send(c, <<e>>)
        \/ Send(c, <<NotFound, NotFound>>)
    BY DEF List, Answer
  <2> QED
    BY <2>2, <2>3, <2>4, SendTyped
<1>3. WireOK'
  BY FaultTyped DEF List, Answer, WireOK
<1>4. ParentOK'
  BY Kept DEF List, Answer
<1>5. ChildrenOK'
  <2>1. \/ child' = child
        \/ child' = [child EXCEPT ![c] = "list"]
        \/ child' = [child EXCEPT ![c] = "listFile"]
    BY DEF List, Answer, Goto
  <2>2. /\ pos' = [pos EXCEPT ![c] = 0] /\ path' = [path EXCEPT ![c] = NoPath]
        /\ UNCHANGED <<files, cwd>> /\ child[c] = "loop"
    BY DEF List, Request
  <2>3. child' \in [Client -> {"none"} \cup Running \cup Ended]
    BY <2>1 DEF ChildrenOK, Running
  <2>4. path' \in [Client -> Path \cup {NoPath}] /\ pos' \in [Client -> Nat]
    BY <2>2 DEF ChildrenOK
  <2>5. FileInv'
    BY <2>1, <2>2 DEF ChildrenOK, FileInv
  <2> QED
    BY <2>2, <2>3, <2>4, <2>5 DEF ChildrenOK
<1> QED
  BY <1>1, <1>2, <1>3, <1>4, <1>5

LEMMA ListEntryTyped ==
  ASSUME FtpInv, NEW c \in Client, ListEntry(c)
  PROVE  WireOK' /\ UpOK' /\ DownOK' /\ ChildrenOK' /\ ParentOK'
<1> USE DEF FtpInv
<1>1. WireOK' /\ UpOK' /\ ParentOK'
  BY Kept DEF ListEntry
<1>2. DownOK'
  <2>1. <<Data(Line)>> \in Seq(Message) /\ <<DataEnd>> \in Seq(Message)
    BY DataTyped, TextFacts, RepliesTyped
  <2> QED
    BY <2>1, SendTyped DEF ListEntry
<1>3. ChildrenOK'
  <2>1. \/ child' = child /\ pos' = [pos EXCEPT ![c] = @ + 1]
        \/ child' = [child EXCEPT ![c] = "loop"] /\ pos' = pos
    BY DEF ListEntry, Goto
  <2>2. child[c] \in {"list", "listFile"} /\ UNCHANGED <<files, cwd, path>>
    BY DEF ListEntry
  <2>3. pos' \in [Client -> Nat]
    BY <2>1 DEF ChildrenOK
  <2>4. child' \in [Client -> {"none"} \cup Running \cup Ended]
    BY <2>1 DEF ChildrenOK, Running
  <2>5. path[c] = NoPath
    BY <2>2 DEF ChildrenOK, FileInv
  <2>6. FileInv'
    BY <2>1, <2>2, <2>5 DEF ChildrenOK, FileInv
  <2> QED
    BY <2>2, <2>3, <2>4, <2>6 DEF ChildrenOK
<1> QED
  BY <1>1, <1>2, <1>3

LEMMA ListCrashTyped ==
  ASSUME FtpInv, NEW c \in Client, ListCrash(c)
  PROVE  WireOK' /\ UpOK' /\ DownOK' /\ ChildrenOK' /\ ParentOK'
<1> USE DEF FtpInv
<1>1. WireOK' /\ UpOK' /\ DownOK'
  BY Kept DEF ListCrash, wireVars
<1>2. ParentOK' /\ child' = [child EXCEPT ![c] = "crashed"]
  BY EndTyped DEF ListCrash, Ended
<1>3. ChildrenOK'
  BY <1>2 DEF ListCrash, ChildrenOK, FileInv, Ended
<1> QED
  BY <1>1, <1>2, <1>3

(* A file for get or put.                                                  *)
LEMMA OpenFileTyped ==
  ASSUME FtpInv, NEW c \in Client, NEW type \in {"RETR", "STOR"}, Request(c, type)
  PROVE  OpenFile(c) \in Path
<1>1. Head(up[c]).arg \in Arg
  BY TakeTyped DEF FtpInv, Request, ToServer
<1>2. cwd[c] \in Dir
  BY DEF FtpInv, ChildrenOK
<1> QED
  BY <1>1, <1>2 DEF OpenFile, Resolve, Arg, Path

LEMMA RetrTyped ==
  ASSUME FtpInv, NEW c \in Client, Retr(c)
  PROVE  WireOK' /\ UpOK' /\ DownOK' /\ ChildrenOK' /\ ParentOK'
<1> USE DEF FtpInv
<1> DEFINE p == OpenFile(c)
           piece == Piece(files[p], 0)
<1>1. Request(c, "RETR") /\ UNCHANGED <<files, cwd>>
  BY DEF Retr
<1>2. UpOK' /\ p \in Path
  BY <1>1, TakeTyped, OpenFileTyped DEF Request
<1>3. WireOK' /\ ParentOK'
  BY Kept DEF Retr, Answer
<1>4. CASE /\ files[p] # NoFile
           /\ Send(c, <<DataToClient, Data(piece)>>)
           /\ pos' = [pos EXCEPT ![c] = AfterFirst(piece)]
           /\ path' = [path EXCEPT ![c] = p]
           /\ Goto(c, "sget")
  <2>1. files[p] \in Text /\ Len(files[p]) \in Nat
    BY <1>2, <1>4, LenProperties DEF ChildrenOK, Text
  <2>2. piece \in Text /\ Len(piece) \in Nat /\ Len(piece) <= Len(files[p])
    <3>1. /\ piece \in Text /\ Len(piece) \in Nat
          /\ 0 + Len(piece) <= Len(files[p])
      <4> HIDE DEF p
      <4>1. 0 \in Nat /\ 0 <= Len(files[p])
        BY <2>1
      <4> QED
        BY <2>1, <4>1, PieceFacts
    <3> QED
      BY <2>1, <3>1
  <2> HIDE DEF piece, p
  <2>3. DataToClient \in Message /\ Data(piece) \in Message
    BY <2>2, DataTyped, RepliesTyped
  <2>4. <<DataToClient, Data(piece)>> \in Seq(Message)
    BY <2>3
  <2>5. DownOK'
    BY <1>4, <2>4, SendTyped
  <2>6. pos' = [pos EXCEPT ![c] = Len(piece)] /\ child' = [child EXCEPT ![c] = "sget"]
    BY <1>4 DEF AfterFirst, Goto
  <2>7. p # NoPath
    BY <1>2, TextFacts
  <2>8. FileInv'
    BY <1>1, <1>2, <1>4, <2>1, <2>2, <2>6, <2>7 DEF ChildrenOK, FileInv
  <2>9. child' \in [Client -> {"none"} \cup Running \cup Ended]
    BY <2>6 DEF ChildrenOK, Running
  <2>10. ChildrenOK'
    BY <1>1, <1>2, <1>4, <2>2, <2>6, <2>8, <2>9 DEF ChildrenOK
  <2> QED
    BY <1>2, <1>3, <2>5, <2>10
<1>5. CASE /\ \E e \in {NotFound, Denied, Unknown} : Answer(c, <<e>>)
           /\ NoneOpen(c)
           /\ UNCHANGED pos
  <2>1. PICK e \in {NotFound, Denied, Unknown} : Answer(c, <<e>>)
    BY <1>5
  <2>2. e \in Message
    BY RepliesTyped
  <2>3. <<e>> \in Seq(Message)
    BY <2>2
  <2>4. DownOK' /\ child' = child
    BY <2>1, <2>3, SendTyped DEF Answer
  <2>5. child[c] = "loop" /\ path' = [path EXCEPT ![c] = NoPath]
    BY <1>1, <1>5 DEF Request, NoneOpen
  <2>6. ChildrenOK'
    BY <1>1, <1>5, <2>4, <2>5 DEF ChildrenOK, FileInv
  <2> QED
    BY <1>2, <1>3, <2>4, <2>6
<1> QED
  BY <1>4, <1>5 DEF Retr, Refusal

LEMMA RetrMoreTyped ==
  ASSUME FtpInv, NEW c \in Client, RetrMore(c)
  PROVE  WireOK' /\ UpOK' /\ DownOK' /\ ChildrenOK' /\ ParentOK'
<1> USE DEF FtpInv
<1> DEFINE piece == NextPiece(c)
<1>1. WireOK' /\ UpOK' /\ ParentOK'
  BY Kept DEF RetrMore
<1>2. /\ path[c] \in Path /\ files[path[c]] \in Text
      /\ pos[c] \in Nat /\ pos[c] <= Len(files[path[c]])
  BY DEF RetrMore, ChildrenOK, FileInv
<1>3. /\ piece \in Text /\ Len(piece) \in Nat
      /\ pos[c] + Len(piece) <= Len(files[path[c]])
  BY <1>2, PieceFacts DEF NextPiece
<1>4. /\ Send(c, <<Data(piece)>>)
      /\ pos' = [pos EXCEPT ![c] = @ + Len(piece)]
      /\ UNCHANGED <<files, child, cwd, path>>
  BY DEF RetrMore
<1> HIDE DEF piece
<1>5. <<Data(piece)>> \in Seq(Message)
  <2>1. Data(piece) \in Message
    BY <1>3, DataTyped
  <2> QED
    BY <2>1
<1>6. DownOK'
  BY <1>4, <1>5, SendTyped
<1>7. ChildrenOK'
  <2>1. pos' \in [Client -> Nat]
    BY <1>2, <1>3, <1>4 DEF ChildrenOK
  <2>2. FileInv'
    BY <1>2, <1>3, <1>4 DEF ChildrenOK, FileInv
  <2> QED
    BY <1>4, <2>1, <2>2 DEF ChildrenOK
<1> QED
  BY <1>1, <1>6, <1>7

LEMMA RetrLastTyped ==
  ASSUME FtpInv, NEW c \in Client, RetrEnd(c) \/ RetrFails(c)
  PROVE  WireOK' /\ UpOK' /\ DownOK' /\ ChildrenOK' /\ ParentOK'
<1> USE DEF FtpInv
<1>1. UpOK' /\ ParentOK'
  BY Kept DEF RetrEnd, RetrFails
<1>2. WireOK'
  BY FaultTyped DEF RetrEnd, RetrFails, WireOK
<1>3. DownOK'
  <2>1. <<DataEnd>> \in Seq(Message)
    BY RepliesTyped
  <2> QED
    BY <2>1, SendTyped DEF RetrEnd, RetrFails
<1>4. /\ child' = [child EXCEPT ![c] = "loop"]
      /\ path' = path \/ path' = [path EXCEPT ![c] = NoPath]
      /\ UNCHANGED <<files, cwd, pos>>
  BY DEF RetrEnd, RetrFails, Goto, NoneOpen
<1>5. ChildrenOK'
  BY <1>4 DEF ChildrenOK, FileInv, Running
<1> QED
  BY <1>1, <1>2, <1>3, <1>5

LEMMA StorTyped ==
  ASSUME FtpInv, NEW c \in Client, Stor(c)
  PROVE  WireOK' /\ UpOK' /\ DownOK' /\ ChildrenOK' /\ ParentOK'
<1> USE DEF FtpInv
<1> DEFINE p == OpenFile(c)
<1>1. Request(c, "STOR") /\ UNCHANGED cwd
  BY DEF Stor
<1>2. UpOK' /\ p \in Path
  BY <1>1, TakeTyped, OpenFileTyped DEF Request
<1>3. WireOK' /\ ParentOK'
  BY Kept DEF Stor, Answer
<1>4. CASE /\ files' = [files EXCEPT ![p] = Opened(@)]
           /\ path' = [path EXCEPT ![c] = p]
           /\ pos' = [pos EXCEPT ![c] = Len(files'[p])]
           /\ Send(c, <<DataToServer>>)
           /\ Goto(c, "sput")
  <2> HIDE DEF p
  <2>1. Opened(files[p]) \in Text /\ (files[p] # NoFile => Opened(files[p]) = files[p])
    BY <1>2, TextFacts DEF Opened, ChildrenOK
  <2>2. files'[p] = Opened(files[p]) /\ Len(files'[p]) \in Nat
    BY <1>2, <1>4, <2>1, LenProperties DEF ChildrenOK, Text
  <2>3. DownOK'
    <3>1. <<DataToServer>> \in Seq(Message)
      BY RepliesTyped
    <3> QED
      BY <1>4, <3>1, SendTyped
  <2>4. child' = [child EXCEPT ![c] = "sput"]
    BY <1>4 DEF Goto
  <2>5. child' \in [Client -> {"none"} \cup Running \cup Ended]
    BY <2>4 DEF ChildrenOK, Running
  <2>6. files' \in [Path -> Text \cup {NoFile}]
    BY <1>2, <1>4, <2>1 DEF ChildrenOK
  <2>7. \A q \in Path : files[q] \in Text => files'[q] = files[q]
    BY <1>2, <1>4, <2>1, TextFacts, WireAssumption DEF ChildrenOK, Text
  <2>8. FileInv'
    <3> SUFFICES ASSUME NEW d \in Client
                 PROVE  /\ path'[d] # NoPath => /\ files'[path'[d]] \in Text
                                                /\ pos'[d] <= Len(files'[path'[d]])
                        /\ child'[d] \in {"sget", "sput"} => path'[d] # NoPath
                        /\ child'[d] \in {"none", "list", "listFile"} => path'[d] = NoPath
      BY DEF FileInv
    <3>1. CASE d = c
      BY <3>1, <1>2, <1>4, <2>1, <2>2, <2>4, TextFacts DEF ChildrenOK
    <3>2. CASE d # c
      BY <3>2, <1>4, <2>4, <2>7 DEF ChildrenOK, FileInv
    <3> QED
      BY <3>1, <3>2
  <2>9. ChildrenOK'
    BY <1>1, <1>2, <1>4, <2>2, <2>5, <2>6, <2>8 DEF ChildrenOK
  <2> QED
    BY <1>2, <1>3, <2>3, <2>9
<1>5. CASE /\ \E e \in {Denied, Unknown} : Answer(c, <<e>>)
           /\ NoneOpen(c)
           /\ UNCHANGED <<files, pos>>
  <2>1. PICK e \in {Denied, Unknown} : Answer(c, <<e>>)
    BY <1>5
  <2>2. e \in Message
    BY RepliesTyped
  <2>3. <<e>> \in Seq(Message)
    BY <2>2
  <2>4. DownOK' /\ child' = child
    BY <2>1, <2>3, SendTyped DEF Answer
  <2>5. child[c] = "loop" /\ path' = [path EXCEPT ![c] = NoPath]
    BY <1>1, <1>5 DEF Request, NoneOpen
  <2>6. ChildrenOK'
    BY <1>1, <1>5, <2>4, <2>5 DEF ChildrenOK, FileInv
  <2> QED
    BY <1>2, <1>3, <2>4, <2>6
<1> QED
  BY <1>4, <1>5 DEF Stor

LEMMA StorDataTyped ==
  ASSUME FtpInv, NEW c \in Client, StorData(c)
  PROVE  WireOK' /\ UpOK' /\ DownOK' /\ ChildrenOK' /\ ParentOK'
<1> USE DEF FtpInv
<1> DEFINE p == path[c]
<1>0. PICK r \in Parts(c, up[c]) : /\ up' = [up EXCEPT ![c] = r.rest]
                                   /\ files' = [files EXCEPT ![path[c]] = @ \o r.msg.data]
  BY DEF StorData
<1> DEFINE d == r.msg.data
<1>1. /\ child[c] = "sput" /\ up[c] # <<>>
      /\ files' = [files EXCEPT ![p] = @ \o d]
      /\ UNCHANGED <<cwd, pos>>
      /\ \/ UNCHANGED <<child, path>>
         \/ child' = [child EXCEPT ![c] = "loop"] /\ path' = [path EXCEPT ![c] = NoPath]
  BY <1>0 DEF StorData, DataHeard, Goto, NoneOpen
<1>2. UpOK' /\ d \in Text
  <2>1. up[c] \in Seq(ToServer)
    BY DEF UpOK
  <2>2. r.rest \in Seq(ToServer) /\ r.msg.data \in Text
    BY <1>0, <1>1, <2>1, PartsTyped
  <2> QED
    BY <1>0, <2>2 DEF UpOK
<1>3. WireOK' /\ DownOK' /\ ParentOK'
  BY Kept DEF StorData
<1>4. p \in Path /\ files[p] \in Text
  BY <1>1 DEF ChildrenOK, FileInv
<1> HIDE DEF p, d
<1>5. /\ files[p] \o d \in Text /\ Len(files[p]) \in Nat
      /\ Len(files[p] \o d) \in Nat /\ Len(files[p]) <= Len(files[p] \o d)
  <2>1. files[p] \in Seq(Byte) /\ d \in Seq(Byte)
    BY <1>2, <1>4 DEF Text
  <2>2. /\ files[p] \o d \in Seq(Byte) /\ Len(files[p]) \in Nat /\ Len(d) \in Nat
        /\ Len(files[p] \o d) = Len(files[p]) + Len(d)
    BY <2>1, ConcatProperties, LenProperties
  <2> QED
    BY <2>2 DEF Text
<1>6. /\ files' \in [Path -> Text \cup {NoFile}]
      /\ \A q \in Path : files[q] \in Text
         => files'[q] \in Text /\ \A n \in Nat : n <= Len(files[q]) => n <= Len(files'[q])
  <2>1. files \in [Path -> Text \cup {NoFile}]
    BY DEF ChildrenOK
  <2>2. files' \in [Path -> Text \cup {NoFile}]
    BY <1>1, <1>5, <2>1
  <2>3. ASSUME NEW q \in Path, files[q] \in Text
        PROVE  files'[q] \in Text /\ \A n \in Nat : n <= Len(files[q]) => n <= Len(files'[q])
    <3>1. CASE q = p
      <4>1. files'[q] = files[p] \o d
        BY <1>1, <1>4, <2>1, <3>1
      <4> QED
        BY <1>5, <3>1, <4>1
    <3>2. CASE q # p
      BY <1>1, <2>1, <2>3, <3>2
    <3> QED
      BY <3>1, <3>2
  <2> QED
    BY <2>2, <2>3
<1>7. ChildrenOK'
  <2>1. /\ child' \in [Client -> {"none"} \cup Running \cup Ended]
        /\ path' \in [Client -> Path \cup {NoPath}]
    BY <1>1 DEF ChildrenOK, Running
  <2>2. FileInv'
    BY <1>1, <1>6 DEF ChildrenOK, FileInv
  <2> QED
    BY <1>1, <1>6, <2>1, <2>2 DEF ChildrenOK
<1> QED
  BY <1>2, <1>3, <1>7

(* Whatever has come, the file grows; all of a message where the network   *)
(* splits none.                                                            *)
LEMMA StorDataGrown ==
  ASSUME FtpInv, NEW c \in Client, StorData(c)
  PROVE  /\ path[c] \in Path /\ files[path[c]] \in Text
         /\ \E d \in Text : files' = [files EXCEPT ![path[c]] = @ \o d]
<1>1. PICK r \in Parts(c, up[c]) : files' = [files EXCEPT ![path[c]] = @ \o r.msg.data]
  BY DEF StorData
<1>2. up[c] \in Seq(ToServer) /\ up[c] # <<>> /\ child[c] = "sput"
  BY DEF FtpInv, UpOK, StorData, DataHeard
<1>3. r.msg.data \in Text
  BY <1>2, PartsTyped
<1>4. path[c] \in Path /\ files[path[c]] \in Text
  BY <1>2 DEF FtpInv, ChildrenOK, FileInv
<1> QED
  BY <1>1, <1>3, <1>4

LEMMA DataWhole ==
  ASSUME FtpInv, NEW c \in Client \ Split, StorData(c) \/ StorFails(c)
  PROVE  /\ child[c] = "sput" /\ up[c] # <<>> /\ up' = [up EXCEPT ![c] = Tail(@)]
         /\ Head(up[c]).type \in {"DATA", "STRAY"}
         /\ StorData(c) => files' = [files EXCEPT ![path[c]] = @ \o Head(up[c]).data]
<1>1. /\ child[c] = "sput" /\ up[c] # <<>> /\ Head(up[c]).type \in {"DATA", "STRAY"}
  BY DEF StorData, StorFails, DataHeard
<1>2. up[c] \in Seq(Message)
  <2>1. up[c] \in Seq(ToServer) /\ ToServer \subseteq Message
    BY DEF FtpInv, UpOK, ToServer
  <2> QED
    BY <2>1, SeqMonotonic
<1>3. \A r \in Parts(c, up[c]) : r.msg = Head(up[c]) /\ r.rest = Tail(up[c])
  BY <1>1, <1>2, PartsWhole
<1>4. up' = [up EXCEPT ![c] = Tail(@)]
  BY <1>3 DEF StorData, StorFails, FtpInv, UpOK
<1>5. StorData(c) => files' = [files EXCEPT ![path[c]] = @ \o Head(up[c]).data]
  BY <1>3 DEF StorData
<1> QED
  BY <1>1, <1>4, <1>5

LEMMA StorBrokenTyped ==
  ASSUME FtpInv, NEW c \in Client, StorFails(c) \/ StorEof(c)
  PROVE  WireOK' /\ UpOK' /\ DownOK' /\ ChildrenOK' /\ ParentOK'
<1> USE DEF FtpInv
<1>1. UpOK'
  <2>1. CASE StorFails(c)
    <3>1. PICK r \in Parts(c, up[c]) : up[c] # <<>> /\ up' = [up EXCEPT ![c] = r.rest]
      BY <2>1 DEF StorFails, DataHeard
    <3>2. up[c] \in Seq(ToServer)
      BY DEF UpOK
    <3>3. r.rest \in Seq(ToServer)
      BY <3>1, <3>2, PartsTyped
    <3> QED
      BY <3>1, <3>3 DEF UpOK
  <2>2. CASE StorEof(c)
    BY <2>2, Kept DEF StorEof, wireVars
  <2> QED
    BY <2>1, <2>2
<1>2. DownOK' /\ ParentOK'
  BY Kept DEF StorFails, StorEof, wireVars
<1>3. WireOK'
  BY FaultTyped DEF StorFails, StorEof, WireOK, wireVars
<1>4. /\ child' = [child EXCEPT ![c] = "loop"] /\ path' = [path EXCEPT ![c] = NoPath]
      /\ UNCHANGED <<files, cwd, pos>>
  BY DEF StorFails, StorEof, Goto, NoneOpen
<1>5. ChildrenOK'
  BY <1>4 DEF ChildrenOK, FileInv, Running
<1> QED
  BY <1>1, <1>2, <1>3, <1>5

LEMMA StorIllegalTyped ==
  ASSUME FtpInv, NEW c \in Client, StorIllegal(c)
  PROVE  WireOK' /\ UpOK' /\ DownOK' /\ ChildrenOK' /\ ParentOK'
<1> USE DEF FtpInv
<1>1. /\ up[c] # <<>> /\ \E rest \in HeaderTaken(up[c]) : up' = [up EXCEPT ![c] = rest]
      /\ child' = [child EXCEPT ![c] = "loop"] /\ path' = [path EXCEPT ![c] = NoPath]
      /\ UNCHANGED <<files, cwd, pos>>
  BY DEF StorIllegal, Goto, NoneOpen
<1>2. WireOK' /\ DownOK' /\ ParentOK'
  BY Kept DEF StorIllegal
<1>3. UpOK'
  <2>t. PICK t \in HeaderTaken(up[c]) : up' = [up EXCEPT ![c] = t]
    BY <1>1
  <2>1. up[c] \in Seq(ToServer) /\ Tail(up[c]) \in Seq(ToServer)
    BY <1>1, FirstTaken DEF UpOK
  <2>2. NameLeft(Head(up[c])) \in Seq(ToServer)
    <3>1. Msg("STRAY", 0) \in ToServer
      BY MsgTyped
    <3>2. <<Msg("STRAY", 0)>> \in Seq(ToServer)
      BY <3>1
    <3> QED
      BY <3>2 DEF NameLeft
  <2> DEFINE strays == NameLeft(Head(up[c]))
               rest == Tail(up[c])
  <2> HIDE DEF strays, rest
  <2>3. strays \o rest \in Seq(ToServer)
    BY <2>1, <2>2, ConcatProperties DEF strays, rest
  <2>4. t \in Seq(ToServer)
    <3>1. CASE Head(up[c]).type = "STRAY"
      BY <1>1, <2>1, <3>1, BeyondTyped DEF HeaderTaken
    <3>2. CASE Head(up[c]).type # "STRAY"
      BY <2>3, <3>2 DEF HeaderTaken, strays, rest
    <3> QED
      BY <3>1, <3>2
  <2> QED
    BY <2>4, <2>t DEF UpOK
<1>4. ChildrenOK'
  BY <1>1 DEF ChildrenOK, FileInv, Running
<1> QED
  BY <1>2, <1>3, <1>4

LEMMA ReadOverTyped ==
  ASSUME FtpInv, NEW c \in Client, ReadOver(c)
  PROVE  WireOK' /\ UpOK' /\ DownOK' /\ ChildrenOK' /\ ParentOK'
<1>1. PICK t \in Beyond(up[c]) : up[c] # <<>> /\ up' = [up EXCEPT ![c] = t]
  BY DEF ReadOver
<1>2. UpOK'
  <2>1. up[c] \in Seq(ToServer)
    BY DEF FtpInv, UpOK
  <2>2. t \in Seq(ToServer)
    BY <1>1, <2>1, BeyondTyped
  <2> QED
    BY <1>1, <2>2 DEF FtpInv, UpOK
<1> QED
  BY <1>2, Kept DEF FtpInv, ReadOver

LEMMA ChildEndTyped ==
  ASSUME FtpInv, NEW c \in Client, NoFunction(c) \/ LoopEof(c)
  PROVE  WireOK' /\ UpOK' /\ DownOK' /\ ChildrenOK' /\ ParentOK'
<1> USE DEF FtpInv
<1>1. UpOK'
  BY TakeTyped, Kept DEF NoFunction, LoopEof, wireVars
<1>2. DownOK' /\ WireOK'
  BY Kept DEF NoFunction, LoopEof, wireVars
<1>3. PICK how \in Ended : End(c, how)
  BY DEF NoFunction, LoopEof, Ended
<1>4. ParentOK' /\ child' = [child EXCEPT ![c] = how]
  BY <1>3, EndTyped
<1>5. UNCHANGED <<files, cwd, path, pos>>
  BY DEF NoFunction, LoopEof
<1>6. ChildrenOK'
  BY <1>4, <1>5 DEF ChildrenOK, FileInv, Ended
<1> QED
  BY <1>1, <1>2, <1>4, <1>6

LEMMA ChildTyped ==
  ASSUME FtpInv, NEW c \in Client, ChildStep(c)
  PROVE  WireOK' /\ UpOK' /\ DownOK' /\ ChildrenOK' /\ ParentOK'
BY PwdTyped, CwdTyped, QuitTyped, ListTyped, ListEntryTyped, ListCrashTyped, RetrTyped,
   RetrMoreTyped, RetrLastTyped, StorTyped, StorDataTyped, StorBrokenTyped, StorIllegalTyped,
   ReadOverTyped, ChildEndTyped
DEF ChildStep

-----------------------------------------------------------------------------
(* Steps of the parent. *)

LEMMA ParentTyped ==
  ASSUME FtpInv, (\E c \in Client : Accept(c)) \/ SigChld \/ Wait \/ ServerKilled
  PROVE  WireOK' /\ UpOK' /\ DownOK' /\ ChildrenOK' /\ ParentOK'
<1> USE DEF FtpInv
<1>1. ASSUME NEW c \in Client, Accept(c)
      PROVE  WireOK' /\ UpOK' /\ DownOK' /\ ChildrenOK' /\ ParentOK'
  <2>1. WireOK' /\ UpOK' /\ DownOK' /\ ParentOK'
    BY <1>1, Kept DEF Accept, wireVars
  <2>2. child' = [child EXCEPT ![c] = "loop"] /\ UNCHANGED <<files, cwd, path, pos>>
    BY <1>1 DEF Accept, Goto
  <2>3. ChildrenOK'
    BY <2>2 DEF ChildrenOK, FileInv, Running
  <2> QED
    BY <2>1, <2>3
<1>2. ASSUME SigChld \/ Wait
      PROVE  WireOK' /\ UpOK' /\ DownOK' /\ ChildrenOK' /\ ParentOK'
  <2>1. WireOK' /\ UpOK' /\ DownOK' /\ ChildrenOK'
    BY <1>2, Kept DEF SigChld, Wait, wireVars
  <2>2. zombies' \in Nat
    BY <1>2 DEF SigChld, Wait, ParentOK
  <2>3. sigchld' \in {TRUE, FALSE, sigchld} /\ inChld' \in {TRUE, FALSE}
    BY <1>2 DEF SigChld, Wait
  <2>4. ParentOK'
    BY <2>2, <2>3, Zenon DEF ParentOK
  <2> QED
    BY <2>1, <2>4
<1>3. ASSUME ServerKilled
      PROVE  WireOK' /\ UpOK' /\ DownOK' /\ ChildrenOK' /\ ParentOK'
  <2>1. UpOK' /\ DownOK' /\ ParentOK'
    BY <1>3, Kept DEF ServerKilled
  <2>2. WireOK'
    BY <1>3, FaultTyped DEF ServerKilled, WireOK
  <2>3. ChildrenOK'
    BY <1>3 DEF ServerKilled, ChildrenOK, FileInv, Ended
  <2> QED
    BY <2>1, <2>2, <2>3
<1> QED
  BY <1>1, <1>2, <1>3

-----------------------------------------------------------------------------
(* Steps of a client. *)

LEMMA ConnectTyped ==
  ASSUME FtpInv, NEW c \in Client, Connect(c)
  PROVE  WireOK' /\ UpOK' /\ DownOK' /\ ClientOK'
<1> USE DEF FtpInv
<1>1. UpOK' /\ DownOK'
  BY Kept DEF Connect
<1>2. WireOK'
  BY DEF Connect, WireOK
<1>3. doing' = [doing EXCEPT ![c] = "prompt"] /\ UNCHANGED <<transferVars, left>>
  BY DEF Connect, Do
<1>4. ClientOK'
  BY <1>3 DEF ClientOK, ClientTypeOK, LocalInv, transferVars
<1> QED
  BY <1>1, <1>2, <1>4

LEMMA AskTyped ==
  ASSUME FtpInv, NEW c \in Client, NEW m \in ToServer,
         NEW what \in Waiting, Ask(c, m, what)
  PROVE  /\ WireOK' /\ UpOK' /\ DownOK'
         /\ doing' = [doing EXCEPT ![c] = what]
         /\ left' \in [Client -> Nat] /\ doing[c] = "prompt"
<1> USE DEF FtpInv
<1>1. Emit(c, m)
  BY DEF Ask
<1>2. UpOK'
  BY <1>1, EmitTyped
<1>3. WireOK' /\ DownOK'
  BY <1>1, Kept DEF Emit
<1>4. left' \in [Client -> Nat]
  BY DEF Ask, ClientOK, ClientTypeOK
<1> QED
  BY <1>2, <1>3, <1>4 DEF Ask, Do

LEMMA ShortAskTyped ==
  ASSUME FtpInv, NEW c \in Client, AskQuit(c) \/ AskPwd(c) \/ AskCd(c) \/ AskDir(c)
  PROVE  WireOK' /\ UpOK' /\ DownOK' /\ ClientOK'
<1>1. PICK m \in ToServer, what \in {"quit", "pwd", "cd", "dir"} : Ask(c, m, what)
  BY MsgTyped, NamedTyped DEF AskQuit, AskPwd, AskCd, AskDir
<1>2. UNCHANGED transferVars
  BY DEF AskQuit, AskPwd, AskCd, AskDir
<1>3. what \in Waiting
  BY DEF Waiting
<1>4. WireOK' /\ UpOK' /\ DownOK' /\ doing' = [doing EXCEPT ![c] = what]
      /\ left' \in [Client -> Nat]
  BY <1>1, <1>3, AskTyped
<1>5. ClientOK'
  BY <1>2, <1>3, <1>4 DEF FtpInv, ClientOK, ClientTypeOK, LocalInv, transferVars
<1> QED
  BY <1>4, <1>5

(* The file a user names, and the one a client takes from it.              *)
LEMMA ArgTyped ==
  ASSUME FtpInv, NEW c \in Client, NEW arg \in Arg
  PROVE  ExtractFilename(arg) \in Arg /\ Resolve(lcwd[c], arg) \in Path
<1>1. lcwd[c] \in Dir
  BY DEF FtpInv, ClientOK, ClientTypeOK
<1> QED
  BY <1>1 DEF ExtractFilename, Resolve, Arg, Path

LEMMA AskGetTyped ==
  ASSUME FtpInv, NEW c \in Client, AskGet(c)
  PROVE  WireOK' /\ UpOK' /\ DownOK' /\ ClientOK'
<1> DEFINE p(to) == Resolve(lcwd[c], to)
           old(to) == IF local[c][p(to)] = NoFile THEN <<>> ELSE local[c][p(to)]
<1>0. PICK from \in Typed : \E to \in Typed \cup {ExtractFilename(from)} :
        /\ Ask(c, Named("RETR", from), "get")
        /\ local' = [local EXCEPT ![c][p(to)] = old(to)]
        /\ lpath' = [lpath EXCEPT ![c] = p(to)]
        /\ base' = [base EXCEPT ![c] = Len(old(to))]
        /\ UNCHANGED <<lcwd, lpos, putting>>
  BY DEF AskGet
<1>1. PICK to \in Typed \cup {ExtractFilename(from)} :
        /\ Ask(c, Named("RETR", from), "get")
        /\ local' = [local EXCEPT ![c][p(to)] = old(to)]
        /\ lpath' = [lpath EXCEPT ![c] = p(to)]
        /\ base' = [base EXCEPT ![c] = Len(old(to))]
        /\ UNCHANGED <<lcwd, lpos, putting>>
  BY <1>0
<1>2. from \in Arg /\ to \in Arg
  BY <1>1, ArgTyped, ClientAssumption
<1>3. p(to) \in Path
  BY <1>2, ArgTyped
<1>4. Named("RETR", from) \in ToServer /\ "get" \in Waiting
  BY <1>2, NamedTyped DEF Waiting
<1>5. WireOK' /\ UpOK' /\ DownOK' /\ doing' = [doing EXCEPT ![c] = "get"]
      /\ left' \in [Client -> Nat]
  BY <1>1, <1>4, AskTyped
<1> HIDE DEF p
<1>6. old(to) \in Text /\ Len(old(to)) \in Nat
  BY <1>3, TextFacts, LenProperties DEF FtpInv, ClientOK, ClientTypeOK, Text
<1> HIDE DEF old
<1>7. ClientTypeOK'
  BY <1>1, <1>3, <1>4, <1>5, <1>6 DEF FtpInv, ClientOK, ClientTypeOK
<1>8. LocalInv'
  BY <1>1, <1>3, <1>5, <1>6 DEF FtpInv, ClientOK, ClientTypeOK, LocalInv
<1> QED
  BY <1>5, <1>7, <1>8 DEF ClientOK

LEMMA AskPutTyped ==
  ASSUME FtpInv, NEW c \in Client, AskPut(c)
  PROVE  WireOK' /\ UpOK' /\ DownOK' /\ ClientOK'
<1>0. PICK from \in Typed : \E to \in Typed \cup {ExtractFilename(from)} :
        /\ local[c][Resolve(lcwd[c], from)] # NoFile
        /\ Ask(c, Named("STOR", to), "put")
        /\ lpath' = [lpath EXCEPT ![c] = Resolve(lcwd[c], from)]
        /\ lpos' = [lpos EXCEPT ![c] = 0]
        /\ putting' = [putting EXCEPT ![c] = local[c][Resolve(lcwd[c], from)]]
        /\ UNCHANGED <<local, lcwd, base>>
  BY DEF AskPut
<1>1. PICK to \in Typed \cup {ExtractFilename(from)} :
        /\ local[c][Resolve(lcwd[c], from)] # NoFile
        /\ Ask(c, Named("STOR", to), "put")
        /\ lpath' = [lpath EXCEPT ![c] = Resolve(lcwd[c], from)]
        /\ lpos' = [lpos EXCEPT ![c] = 0]
        /\ putting' = [putting EXCEPT ![c] = local[c][Resolve(lcwd[c], from)]]
        /\ UNCHANGED <<local, lcwd, base>>
  BY <1>0
<1> DEFINE p == Resolve(lcwd[c], from)
<1>2. from \in Arg /\ to \in Arg
  BY <1>1, ArgTyped, ClientAssumption
<1>3. p \in Path
  BY <1>2, ArgTyped
<1>4. Named("STOR", to) \in ToServer /\ "put" \in Waiting
  BY <1>2, NamedTyped DEF Waiting
<1>5. WireOK' /\ UpOK' /\ DownOK' /\ doing' = [doing EXCEPT ![c] = "put"]
      /\ left' \in [Client -> Nat]
  BY <1>1, <1>4, AskTyped
<1> HIDE DEF p
<1>6. local[c][p] \in Text /\ Len(local[c][p]) \in Nat
  <2>1. local[c][p] \in Text
    BY <1>1, <1>3 DEF FtpInv, ClientOK, ClientTypeOK, p
  <2> QED
    BY <2>1, LenProperties DEF Text
<1>7. /\ lpath' = [lpath EXCEPT ![c] = p]
      /\ putting' = [putting EXCEPT ![c] = local[c][p]]
  BY <1>1 DEF p
<1>8. ClientTypeOK'
  BY <1>1, <1>3, <1>4, <1>5, <1>6, <1>7 DEF FtpInv, ClientOK, ClientTypeOK
<1>9. LocalInv'
  BY <1>1, <1>3, <1>5, <1>6, <1>7 DEF FtpInv, ClientOK, ClientTypeOK, LocalInv
<1> QED
  BY <1>5, <1>8, <1>9 DEF ClientOK

LEMMA LcdTyped ==
  ASSUME FtpInv, NEW c \in Client, Lcd(c)
  PROVE  WireOK' /\ UpOK' /\ DownOK' /\ ClientOK'
<1>1. WireOK' /\ UpOK' /\ DownOK'
  BY Kept DEF FtpInv, Lcd, wireVars
<1>2. ClientOK'
  BY DEF FtpInv, Lcd, ClientOK, ClientTypeOK, LocalInv
<1> QED
  BY <1>1, <1>2

LEMMA AfterTyped ==
  ASSUME DownOK, NEW c \in Client, NEW r \in HeaderOf(c) \cup MessageOf(c), NEW next,
         After(c, r, next)
  PROVE  /\ DownOK' /\ r.msg.data \in Text
         /\ UNCHANGED <<serverUp, up, left>>
         /\ doing' = [doing EXCEPT ![c] = "astray"] \/ doing' = [doing EXCEPT ![c] = next]
<1>1. r.rest \in Seq(Message) /\ r.msg.data \in Text
  BY ReceivedTyped
<1> QED
  BY <1>1 DEF After, Do, DownOK

LEMMA ReplyTyped ==
  ASSUME FtpInv, NEW c \in Client, NEW what, NEW refused, NEW accepted,
         Reply(c, what, refused, accepted)
  PROVE  /\ UpOK' /\ DownOK' /\ doing[c] = what
         /\ UNCHANGED <<serverUp, faults, lost, left>>
         /\ \E next \in {"astray", refused, accepted} : doing' = [doing EXCEPT ![c] = next]
<1>1. PICK r \in HeaderOf(c) : After(c, r, IF ErrCheck(r.msg) THEN refused ELSE accepted)
  BY DEF Reply
<1>2. /\ DownOK' /\ UNCHANGED <<serverUp, up, left>>
      /\ \/ doing' = [doing EXCEPT ![c] = "astray"]
         \/ doing' = [doing EXCEPT ![c] = IF ErrCheck(r.msg) THEN refused ELSE accepted]
  BY <1>1, AfterTyped DEF FtpInv
<1>3. UpOK'
  BY <1>2, Kept DEF FtpInv
<1> QED
  BY <1>2, <1>3 DEF Reply

(* Steps of a client that leave its files alone.                           *)
LEMMA DoTyped ==
  ASSUME ClientOK, NEW c \in Client,
         NEW next \in {"off", "prompt", "astray", "ended", "quit", "pwd", "cd", "dir", "dirData"},
         doing' = [doing EXCEPT ![c] = next],
         UNCHANGED <<transferVars, left>>
  PROVE  ClientOK'
BY DEF ClientOK, ClientTypeOK, LocalInv, transferVars, Waiting

LEMMA ReplyClientTyped ==
  ASSUME FtpInv, NEW c \in Client,
         \/ QuitReply(c) \/ CdReply(c) \/ DirReply(c) \/ GetReply(c) \/ PutReply(c)
  PROVE  WireOK' /\ UpOK' /\ DownOK' /\ ClientOK'
<1> USE DEF FtpInv
<1>1. CASE QuitReply(c)
  <2>1. /\ UpOK' /\ DownOK' /\ UNCHANGED <<serverUp, faults, lost, left>>
        /\ \E next \in {"astray", "prompt", "ended"} : doing' = [doing EXCEPT ![c] = next]
    BY <1>1, ReplyTyped DEF QuitReply
  <2>2. WireOK'
    BY <1>1, <2>1 DEF QuitReply, WireOK
  <2>3. ClientOK'
    BY <1>1, <2>1, DoTyped DEF QuitReply
  <2> QED
    BY <2>1, <2>2, <2>3
<1>2. CASE CdReply(c) \/ DirReply(c)
  <2>1. /\ UpOK' /\ DownOK' /\ UNCHANGED <<serverUp, faults, lost, left>>
        /\ \E next \in {"astray", "prompt", "dirData"} : doing' = [doing EXCEPT ![c] = next]
    BY <1>2, ReplyTyped DEF CdReply, DirReply
  <2>2. UNCHANGED <<conn, transferVars>>
    BY <1>2 DEF CdReply, DirReply
  <2>3. WireOK'
    BY <2>1, <2>2, Kept
  <2>4. ClientOK'
    BY <2>1, <2>2, DoTyped
  <2> QED
    BY <2>1, <2>3, <2>4
<1>3. CASE PutReply(c)
  <2>1. /\ UpOK' /\ DownOK' /\ UNCHANGED <<serverUp, faults, lost, left>>
        /\ doing[c] = "put"
        /\ \E next \in {"astray", "prompt", "putData"} : doing' = [doing EXCEPT ![c] = next]
    BY <1>3, ReplyTyped DEF PutReply
  <2>2. UNCHANGED <<conn, transferVars>>
    BY <1>3 DEF PutReply
  <2>3. WireOK'
    BY <2>1, <2>2, Kept
  <2>4. ClientOK'
    BY <2>1, <2>2 DEF ClientOK, ClientTypeOK, LocalInv, transferVars, Waiting
  <2> QED
    BY <2>1, <2>3, <2>4
<1>4. CASE GetReply(c)
  <2>1. /\ UpOK' /\ DownOK' /\ UNCHANGED <<serverUp, faults, lost, left>>
        /\ doing[c] = "get"
        /\ \E next \in {"astray", "prompt", "getData"} : doing' = [doing EXCEPT ![c] = next]
    BY <1>4, ReplyTyped DEF GetReply
  <2>2. /\ UNCHANGED <<conn, lcwd, lpath, lpos, base, putting>>
        /\ \/ local' = local
           \/ doing'[c] = "prompt" /\ local' = [local EXCEPT ![c][lpath[c]] = NoFile]
    BY <1>4 DEF GetReply
  <2>3. WireOK'
    BY <2>1, <2>2, Kept
  <2>4. lpath[c] \in Path
    BY <2>1 DEF ClientOK, LocalInv
  <2>5. ClientTypeOK'
    BY <2>1, <2>2, <2>4 DEF ClientOK, ClientTypeOK, Waiting
  <2>6. LocalInv'
    BY <2>1, <2>2, <2>4 DEF ClientOK, ClientTypeOK, LocalInv
  <2> QED
    BY <2>1, <2>3, <2>5, <2>6 DEF ClientOK
<1> QED
  BY <1>1, <1>2, <1>3, <1>4

LEMMA TextReplyTyped ==
  ASSUME FtpInv, NEW c \in Client, PwdReply(c) \/ DirData(c)
  PROVE  WireOK' /\ UpOK' /\ DownOK' /\ ClientOK'
<1> USE DEF FtpInv
<1>1. PICK r \in MessageOf(c), next \in {"prompt", "dirData"} : After(c, r, next)
  BY DEF PwdReply, DirData
<1>2. UNCHANGED <<conn, faults, transferVars, lost>>
  BY DEF PwdReply, DirData
<1>3. /\ DownOK' /\ UNCHANGED <<serverUp, up, left>>
      /\ doing' = [doing EXCEPT ![c] = "astray"] \/ doing' = [doing EXCEPT ![c] = next]
  BY <1>1, AfterTyped
<1>4. WireOK' /\ UpOK'
  BY <1>2, <1>3, Kept
<1>5. ClientOK'
  BY <1>2, <1>3, DoTyped
<1> QED
  BY <1>3, <1>4, <1>5

LEMMA GetDataTyped ==
  ASSUME FtpInv, NEW c \in Client, GetData(c)
  PROVE  WireOK' /\ UpOK' /\ DownOK' /\ ClientOK'
<1> USE DEF FtpInv
<1>1. PICK r \in MessageOf(c) :
        /\ After(c, r, IF Lasts(r.msg) THEN "getData" ELSE "prompt")
        /\ local' = [local EXCEPT ![c][lpath[c]] = @ \o r.msg.data]
  BY DEF GetData
<1>2. UNCHANGED <<conn, faults, lcwd, lpath, lpos, base, putting, lost>> /\ doing[c] = "getData"
  BY DEF GetData
<1>3. /\ DownOK' /\ UNCHANGED <<serverUp, up, left>> /\ r.msg.data \in Text
      /\ \E next \in {"astray", "getData", "prompt"} : doing' = [doing EXCEPT ![c] = next]
  BY <1>1, AfterTyped
<1>4. WireOK' /\ UpOK'
  BY <1>2, <1>3, Kept
<1>5. lpath[c] \in Path /\ local[c][lpath[c]] \in Text
  BY <1>2 DEF ClientOK, LocalInv
<1> DEFINE now == local[c][lpath[c]] \o r.msg.data
<1>6. now \in Text
  BY <1>3, <1>5, ConcatProperties DEF Text
<1>7. local' = [local EXCEPT ![c] = [local[c] EXCEPT ![lpath[c]] = now]]
  BY <1>1, <1>5 DEF ClientOK, ClientTypeOK
<1> HIDE DEF now
<1>8. ClientTypeOK'
  BY <1>2, <1>3, <1>5, <1>6, <1>7 DEF ClientOK, ClientTypeOK, Waiting
<1>9. LocalInv'
  BY <1>2, <1>3, <1>5, <1>6, <1>7 DEF ClientOK, ClientTypeOK, LocalInv
<1> QED
  BY <1>3, <1>4, <1>8, <1>9 DEF ClientOK

LEMMA GetFailsTyped ==
  ASSUME FtpInv, NEW c \in Client, GetFails(c)
  PROVE  WireOK' /\ UpOK' /\ DownOK' /\ ClientOK'
<1> USE DEF FtpInv
<1>1. PICK r \in MessageOf(c) : After(c, r, "prompt")
  BY DEF GetFails
<1>2. /\ DownOK' /\ UNCHANGED <<serverUp, up, left>>
      /\ doing' = [doing EXCEPT ![c] = "astray"] \/ doing' = [doing EXCEPT ![c] = "prompt"]
  BY <1>1, AfterTyped
<1>3. WireOK'
  <2>1. faults' \in 0 .. MaxFaults
    BY FaultTyped DEF GetFails, WireOK
  <2> QED
    BY <1>2, <2>1 DEF GetFails, WireOK
<1>4. UpOK'
  BY <1>2, Kept
<1>5. ClientOK'
  BY <1>2, DoTyped DEF GetFails
<1> QED
  BY <1>2, <1>3, <1>4, <1>5

LEMMA PutMoreTyped ==
  ASSUME FtpInv, NEW c \in Client, PutMore(c)
  PROVE  WireOK' /\ UpOK' /\ DownOK' /\ ClientOK'
<1> USE DEF FtpInv
<1> DEFINE piece == PutPiece(c)
<1>1. /\ doing[c] = "putData" /\ Emit(c, Data(piece))
      /\ lpos' = [lpos EXCEPT ![c] = @ + Len(piece)]
      /\ UNCHANGED <<doing, local, lcwd, lpath, left, base, putting>>
  BY DEF PutMore
<1>2. /\ lpath[c] \in Path /\ local[c][lpath[c]] \in Text
      /\ lpos[c] \in Nat /\ lpos[c] <= Len(local[c][lpath[c]])
      /\ putting[c] = local[c][lpath[c]]
  BY <1>1 DEF ClientOK, ClientTypeOK, LocalInv
<1>3. piece \in Text /\ Len(piece) \in Nat /\ lpos[c] + Len(piece) <= Len(putting[c])
  BY <1>2, PieceFacts DEF PutPiece
<1> HIDE DEF piece
<1>4. Data(piece) \in ToServer
  BY <1>3, DataTyped
<1>5. UpOK'
  BY <1>1, <1>4, EmitTyped
<1>6. WireOK' /\ DownOK'
  BY <1>1, Kept DEF Emit
<1>7. ClientTypeOK'
  BY <1>1, <1>2, <1>3 DEF ClientOK, ClientTypeOK
<1>8. LocalInv'
  BY <1>1, <1>2, <1>3 DEF ClientOK, ClientTypeOK, LocalInv
<1> QED
  BY <1>5, <1>6, <1>7, <1>8 DEF ClientOK

LEMMA PutEndTyped ==
  ASSUME FtpInv, NEW c \in Client, PutEnd(c)
  PROVE  WireOK' /\ UpOK' /\ DownOK' /\ ClientOK'
<1> USE DEF FtpInv
<1>1. Emit(c, DataEnd) /\ UNCHANGED <<transferVars, left>>
      /\ doing' = [doing EXCEPT ![c] = "prompt"]
  BY DEF PutEnd, Do
<1>2. UpOK'
  BY <1>1, RepliesTyped, EmitTyped
<1>3. WireOK' /\ DownOK'
  BY <1>1, Kept DEF Emit
<1>4. ClientOK'
  BY <1>1, DoTyped
<1> QED
  BY <1>2, <1>3, <1>4

LEMMA PutFailsTyped ==
  ASSUME FtpInv, NEW c \in Client, PutFails(c)
  PROVE  WireOK' /\ UpOK' /\ DownOK' /\ ClientOK'
<1> USE DEF FtpInv
<1>1. UpOK'
  BY RepliesTyped DEF PutFails, UpOK
<1>2. DownOK'
  BY Kept DEF PutFails
<1>3. WireOK'
  <2>1. faults' \in 0 .. MaxFaults
    BY FaultTyped DEF PutFails, WireOK
  <2> QED
    BY <2>1 DEF PutFails, WireOK
<1>4. /\ doing[c] = "putData" /\ doing' = [doing EXCEPT ![c] = "prompt"]
      /\ putting' = [putting EXCEPT ![c] = SubSeq(@, 1, lpos[c])]
      /\ UNCHANGED <<local, lcwd, lpath, lpos, left, base>>
  BY DEF PutFails, Do
<1>5. putting[c] \in Text /\ lpos[c] \in Nat /\ lpos[c] <= Len(putting[c])
  BY <1>4 DEF ClientOK, ClientTypeOK, LocalInv
<1>6. SubSeq(putting[c], 1, lpos[c]) \in Text
  <2>1. Len(putting[c]) \in Nat /\ \A i \in 1 .. Len(putting[c]) : putting[c][i] \in Byte
    BY <1>5, LenProperties DEF Text
  <2>2. \A i \in 1 .. lpos[c] : putting[c][i] \in Byte
    BY <1>5, <2>1
  <2> QED
    BY <1>5, <2>2, SubSeqProperties DEF Text
<1>7. ClientTypeOK'
  BY <1>4, <1>6 DEF ClientOK, ClientTypeOK
<1>8. LocalInv'
  BY <1>4 DEF ClientOK, ClientTypeOK, LocalInv
<1> QED
  BY <1>1, <1>2, <1>3, <1>7, <1>8 DEF ClientOK

(* What is left of a stream when its end is lost.                          *)
LEMMA PrefixTyped ==
  ASSUME NEW S, NEW s \in Seq(S), NEW k \in 0 .. Len(s)
  PROVE  SubSeq(s, 1, k) \in Seq(S)
<1>1. Len(s) \in Nat /\ \A i \in 1 .. Len(s) : s[i] \in S
  BY LenProperties
<1>2. k \in Nat /\ \A i \in 1 .. k : s[i] \in S
  BY <1>1
<1> QED
  BY <1>2, SubSeqProperties

LEMMA ClientEndsTyped ==
  ASSUME FtpInv, NEW c \in Client, ClientEnds(c)
  PROVE  WireOK' /\ UpOK' /\ DownOK' /\ ClientOK'
<1> USE DEF FtpInv
<1>1. UpOK'
  <2>1. up[c] \in Seq(ToServer) /\ Len(up[c]) \in Nat
    BY LenProperties DEF UpOK
  <2>2. PICK k \in 0 .. Len(up[c]) : up' = [up EXCEPT ![c] = SubSeq(@, 1, k)]
    <3> DEFINE K == IF down[c] = <<>> THEN {Len(up[c])} ELSE 0 .. Len(up[c])
    <3>1. PICK k \in K : up' = [up EXCEPT ![c] = SubSeq(@, 1, k)]
      BY DEF ClientEnds
    <3>2. k \in 0 .. Len(up[c])
      BY <2>1
    <3> QED
      BY <3>1, <3>2
  <2>3. SubSeq(up[c], 1, k) \in Seq(ToServer)
    BY <2>1, PrefixTyped
  <2> QED
    BY <2>2, <2>3 DEF UpOK
<1>2. DownOK'
  BY DEF ClientEnds, DownOK
<1>3. WireOK'
  <2>1. faults' \in 0 .. MaxFaults
    BY FaultTyped DEF ClientEnds, WireOK
  <2> QED
    BY <2>1 DEF ClientEnds, WireOK
<1>4. ClientOK'
  BY DoTyped DEF ClientEnds, Do
<1> QED
  BY <1>1, <1>2, <1>3, <1>4

LEMMA LoseTailTyped ==
  ASSUME FtpInv, NEW c \in Client, LoseTail(c)
  PROVE  WireOK' /\ UpOK' /\ DownOK'
<1> USE DEF FtpInv
<1>1. WireOK' /\ UpOK'
  BY Kept DEF LoseTail
<1>2. down[c] \in Seq(Message) /\ Len(down[c]) \in Nat /\ Len(down[c]) # 0
  BY LenProperties, EmptySeq DEF LoseTail, DownOK
<1>3. SubSeq(down[c], 1, Len(down[c]) - 1) \in Seq(Message)
  BY <1>2, PrefixTyped
<1>4. DownOK'
  BY <1>3 DEF LoseTail, DownOK
<1> QED
  BY <1>1, <1>4

LEMMA ClientTyped ==
  ASSUME FtpInv, NEW c \in Client, ClientNext(c)
  PROVE  WireOK' /\ UpOK' /\ DownOK' /\ ClientOK'
BY ConnectTyped, ShortAskTyped, AskGetTyped, AskPutTyped, LcdTyped, ReplyClientTyped,
   TextReplyTyped, GetDataTyped, GetFailsTyped, PutMoreTyped, PutEndTyped, PutFailsTyped,
   ClientEndsTyped DEF ClientNext

LEMMA StepTyped == FtpInv /\ [Next]_vars => FtpInv'
<1> SUFFICES ASSUME FtpInv, [Next]_vars PROVE FtpInv'
  OBVIOUS
<1>1. ASSUME ServerStep, UNCHANGED clientVars PROVE FtpInv'
  <2>1. ClientOK'
    BY <1>1, Kept DEF FtpInv
  <2>2. WireOK' /\ UpOK' /\ DownOK' /\ ChildrenOK' /\ ParentOK'
    BY <1>1, ChildTyped, ParentTyped DEF ServerStep
  <2> QED
    BY <2>1, <2>2 DEF FtpInv
<1>2. ASSUME NEW c \in Client, ClientNext(c), UNCHANGED serverVars PROVE FtpInv'
  <2>1. ChildrenOK' /\ ParentOK'
    BY <1>2, Kept DEF FtpInv, serverVars, parentVars
  <2>2. WireOK' /\ UpOK' /\ DownOK' /\ ClientOK'
    BY <1>2, ClientTyped
  <2> QED
    BY <2>1, <2>2 DEF FtpInv
<1>3. ASSUME NEW c \in Client, LoseTail(c), UNCHANGED <<serverVars, clientVars>>
      PROVE  FtpInv'
  <2>1. ChildrenOK' /\ ParentOK' /\ ClientOK'
    BY <1>3, Kept DEF FtpInv, serverVars, parentVars
  <2>2. WireOK' /\ UpOK' /\ DownOK'
    BY <1>3, LoseTailTyped
  <2> QED
    BY <2>1, <2>2 DEF FtpInv
<1>4. CASE UNCHANGED vars
  BY <1>4, Kept DEF FtpInv, vars, wireVars, serverVars, parentVars
<1> QED
  BY <1>1, <1>2, <1>3, <1>4 DEF Next

LEMMA InvAlways == Spec => []FtpInv
BY InitTyped, StepTyped, PTL DEF Spec

(* Every message, file and process of the transfer stays of its type,      *)
(* whoever fails and whenever: myftpd and myftpc of ex-5bq.                *)
THEOREM TypeCorrect == Spec => []TypeOK
BY InvAlways, InvTyped, PTL

-----------------------------------------------------------------------------
(* The parent's handler of SIGCHLD. *)

(* Each child that has ended and was not waited for has at most one signal *)
(* or one run of the handler left, and they never outnumber the children.  *)
Awaits == IF inChld THEN IF sigchld THEN 2 ELSE 1 ELSE IF sigchld THEN 1 ELSE 0
EnoughEnded == zombies >= Awaits

LEMMA EnoughStep == ParentOK /\ EnoughEnded /\ [Next]_vars => EnoughEnded'
<1> SUFFICES ASSUME ParentOK, EnoughEnded, [Next]_vars PROVE EnoughEnded'
  OBVIOUS
<1>1. CASE UNCHANGED parentVars
  BY <1>1 DEF EnoughEnded, Awaits, parentVars
<1>2. CASE \E c \in Client, how \in Ended : End(c, how)
  BY <1>2 DEF EnoughEnded, Awaits, End, ParentOK
<1>3. CASE SigChld
  BY <1>3 DEF EnoughEnded, Awaits, SigChld, ParentOK
<1>4. CASE Wait
  BY <1>4 DEF EnoughEnded, Awaits, Wait, ParentOK
<1>5. ASSUME NEW c \in Client, ChildStep(c)
      PROVE  UNCHANGED parentVars \/ \E how \in Ended : End(c, how)
  BY <1>5 DEF ChildStep, Pwd, Cwd, Quit, List, ListEntry, ListCrash, Retr, RetrMore, RetrEnd,
              RetrFails, Stor, StorData, StorFails, StorIllegal, StorEof, NoFunction, ReadOver,
              LoopEof, Answer, Ended
<1>6. \/ UNCHANGED parentVars
      \/ \E c \in Client, how \in Ended : End(c, how)
      \/ SigChld \/ Wait
  BY <1>5 DEF Next, ServerStep, Accept, ServerKilled, serverVars, parentVars, vars
<1> QED
  BY <1>1, <1>2, <1>3, <1>4, <1>6

(* wait() in sig_chld() never blocks the parent of any number of children: *)
(* ex-5bq/myftpd.c, main() and sig_chld().                                 *)
THEOREM WaitNeverBlocks == Spec => []WaitFindsChild
<1>1. Init => EnoughEnded
  BY DEF Init, ServerInit, EnoughEnded, Awaits
<1>2. Spec => [](ParentOK /\ EnoughEnded)
  BY <1>1, InvAlways, EnoughStep, PTL DEF Spec, FtpInv
<1>3. ParentOK /\ EnoughEnded => WaitFindsChild
  BY DEF ParentOK, EnoughEnded, Awaits, WaitFindsChild
<1> QED
  BY <1>2, <1>3, PTL

-----------------------------------------------------------------------------
(* The files as a store. *)

View(c) == IF child[c] = "loop" /\ path[c] # NoPath
           THEN SubSeq(files[path[c]], 1, pos[c]) ELSE NoFile

LEMMA PrefixKept ==
  ASSUME NEW s \in Text, NEW t \in Text, NEW n \in 0 .. Len(s)
  PROVE  SubSeq(s \o t, 1, n) = SubSeq(s, 1, n)
<1>1. s \in Seq(Byte) /\ t \in Seq(Byte) /\ s \o t \in Seq(Byte)
      /\ Len(s) \in Nat /\ Len(s \o t) \in Nat /\ Len(s) <= Len(s \o t)
  BY ConcatProperties, LenProperties DEF Text
<1>2. CASE n = 0
  <2>1. SubSeq(s \o t, 1, 0) \in Seq(Byte) /\ Len(SubSeq(s \o t, 1, 0)) = 0
    BY <1>1, SubSeqProperties
  <2>2. SubSeq(s, 1, 0) \in Seq(Byte) /\ Len(SubSeq(s, 1, 0)) = 0
    BY <1>1, SubSeqProperties
  <2>3. SubSeq(s \o t, 1, 0) = <<>> /\ SubSeq(s, 1, 0) = <<>>
    BY <2>1, <2>2, EmptySeq
  <2> QED
    BY <1>2, <2>3
<1>3. CASE n # 0
  <2>1. 1 \in 1 .. Len(s) /\ n \in 1 .. Len(s)
    BY <1>1, <1>3
  <2> QED
    BY <1>1, <2>1, SubSeqOfConcat1
<1> QED
  BY <1>2, <1>3

(* No step takes anything from a file.                                     *)
FilesGrow == \A p \in Path : files[p] \in Text =>
               \A n \in 0 .. Len(files[p]) : SubSeq(files'[p], 1, n) = SubSeq(files[p], 1, n)

Still(c) == UNCHANGED <<child[c], path[c], pos[c]>>

LEMMA ViewKept ==
  ASSUME FtpInv, FilesGrow, NEW c \in Client, Still(c)
  PROVE  View(c)' = View(c)
<1>1. CASE path[c] = NoPath
  BY <1>1 DEF Still, View
<1>2. CASE path[c] # NoPath
  <2>1. /\ path[c] \in Path /\ files[path[c]] \in Text
        /\ pos[c] \in Nat /\ pos[c] <= Len(files[path[c]])
    BY <1>2 DEF FtpInv, ChildrenOK, FileInv
  <2>2. Len(files[path[c]]) \in Nat
    BY <2>1, LenProperties DEF Text
  <2>3. pos[c] \in 0 .. Len(files[path[c]])
    BY <2>1, <2>2
  <2>4. SubSeq(files'[path[c]], 1, pos[c]) = SubSeq(files[path[c]], 1, pos[c])
    BY <2>1, <2>3 DEF FilesGrow
  <2> QED
    BY <2>4 DEF Still, View
<1> QED
  BY <1>1, <1>2

(* What a step other than the end of a get leaves of what was fetched.     *)
LEMMA Forgets ==
  ASSUME FtpInv, FilesGrow, \A c \in Client : Still(c) \/ child'[c] # "loop" \/ path'[c] = NoPath
  PROVE  Store!Forgotten
<1>1. \A c \in Client : View(c)' \in {View(c), NoFile}
  BY ViewKept DEF View
<1> QED
  BY <1>1 DEF Store!Forgotten, View

LEMMA FilesKept == UNCHANGED files => FilesGrow
BY DEF FilesGrow

(* Children that neither store nor end a get.                              *)
LEMMA QuietForgets ==
  ASSUME FtpInv, NEW c \in Client, ChildStep(c),
         ~RetrEnd(c), ~Stor(c), ~StorData(c)
  PROVE  Store!Forget
<1> USE DEF FtpInv
<1>1. UNCHANGED files
  BY DEF ChildStep, Pwd, Cwd, Quit, List, ListEntry, ListCrash, Retr, RetrMore, RetrFails,
         StorFails, StorIllegal, StorEof, NoFunction, ReadOver, LoopEof
<1>2. \A d \in Client \ {c} : Still(d)
  BY DEF ChildStep, Pwd, Cwd, Quit, List, ListEntry, ListCrash, Retr, RetrMore, RetrFails,
         StorFails, StorIllegal, StorEof, NoFunction, ReadOver, LoopEof, Answer, Goto, End,
         NoneOpen, Still, ChildrenOK
<1>3. Still(c) \/ child'[c] # "loop" \/ path'[c] = NoPath
  <2>1. CASE Pwd(c) \/ Cwd(c)
    BY <2>1 DEF Pwd, Cwd, Answer, Still
  <2>2. CASE Quit(c) \/ ListCrash(c) \/ NoFunction(c) \/ LoopEof(c)
    BY <2>2 DEF Quit, ListCrash, NoFunction, LoopEof, End, Goto, ChildrenOK
  <2>3. CASE List(c)
    BY <2>3 DEF List, ChildrenOK
  <2>4. CASE ListEntry(c)
    BY <2>4 DEF ListEntry, ChildrenOK, FileInv
  <2>5. CASE Retr(c)
    BY <2>5 DEF Retr, Goto, NoneOpen, ChildrenOK
  <2>6. CASE RetrMore(c)
    BY <2>6 DEF RetrMore
  <2>7. CASE RetrFails(c) \/ StorFails(c) \/ StorIllegal(c) \/ StorEof(c)
    BY <2>7 DEF RetrFails, StorFails, StorIllegal, StorEof, NoneOpen, ChildrenOK
  <2>8. CASE ReadOver(c)
    BY <2>8 DEF ReadOver, Still
  <2> QED
    BY <2>1, <2>2, <2>3, <2>4, <2>5, <2>6, <2>7, <2>8 DEF ChildStep
<1> QED
  BY <1>1, <1>2, <1>3, FilesKept, Forgets DEF Store!Forget

(* read() returned 0: the child has read all that the file holds then.     *)
LEMMA GetFetches ==
  ASSUME FtpInv, NEW c \in Client, RetrEnd(c)
  PROVE  \E p \in Path : Store!Fetch(c, p)
<1> USE DEF FtpInv
<1>1. PICK p \in Path : /\ p = path[c] /\ p # NoPath /\ files[p] \in Text
                        /\ pos[c] \in Nat /\ pos[c] <= Len(files[p])
  BY DEF RetrEnd, ChildrenOK, FileInv
<1>2. pos[c] = Len(files[p])
  BY <1>1, PieceFacts DEF RetrEnd, NextPiece
<1>3. SubSeq(files[p], 1, pos[c]) = files[p] /\ files[p] # NoFile
  BY <1>1, <1>2, SubSeqFull, WireAssumption DEF Text
<1>4. child' = [child EXCEPT ![c] = "loop"] /\ UNCHANGED <<files, path, pos>>
  BY DEF RetrEnd, Goto
<1>5. View(c)' = files[p]
  BY <1>1, <1>3, <1>4 DEF View, ChildrenOK
<1>6. \A d \in Client \ {c} : View(d)' = View(d)
  BY <1>4 DEF View, ChildrenOK
<1>7. [d \in Client |-> View(d)]' = [[d \in Client |-> View(d)] EXCEPT ![c] = files[p]]
  BY <1>5, <1>6
<1>8. Store!Fetch(c, p)
  BY <1>3, <1>4, <1>7 DEF Store!Fetch, View
<1> QED
  BY <1>8

LEMMA StorGrows ==
  ASSUME FtpInv, NEW c \in Client, Stor(c)
  PROVE  (\E p \in Path : Store!Create(p)) \/ Store!Forget
<1> USE DEF FtpInv
<1> DEFINE p == OpenFile(c)
<1>1. p \in Path /\ child[c] = "loop"
  BY OpenFileTyped DEF Stor, Request
<1>2. \A d \in Client \ {c} : Still(d)
  BY DEF Stor, Answer, Goto, NoneOpen, Still, ChildrenOK
<1>3. child'[c] # "loop" \/ path'[c] = NoPath
  BY DEF Stor, Goto, NoneOpen, ChildrenOK
<1>4. files' = [files EXCEPT ![p] = Opened(@)] \/ files' = files
  BY DEF Stor
<1> HIDE DEF p
<1>5. FilesGrow
  BY <1>1, <1>4, WireAssumption DEF FilesGrow, Opened, ChildrenOK, Text
<1>6. Store!Forgotten
  BY <1>2, <1>3, <1>5, Forgets
<1>7. CASE files' = files
  BY <1>6, <1>7 DEF Store!Forget
<1>8. CASE files' # files
  <2>1. files[p] = NoFile
    BY <1>1, <1>4, <1>8 DEF Opened, ChildrenOK
  <2>2. files' = [files EXCEPT ![p] = <<>>]
    BY <1>4, <1>8, <2>1 DEF Opened
  <2>3. Store!Create(p)
    BY <1>6, <2>1, <2>2 DEF Store!Create
  <2> QED
    BY <1>1, <2>3
<1> QED
  BY <1>7, <1>8

LEMMA StorDataGrows ==
  ASSUME FtpInv, NEW c \in Client, StorData(c)
  PROVE  \E p \in Path : Store!Grow(p)
<1> USE DEF FtpInv
<1> DEFINE p == path[c]
<1>1. p \in Path /\ files[p] \in Text /\ files[p] # NoFile
  BY StorDataGrown, WireAssumption DEF Text
<1>2. PICK d \in Text : files' = [files EXCEPT ![p] = @ \o d]
  BY StorDataGrown
<1>3. files' = [files EXCEPT ![p] = @ \o d] /\ UNCHANGED pos
  BY <1>2 DEF StorData
<1>4. \A e \in Client \ {c} : Still(e)
  BY DEF StorData, Goto, NoneOpen, Still, ChildrenOK
<1>5. child'[c] # "loop" \/ path'[c] = NoPath
  BY DEF StorData, DataHeard, Goto, NoneOpen, ChildrenOK
<1> HIDE DEF p
<1>6. files'[p] = files[p] \o d
  BY <1>1, <1>3 DEF ChildrenOK
<1>7. FilesGrow
  <2> SUFFICES ASSUME NEW q \in Path, files[q] \in Text, NEW n \in 0 .. Len(files[q])
               PROVE  SubSeq(files'[q], 1, n) = SubSeq(files[q], 1, n)
    BY DEF FilesGrow
  <2>1. CASE q = p
    BY <1>2, <1>6, <2>1, PrefixKept
  <2>2. CASE q # p
    BY <1>3, <2>2 DEF ChildrenOK
  <2> QED
    BY <2>1, <2>2
<1>8. Store!Forgotten
  BY <1>4, <1>5, <1>7, Forgets
<1>9. Store!IsPrefix(files[p], files'[p])
  <2>1. /\ Len(files[p]) \in Nat /\ Len(files[p]) <= Len(files[p] \o d)
        /\ Len(files[p]) \in 0 .. Len(files[p])
    BY <1>1, <1>2, LenProperties, ConcatProperties DEF Text
  <2>2. SubSeq(files[p] \o d, 1, Len(files[p])) = SubSeq(files[p], 1, Len(files[p]))
    BY <1>1, <1>2, <2>1, PrefixKept
  <2> QED
    BY <1>6, <2>1, <2>2 DEF Store!IsPrefix
<1>10. files' = [files EXCEPT ![p] = files'[p]]
  BY <1>1, <1>3, <1>6 DEF ChildrenOK
<1>11. Store!Grow(p)
  BY <1>1, <1>8, <1>9, <1>10 DEF Store!Grow
<1> QED
  BY <1>1, <1>11

LEMMA OthersForget ==
  ASSUME FtpInv,
         \/ (\E c \in Client : Accept(c)) \/ SigChld \/ Wait \/ ServerKilled
         \/ UNCHANGED serverVars
  PROVE  Store!Forget
<1> USE DEF FtpInv
<1>1. UNCHANGED files
  BY DEF Accept, SigChld, Wait, ServerKilled, serverVars
<1>2. \A c \in Client : Still(c) \/ child'[c] # "loop" \/ path'[c] = NoPath
  <2>1. ASSUME NEW c \in Client, Accept(c)
        PROVE  \A d \in Client : Still(d) \/ path'[d] = NoPath
    BY <2>1 DEF Accept, Goto, Still, ChildrenOK, FileInv
  <2>2. CASE SigChld \/ Wait \/ UNCHANGED serverVars
    BY <2>2 DEF SigChld, Wait, serverVars, Still
  <2>3. CASE ServerKilled
    BY <2>3 DEF ServerKilled
  <2> QED
    BY <2>1, <2>2, <2>3
<1> QED
  BY <1>1, <1>2, FilesKept, Forgets DEF Store!Forget

LEMMA StoreStep == FtpInv /\ [Next]_vars => [Store!StoreNext]_(Store!storeVars)
<1> SUFFICES ASSUME FtpInv, [Next]_vars PROVE Store!StoreNext
  OBVIOUS
<1>1. CASE \E c \in Client : ChildStep(c)
  BY <1>1, QuietForgets, GetFetches, StorGrows, StorDataGrows DEF Store!StoreNext
<1>2. CASE \/ (\E c \in Client : Accept(c)) \/ SigChld \/ Wait \/ ServerKilled
           \/ UNCHANGED serverVars
  BY <1>2, OthersForget DEF Store!StoreNext
<1> QED
  BY <1>1, <1>2 DEF Next, ServerStep, vars

(* The files under all connections together implement the store: they only *)
(* grow, and a get without a read error is a snapshot of one file, taken   *)
(* when read() returns 0, however puts and gets of other connections come  *)
(* between its pieces: sget_proc() and sput_proc() of ex-5bq/proc.c.       *)
THEOREM StoreImplemented == Spec => ImplementsStore
<1>1. Init => Store!StoreInit
  BY DEF Init, ServerInit, Store!StoreInit
<1>2. Spec => Store!StoreSpec
  BY <1>1, InvAlways, StoreStep, PTL DEF Spec, Store!StoreSpec
<1> QED
  BY <1>2 DEF ImplementsStore

-----------------------------------------------------------------------------
(* Both ends in step. *)

Asks     == {"quit", "pwd", "cd", "dir", "get", "put"}
Requests == [quit |-> "QUIT", pwd |-> "PWD", cd |-> "CWD", dir |-> "LIST", get |-> "RETR",
             put |-> "STOR"]

(* Data messages from the k-th element on; the end of the data is last.    *)
FlowFrom(s, k) ==
  \A i \in 1 .. Len(s) : i >= k =>
    s[i].type = "DATA" /\ (s[i].code = 1 \/ i = Len(s))

OneOf(s, S) == s = <<>> \/ (Len(s) = 1 /\ s[1] \in S)
Shown(dir)  == {m \in Message : m.type = "CMD" /\ m.arg = dir}

(* What the stream may hold to a client that is doing what, while its      *)
(* child is in dir.                                                        *)
Fits(what, s, dir) ==
  /\ what \in {"off", "prompt", "putData", "ended"} => s = <<>>
  /\ what = "quit" => OneOf(s, {Done})
  /\ what = "pwd" => OneOf(s, Shown(dir))
  /\ what = "cd" => OneOf(s, {Done, Denied, NotFound})
  /\ what = "put" => OneOf(s, {DataToServer, Denied, Unknown})
  /\ what \in {"dir", "get"} =>
       \/ OneOf(s, {Denied, NotFound, Unknown})
       \/ s # <<>> /\ s[1] = DataToClient /\ FlowFrom(s, 2)
  /\ what \in {"dirData", "getData"} => FlowFrom(s, 1)
  /\ what # "astray"

(* The child says nothing before it gets the next request.                 *)
Quiet(c) == /\ child[c] \in {"none", "loop", "sput"}
            /\ \A i \in 1 .. Len(up[c]) : up[c][i].type = "DATA"

(* The client waits, and its request is the last thing that it has sent.   *)
Pending(c) == /\ child[c] \in {"none", "loop", "sput"}
              /\ doing[c] \in Asks /\ down[c] = <<>> /\ up[c] # <<>>
              /\ \A i \in 1 .. Len(up[c]) :
                   up[c][i].type = IF i = Len(up[c]) THEN Requests[doing[c]] ELSE "DATA"

(* The child is in the middle of its answer.                               *)
Sending(c) == /\ \/ child[c] \in {"list", "listFile"} /\ doing[c] \in {"dir", "dirData"}
                 \/ child[c] = "sget" /\ doing[c] \in {"get", "getData"}
              /\ doing[c] \in Asks => down[c] # <<>> /\ down[c][1] = DataToClient
              /\ \A i \in 1 .. Len(down[c]) :
                   down[c][i].type = "DATA" => down[c][i].code = 1
              /\ up[c] = <<>>

Together(c) == Quiet(c) \/ Pending(c) \/ Sending(c) \/ child[c] \in Ended

(* While a child stores, the client still has to begin, is sending, or the *)
(* end of the data is on its way: no request comes before it.              *)
Storing(c) == child[c] = "sput" =>
                \/ doing[c] = "put" /\ down[c] # <<>> /\ down[c][1] = DataToServer
                \/ doing[c] = "putData"
                \/ \E i \in 1 .. Len(up[c]) : up[c][i].type = "DATA" /\ up[c][i].code = 0

(* The connection of a client, and the end of the server.                  *)
Joined(c) == /\ doing[c] = "off" <=> conn[c] = "none"
             /\ doing[c] = "ended" <=> conn[c] = "closed"
             /\ ~serverUp => child[c] = "killed"

Agreed(c) == /\ Fits(doing[c], down[c], cwd[c])
             /\ conn[c] # "closed" => Together(c) /\ Storing(c)

(* Whose messages come in one piece.                                       *)
Whole(c) == c \notin Split

StepInv == \A c \in Client : Joined(c) /\ (~lost[c] /\ Whole(c) => Agreed(c))

(* What may stand first in a stream that fits, and what is left behind it. *)
LEMMA FitsTaken ==
  ASSUME NEW s \in Seq(Message), s # <<>>, NEW what, NEW dir, Fits(what, s, dir),
         what \in {"off", "prompt", "astray", "ended"} \cup Waiting
  PROVE  /\ what \in Waiting \ {"putData"}
         /\ what \in Asks \ {"dir", "get"} => Tail(s) = <<>>
         /\ what = "quit" => Head(s) = Done
         /\ what = "pwd" => Head(s).type = "CMD" /\ Head(s).arg = dir
         /\ what = "cd" => Head(s) \in {Done, Denied, NotFound}
         /\ what = "put" => Head(s) \in {DataToServer, Denied, Unknown}
         /\ what \in {"dir", "get"} =>
              \/ Head(s) \in {Denied, NotFound, Unknown} /\ Tail(s) = <<>>
              \/ Head(s) = DataToClient /\ FlowFrom(Tail(s), 1)
         /\ what \in {"dirData", "getData"} =>
              /\ Head(s).type = "DATA" /\ FlowFrom(Tail(s), 1)
              /\ Head(s).code = 1 \/ Tail(s) = <<>>
<1>1. /\ Len(s) \in Nat /\ Len(s) >= 1
      /\ Head(s) = s[1] /\ s[1] \in Message
      /\ Tail(s) \in Seq(Message) /\ Len(Tail(s)) = Len(s) - 1
      /\ \A i \in 1 .. Len(s) - 1 : Tail(s)[i] = s[i + 1]
      /\ Len(s) = 1 => Tail(s) = <<>>
  BY FirstTaken
<1>2. \A S : OneOf(s, S) => Head(s) \in S /\ Tail(s) = <<>>
  BY <1>1 DEF OneOf
<1>3. FlowFrom(s, 1) => /\ Head(s).type = "DATA" /\ FlowFrom(s, 2)
                        /\ Head(s).code = 1 \/ Tail(s) = <<>>
  <2>1. ASSUME FlowFrom(s, 1)
        PROVE  s[1].type = "DATA" /\ (s[1].code = 1 \/ 1 = Len(s)) /\ FlowFrom(s, 2)
    <3>1. 1 \in 1 .. Len(s) /\ \A i \in 1 .. Len(s) : i >= 1
      BY <1>1
    <3> QED
      BY <2>1, <3>1 DEF FlowFrom
  <2> QED
    BY <1>1, <2>1
<1>4. FlowFrom(s, 2) => FlowFrom(Tail(s), 1)
  <2> SUFFICES ASSUME FlowFrom(s, 2), NEW i \in 1 .. Len(s) - 1
               PROVE  /\ Tail(s)[i].type = "DATA"
                      /\ Tail(s)[i].code = 1 \/ i = Len(Tail(s))
    <3>1. \A i \in 1 .. Len(Tail(s)) : i \in 1 .. Len(s) - 1
      BY <1>1, Zenon
    <3> QED
      BY <3>1, Zenon DEF FlowFrom
  <2>1. i + 1 \in 1 .. Len(s) /\ i + 1 >= 2 /\ Tail(s)[i] = s[i + 1]
    BY <1>1
  <2>2. s[i + 1].type = "DATA" /\ (s[i + 1].code = 1 \/ i + 1 = Len(s))
    BY <2>1 DEF FlowFrom
  <2>3. i + 1 = Len(s) => i = Len(Tail(s))
    <3> DEFINE n == Len(s)
               m == Len(Tail(s))
    <3>1. n \in Nat /\ m = n - 1 /\ i \in Nat
      BY <1>1
    <3> HIDE DEF n, m
    <3>2. i + 1 = n => i = m
      BY <3>1
    <3> QED
      BY <3>2 DEF n, m
  <2> QED
    BY <2>1, <2>2, <2>3
<1>5. what \in Waiting \ {"putData"}
  BY DEF Fits
<1>6. /\ what \in Asks \ {"dir", "get"} => Tail(s) = <<>>
      /\ what = "quit" => Head(s) = Done
      /\ what = "pwd" => Head(s).type = "CMD" /\ Head(s).arg = dir
      /\ what = "cd" => Head(s) \in {Done, Denied, NotFound}
      /\ what = "put" => Head(s) \in {DataToServer, Denied, Unknown}
  BY <1>2 DEF Fits, Asks, Shown
<1>7. /\ what \in {"dir", "get"} =>
            \/ Head(s) \in {Denied, NotFound, Unknown} /\ Tail(s) = <<>>
            \/ Head(s) = DataToClient /\ FlowFrom(Tail(s), 1)
  BY <1>1, <1>2, <1>4 DEF Fits
<1>8. what \in {"dirData", "getData"} =>
            /\ Head(s).type = "DATA" /\ FlowFrom(Tail(s), 1)
            /\ Head(s).code = 1 \/ Tail(s) = <<>>
  BY <1>3, <1>4 DEF Fits
<1> QED
  BY <1>5, <1>6, <1>7, <1>8

LEMMA FitsNothing ==
  ASSUME NEW what, NEW dir, what # "astray"
  PROVE  Fits(what, <<>>, dir)
<1>1. FlowFrom(<<>>, 1)
  BY EmptySeq DEF FlowFrom
<1> QED
  BY <1>1 DEF Fits, OneOf

LEMMA FitsOne ==
  ASSUME NEW m, NEW what, NEW dir,
         \/ what = "quit" /\ m = Done
         \/ what = "pwd" /\ m \in Shown(dir)
         \/ what = "cd" /\ m \in {Done, Denied, NotFound}
         \/ what = "put" /\ m \in {DataToServer, Denied, Unknown}
         \/ what \in {"dir", "get"} /\ m \in {Denied, NotFound, Unknown, DataToClient}
  PROVE  Fits(what, <<m>>, dir)
<1>1. Len(<<m>>) = 1 /\ <<m>>[1] = m /\ <<m>> # <<>>
  OBVIOUS
<1>2. FlowFrom(<<m>>, 2)
  BY <1>1 DEF FlowFrom
<1> DEFINE s == <<m>>
<1>3. Len(s) = 1 /\ s[1] = m /\ s # <<>> /\ FlowFrom(s, 2)
  BY <1>1, <1>2
<1> HIDE DEF s
<1>4. Fits(what, s, dir)
  BY <1>3 DEF Fits, OneOf
<1> QED
  BY <1>4 DEF s

(* Where the data have not ended, more may be sent.                        *)
LEMMA FitsMore ==
  ASSUME NEW s \in Seq(Message), NEW what \in {"dir", "dirData", "get", "getData"}, NEW dir,
         Fits(what, s, dir),
         what \in Asks => s # <<>> /\ s[1] = DataToClient,
         \A i \in 1 .. Len(s) : s[i].type = "DATA" => s[i].code = 1,
         NEW m \in Message, m.type = "DATA"
  PROVE  /\ Fits(what, s \o <<m>>, dir)
         /\ what \in Asks => s \o <<m>> # <<>> /\ (s \o <<m>>)[1] = DataToClient
         /\ m.code = 1 => \A i \in 1 .. Len(s \o <<m>>) :
              (s \o <<m>>)[i].type = "DATA" => (s \o <<m>>)[i].code = 1
<1> DEFINE t == s \o <<m>>
<1>1. /\ Len(s) \in Nat /\ t \in Seq(Message) /\ Len(t) = Len(s) + 1
      /\ \A i \in 1 .. Len(s) : t[i] = s[i]
      /\ t[Len(s) + 1] = m
  <2>1. <<m>> \in Seq(Message) /\ Len(<<m>>) = 1 /\ <<m>>[1] = m /\ Len(s) \in Nat
    BY EmptySeq
  <2>2. /\ t \in Seq(Message) /\ Len(t) = Len(s) + 1
        /\ \A i \in 1 .. Len(s) + 1 : t[i] = IF i <= Len(s) THEN s[i] ELSE <<m>>[i - Len(s)]
    BY <2>1, ConcatProperties
  <2> QED
    BY <2>1, <2>2
<1> HIDE DEF t
<1>2. t # <<>>
  BY <1>1, EmptySeq
<1>3. what \in Asks => t[1] = DataToClient
  <2>1. s # <<>> => 1 \in 1 .. Len(s)
    BY <1>1, EmptySeq
  <2> QED
    BY <1>1, <2>1
<1>4. \A k \in {1, 2} : FlowFrom(s, k) => FlowFrom(t, k)
  <2> SUFFICES ASSUME NEW k \in {1, 2}, FlowFrom(s, k), NEW i \in 1 .. Len(t), i >= k
               PROVE  t[i].type = "DATA" /\ (t[i].code = 1 \/ i = Len(t))
    BY DEF FlowFrom
  <2>1. CASE i = Len(t)
    BY <1>1, <2>1
  <2>2. CASE i # Len(t)
    <3>1. i \in 1 .. Len(s) /\ t[i] = s[i]
      BY <1>1, <2>2
    <3> QED
      BY <3>1 DEF FlowFrom
  <2> QED
    BY <2>1, <2>2
<1>5. what \in {"dir", "get"} => FlowFrom(s, 2)
  <2>1. what \in {"dir", "get"} => what \in Asks
    BY DEF Asks
  <2>2. DataToClient \notin {Denied, NotFound, Unknown}
    BY DEF DataToClient, Denied, NotFound, Unknown, Msg
  <2> QED
    BY <2>1, <2>2 DEF Fits, OneOf
<1>6. Fits(what, t, dir)
  BY <1>1, <1>2, <1>3, <1>4, <1>5 DEF Fits, Asks
<1>7. m.code = 1 => \A i \in 1 .. Len(t) : t[i].type = "DATA" => t[i].code = 1
  <2> SUFFICES ASSUME m.code = 1, NEW i \in 1 .. Len(t), t[i].type = "DATA"
               PROVE  t[i].code = 1
    OBVIOUS
  <2>1. i \in 1 .. Len(s) \/ i = Len(s) + 1
    BY <1>1
  <2> QED
    BY <1>1, <2>1
<1> QED
  BY <1>2, <1>3, <1>6, <1>7 DEF t

(* A stream that has lost its end still fits.                              *)
LEMMA FitsLess ==
  ASSUME NEW s \in Seq(Message), s # <<>>, NEW what, NEW dir, Fits(what, s, dir)
  PROVE  Fits(what, SubSeq(s, 1, Len(s) - 1), dir)
<1> DEFINE t == SubSeq(s, 1, Len(s) - 1)
<1>1. Len(s) \in Nat /\ Len(s) >= 1 /\ \A i \in 1 .. Len(s) : s[i] \in Message
  BY EmptySeq, ElementOfSeq
<1>2. /\ t \in Seq(Message) /\ Len(t) = Len(s) - 1
      /\ \A i \in 1 .. Len(s) - 1 : t[i] = s[i]
  <2>1. \A i \in 1 .. Len(s) - 1 : s[i] \in Message
    BY <1>1
  <2>2. /\ t \in Seq(Message)
        /\ Len(t) = IF 1 <= Len(s) - 1 THEN Len(s) - 1 - 1 + 1 ELSE 0
        /\ \A i \in 1 .. Len(s) - 1 - 1 + 1 : t[i] = s[1 + i - 1]
    BY <1>1, <2>1, SubSeqProperties
  <2>3. Len(t) = Len(s) - 1
    <3> DEFINE n == Len(s)
               m == Len(t)
    <3>1. n \in Nat /\ n >= 1 /\ m = IF 1 <= n - 1 THEN n - 1 - 1 + 1 ELSE 0
      BY <1>1, <2>2
    <3> HIDE DEF n, m
    <3>2. m = n - 1
      BY <3>1
    <3> QED
      BY <3>2 DEF n, m
  <2>4. \A i \in 1 .. Len(s) - 1 : i \in 1 .. Len(s) - 1 - 1 + 1 /\ 1 + i - 1 = i
    BY <1>1
  <2>5. \A i \in 1 .. Len(s) - 1 : t[i] = s[i]
    BY <2>2, <2>4
  <2> QED
    BY <2>2, <2>3, <2>5
<1> HIDE DEF t
<1>3. CASE Len(s) = 1
  <2>1. t = <<>>
    BY <1>2, <1>3, EmptySeq
  <2> QED
    BY <2>1, FitsNothing DEF Fits, t
<1>4. CASE Len(s) # 1
  <2>1. t # <<>> /\ t[1] = s[1] /\ Len(t) >= 1
    BY <1>1, <1>2, <1>4, EmptySeq
  <2>2. \A k \in {1, 2} : FlowFrom(s, k) => FlowFrom(t, k)
    <3> SUFFICES ASSUME NEW k \in {1, 2}, FlowFrom(s, k), NEW i \in 1 .. Len(t), i >= k
                 PROVE  t[i].type = "DATA" /\ t[i].code = 1
      BY DEF FlowFrom
    <3>1. i \in 1 .. Len(s) /\ i # Len(s) /\ t[i] = s[i]
      BY <1>1, <1>2
    <3> QED
      BY <3>1 DEF FlowFrom
  <2>3. s # <<>> /\ \A S : ~OneOf(s, S)
    BY <1>4 DEF OneOf
  <2>4. Fits(what, t, dir)
    BY <2>1, <2>2, <2>3 DEF Fits
  <2> QED
    BY <2>4 DEF t
<1> QED
  BY <1>3, <1>4

(* What recv() takes: the header of an answer, and a message, whole where  *)
(* nothing splits it.                                                      *)
LEMMA WholeTaken ==
  ASSUME DownOK, NEW c \in Client
  PROVE  /\ down[c] = <<>> => \A r \in HeaderOf(c) \cup MessageOf(c) :
               ~serverUp /\ r = [msg |-> Eof, rest |-> <<>>]
         /\ down[c] # <<>> => \A r \in HeaderOf(c) :
               /\ r.msg = Head(down[c])
               /\ Head(down[c]).data = <<>> => r.rest = Tail(down[c])
         /\ down[c] # <<>> => \A r \in MessageOf(c) :
               /\ r.msg.type = Head(down[c]).type /\ r.msg.code = Head(down[c]).code
               /\ \/ r.msg = Head(down[c]) /\ r.rest = Tail(down[c])
                  \/ c \in Split /\ r.rest # <<>> /\ Head(r.rest).type = "STRAY"
<1>1. down[c] = <<>> => \A r \in HeaderOf(c) \cup MessageOf(c) :
         ~serverUp /\ r = [msg |-> Eof, rest |-> <<>>]
  BY DEF HeaderOf, MessageOf
<1> SUFFICES ASSUME down[c] # <<>>
             PROVE  /\ \A r \in HeaderOf(c) :
                         /\ r.msg = Head(down[c])
                         /\ Head(down[c]).data = <<>> => r.rest = Tail(down[c])
                    /\ \A r \in MessageOf(c) :
                         /\ r.msg.type = Head(down[c]).type
                         /\ r.msg.code = Head(down[c]).code
                         /\ \/ r.msg = Head(down[c]) /\ r.rest = Tail(down[c])
                            \/ /\ c \in Split /\ r.rest # <<>>
                               /\ Head(r.rest).type = "STRAY"
  BY <1>1
<1> DEFINE m == Head(down[c])
<1>2. m \in Message /\ Tail(down[c]) \in Seq(Message)
  BY FirstTaken DEF DownOK
<1>3. m.data \in Seq(Byte) /\ Len(m.data) \in Nat
  BY <1>2, LenProperties DEF Message, Text
<1>4. \A k \in Nat : k > Len(m.data) => Stray(m, k) \o Tail(down[c]) = Tail(down[c])
  <2>1. \A k \in Nat : k > Len(m.data) => Stray(m, k) = <<>>
    BY DEF Stray
  <2>2. <<>> \o Tail(down[c]) = Tail(down[c])
    BY <1>2, ConcatEmptySeq
  <2> QED
    BY <2>1, <2>2
<1>5. ASSUME NEW r \in HeaderOf(c)
      PROVE  r.msg = m /\ (m.data = <<>> => r.rest = Tail(down[c]))
  <2>1. r = [msg |-> m, rest |-> Stray(m, 1) \o Tail(down[c])]
    BY DEF HeaderOf
  <2>2. m.data = <<>> => 1 > Len(m.data)
    OBVIOUS
  <2> QED
    BY <1>4, <2>1, <2>2
<1>6. ASSUME NEW r \in MessageOf(c)
      PROVE  /\ r.msg.type = m.type /\ r.msg.code = m.code
             /\ \/ r.msg = m /\ r.rest = Tail(down[c])
                \/ c \in Split /\ r.rest # <<>> /\ Head(r.rest).type = "STRAY"
  <2> DEFINE n == Len(m.data)
             Taken(k) == [msg  |-> [m EXCEPT !.data = Buffer(m, k)],
                          rest |-> Stray(m, k + 1) \o Tail(down[c])]
  <2>1. PICK k \in 1 .. n \cup {n} : r = Taken(k) /\ (c \notin Split => k = n)
    BY DEF MessageOf, Parts
  <2>2. n \in Nat
    BY <1>3
  <2>3. r.msg.type = m.type /\ r.msg.code = m.code
    BY <1>2, <2>1 DEF Message
  <2>4. CASE k = n
    <3> HIDE DEF n
    <3>1. n + 1 \in Nat /\ n + 1 > n
      BY <2>2
    <3>2. Stray(m, n + 1) \o Tail(down[c]) = Tail(down[c])
      BY <1>4, <3>1 DEF n
    <3>3. r.rest = Tail(down[c])
      BY <2>1, <2>4, <3>2
    <3>4. Buffer(m, n) = m.data
      BY <1>3, BufferFacts DEF n, Text
    <3>5. [m EXCEPT !.data = m.data] = m
      BY <1>2 DEF Message
    <3>6. r.msg = m
      BY <2>1, <2>4, <3>4, <3>5
    <3> QED
      BY <2>3, <3>3, <3>6
  <2>5. CASE k # n
    <3>1. c \in Split /\ ~(k + 1 > n)
      BY <2>1, <2>2, <2>5
    <3> DEFINE x == [Msg("STRAY", 0) EXCEPT !.data = SubSeq(m.data, k + 1, n)]
    <3>2. Stray(m, k + 1) = <<x>>
      BY <3>1 DEF Stray
    <3>3. x.type = "STRAY"
      BY DEF Msg
    <3> HIDE DEF x
    <3>4. r.rest = <<x>> \o Tail(down[c])
      BY <2>1, <3>2
    <3>5. r.rest # <<>> /\ Head(r.rest) = x
      <4> DEFINE S == Message \cup {x}
      <4>1. Tail(down[c]) \in Seq(S) /\ <<x>> \in Seq(S) /\ Len(<<x>>) = 1 /\ <<x>>[1] = x
        BY <1>2
      <4> HIDE DEF S
      <4>2. /\ r.rest \in Seq(S) /\ Len(r.rest) = Len(<<x>>) + Len(Tail(down[c]))
            /\ \A i \in 1 .. Len(<<x>>) + Len(Tail(down[c])) : r.rest[i] =
                  IF i <= Len(<<x>>) THEN <<x>>[i] ELSE Tail(down[c])[i - Len(<<x>>)]
        BY <3>4, <4>1, ConcatProperties
      <4>3. Len(Tail(down[c])) \in Nat
        BY <4>1, LenProperties
      <4>4. Len(r.rest) >= 1 /\ r.rest[1] = x
        BY <4>1, <4>2, <4>3
      <4>5. r.rest # <<>>
        BY <4>2, <4>4, EmptySeq
      <4> QED
        BY <4>2, <4>4, <4>5, HeadTailProperties
    <3> QED
      BY <2>3, <3>1, <3>3, <3>5
  <2> QED
    BY <2>3, <2>4, <2>5
<1> QED
  BY <1>5, <1>6

(* Which steps have nothing to do with the conversation of c.              *)
LEMMA OthersApart ==
  ASSUME FtpInv, NEW c \in Client, NEW d \in Client, c # d,
         ChildStep(d) \/ Accept(d) \/ ClientNext(d) \/ LoseTail(d)
  PROVE  UNCHANGED <<up[c], down[c], lost[c]>>
<1> USE DEF FtpInv, WireOK, UpOK, DownOK
<1>1. CASE ChildStep(d)
  BY <1>1, ZenonT(60) DEF ChildStep, Pwd, Cwd, Quit, List, ListEntry, ListCrash, Retr,
                          RetrMore, RetrEnd,
              RetrFails, Stor, StorData, StorFails, StorIllegal, StorEof, NoFunction, ReadOver,
              LoopEof,
              Request, Take, Answer, Send, wireVars
<1>2. CASE Accept(d) \/ LoseTail(d)
  BY <1>2 DEF Accept, LoseTail, wireVars
<1>3. CASE ClientNext(d)
  BY <1>3, ZenonT(60) DEF ClientNext, Connect, AskQuit, AskPwd, AskCd, AskDir, AskGet, AskPut, Lcd,
              QuitReply, PwdReply, CdReply, DirReply, GetReply, PutReply, DirData, GetData,
              GetFails, PutMore, PutEnd, PutFails, ClientEnds, Ask, Emit, Reply, After,
              wireVars
<1> QED
  BY <1>1, <1>2, <1>3

LEMMA ChildrenApart ==
  ASSUME FtpInv, NEW c \in Client, NEW d \in Client, c # d, ChildStep(d) \/ Accept(d)
  PROVE  UNCHANGED <<child[c], cwd[c], conn, serverUp>>
<1> USE DEF FtpInv, ChildrenOK
<1>1. CASE ChildStep(d)
  BY <1>1, ZenonT(60) DEF ChildStep, Pwd, Cwd, Quit, List, ListEntry, ListCrash, Retr,
                          RetrMore, RetrEnd,
              RetrFails, Stor, StorData, StorFails, StorIllegal, StorEof, NoFunction, ReadOver,
              LoopEof,
              Answer, End, Goto, wireVars
<1>2. CASE Accept(d)
  BY <1>2 DEF Accept, Goto, wireVars
<1> QED
  BY <1>1, <1>2

LEMMA ClientsApart ==
  ASSUME FtpInv, NEW c \in Client, NEW d \in Client, c # d, ClientNext(d)
  PROVE  UNCHANGED <<doing[c], conn[c], serverUp>>
<1> USE DEF FtpInv, WireOK, ClientOK, ClientTypeOK
<1>1. doing \in [Client -> {"off", "prompt", "astray", "ended"} \cup Waiting]
      /\ conn \in [Client -> {"none", "open", "closed"}]
  BY SMTT(30)
<1>2. UNCHANGED doing \/ \E what : Do(d, what)
  BY Zenon DEF ClientNext, Connect, AskQuit, AskPwd, AskCd, AskDir, AskGet, AskPut, Lcd,
         QuitReply, PwdReply, CdReply, DirReply, GetReply, PutReply, DirData, GetData,
         GetFails, PutMore, PutEnd, PutFails, ClientEnds, Ask, Reply, After
<1>3. UNCHANGED conn \/ \E how : conn' = [conn EXCEPT ![d] = how]
  BY ZenonT(60) DEF ClientNext, Connect, AskQuit, AskPwd, AskCd, AskDir, AskGet, AskPut, Lcd,
         QuitReply, PwdReply, CdReply, DirReply, GetReply, PutReply, DirData, GetData,
         GetFails, PutMore, PutEnd, PutFails, ClientEnds, Ask, Emit, wireVars
<1>4. UNCHANGED serverUp
  BY DEF ClientNext, Connect, AskQuit, AskPwd, AskCd, AskDir, AskGet, AskPut, Lcd,
         QuitReply, PwdReply, CdReply, DirReply, GetReply, PutReply, DirData, GetData,
         GetFails, PutMore, PutEnd, PutFails, ClientEnds, Ask, Emit, Reply, After, wireVars
<1> QED
  BY <1>1, <1>2, <1>3, <1>4 DEF Do

(* doing and conn tell the same of a client, and no child survives the     *)
(* server.                                                                 *)
LEMMA JoinedStep ==
  ASSUME FtpInv, NEW c \in Client, Joined(c), [Next]_vars
  PROVE  Joined(c)'
<1> USE DEF FtpInv
<1>1. ASSUME NEW d \in Client, ChildStep(d) \/ Accept(d), UNCHANGED clientVars
      PROVE  Joined(c)'
  <2>1. UNCHANGED <<doing, conn, serverUp>>
    BY <1>1 DEF clientVars, ChildStep, Pwd, Cwd, Quit, List, ListEntry, ListCrash, Retr,
                RetrMore, RetrEnd, RetrFails, Stor, StorData, StorFails, StorIllegal, StorEof,
                NoFunction, ReadOver,
                LoopEof, Answer, Accept, wireVars
  <2>2. CASE c = d
    <3>1. child[c] \in {"none"} \cup Running
      BY <1>1, <2>2 DEF ChildStep, Pwd, Cwd, Quit, List, ListEntry, ListCrash, Retr,
                  RetrMore, RetrEnd, RetrFails, Stor, StorData, StorFails, DataHeard,
                  StorIllegal, StorEof, NoFunction, ReadOver,
                  LoopEof, Accept, Request, Running
    <3>2. serverUp
      BY <3>1 DEF Joined, Running
    <3> QED
      BY <2>1, <3>2 DEF Joined
  <2>3. CASE c # d
    <3>1. child'[c] = child[c]
      BY <1>1, <2>3, ChildrenApart
    <3> QED
      BY <2>1, <3>1 DEF Joined
  <2> QED
    BY <2>2, <2>3
<1>2. CASE (SigChld \/ Wait \/ ServerKilled) /\ UNCHANGED clientVars
  BY <1>2, SMTT(30) DEF SigChld, Wait, ServerKilled, wireVars, clientVars, Joined
<1>3. ASSUME NEW d \in Client, ClientNext(d), UNCHANGED serverVars
      PROVE  Joined(c)'
  <2>1. UNCHANGED <<child, serverUp>>
    BY <1>3, ZenonT(60) DEF serverVars, ClientNext, Connect, AskQuit, AskPwd, AskCd, AskDir, AskGet,
                AskPut, Lcd, QuitReply, PwdReply, CdReply, DirReply, GetReply, PutReply,
                DirData, GetData, GetFails, PutMore, PutEnd, PutFails, ClientEnds, Ask, Emit,
                Reply, After, wireVars
  <2>2. CASE c = d
    <3> USE DEF WireOK, ClientOK, ClientTypeOK, Do
    <3>1. CASE Connect(c)
      BY <2>1, <3>1 DEF Connect, Joined
    <3>2. CASE QuitReply(c)
      BY <2>1, <3>2 DEF QuitReply, Reply, After, Joined
    <3>3. CASE ClientEnds(c)
      BY <2>1, <3>3 DEF ClientEnds, Joined
    <3>4. CASE \/ AskQuit(c) \/ AskPwd(c) \/ AskCd(c) \/ AskDir(c) \/ AskGet(c) \/ AskPut(c)
               \/ Lcd(c) \/ PutMore(c) \/ PutEnd(c) \/ PutFails(c)
      <4>1. /\ UNCHANGED conn /\ doing[c] \notin {"off", "ended"}
            /\ doing' = doing \/ \E what \in Asks \cup {"prompt"} :
                                    doing' = [doing EXCEPT ![c] = what]
        BY <3>4 DEF AskQuit, AskPwd, AskCd, AskDir, AskGet, AskPut, Lcd, PutMore, PutEnd,
                    PutFails, Ask, Emit, wireVars, Asks
      <4> QED
        BY <2>1, <4>1 DEF Joined, Asks
    <3>5. CASE \/ PwdReply(c) \/ CdReply(c) \/ DirReply(c) \/ GetReply(c) \/ PutReply(c)
               \/ DirData(c) \/ GetData(c) \/ GetFails(c)
      <4>1. /\ UNCHANGED conn /\ doing[c] \notin {"off", "ended"}
            /\ \E what \in {"astray", "prompt", "dirData", "getData", "putData"} :
                  doing' = [doing EXCEPT ![c] = what]
        BY <3>5 DEF PwdReply, CdReply, DirReply, GetReply, PutReply, DirData, GetData,
                    GetFails, Reply, After
      <4> QED
        BY <2>1, <4>1 DEF Joined
    <3> QED
      BY <1>3, <2>2, <3>1, <3>2, <3>3, <3>4, <3>5 DEF ClientNext
  <2>3. CASE c # d
    <3>1. UNCHANGED <<doing[c], conn[c]>>
      BY <1>3, <2>3, ClientsApart
    <3> QED
      BY <2>1, <3>1 DEF Joined
  <2> QED
    BY <2>2, <2>3
<1>4. ASSUME NEW d \in Client, LoseTail(d), UNCHANGED <<serverVars, clientVars>>
      PROVE  Joined(c)'
  BY <1>4 DEF LoseTail, serverVars, clientVars, Joined
<1>5. CASE UNCHANGED vars
  BY <1>5 DEF vars, wireVars, serverVars, clientVars, Joined
<1> QED
  BY <1>1, <1>2, <1>3, <1>4, <1>5 DEF Next, ServerStep

(* A step in which nothing happens between c and its child.                *)
LEMMA AgreedKept ==
  ASSUME NEW c \in Client, Agreed(c),
         UNCHANGED <<doing[c], conn[c], up[c], down[c], child[c], cwd[c]>>
  PROVE  Agreed(c)'
<1>1. /\ Fits(doing[c], down[c], cwd[c])'
      /\ Quiet(c) => Quiet(c)'
      /\ Pending(c) => Pending(c)'
      /\ Sending(c) => Sending(c)'
      /\ Storing(c) => Storing(c)'
  <2>1. /\ doing'[c] = doing[c] /\ conn'[c] = conn[c] /\ up'[c] = up[c]
        /\ down'[c] = down[c] /\ child'[c] = child[c] /\ cwd'[c] = cwd[c]
    OBVIOUS
  <2>2. Fits(doing[c], down[c], cwd[c])'
    BY <2>1 DEF Agreed, Fits, OneOf, FlowFrom
  <2> QED
    BY <2>1, <2>2 DEF Quiet, Pending, Sending, Storing
<1> QED
  BY <1>1 DEF Agreed, Together

(* The streams.                                                            *)
LEMMA RequestTaken ==
  ASSUME UpOK, NEW c \in Client, NEW type, Take(c, type), type # "DATA",
         ~Quiet(c), child[c] = "loop", Together(c)
  PROVE  /\ up'[c] = <<>> /\ Pending(c) /\ type = Requests[doing[c]]
         /\ Head(up[c]).type = type /\ down[c] = <<>>
<1>1. Pending(c)
  BY DEF Together, Sending, Ended
<1>2. up[c] \in Seq(ToServer) /\ up[c] # <<>> /\ Head(up[c]).type = type
      /\ up'[c] = Tail(up[c])
  BY DEF UpOK, Take
<1>3. /\ Len(up[c]) \in Nat /\ Len(up[c]) >= 1 /\ Head(up[c]) = up[c][1]
      /\ Len(up[c]) = 1 => Tail(up[c]) = <<>>
  BY <1>2, FirstTaken
<1>4. 1 \in 1 .. Len(up[c])
  BY <1>3
<1>5. up[c][1].type = IF 1 = Len(up[c]) THEN Requests[doing[c]] ELSE "DATA"
  BY <1>1, <1>4 DEF Pending
<1> QED
  BY <1>1, <1>2, <1>3, <1>5 DEF Pending

(* The child takes data: what is left is as it was.                        *)
LEMMA DataTaken ==
  ASSUME UpOK, NEW c \in Client, Take(c, "DATA")
  PROVE  /\ UNCHANGED <<doing[c], down[c]>> /\ child'[c] \in {"loop", "sput"} =>
              /\ Quiet(c) => Quiet(c)'
              /\ Pending(c) => Pending(c)'
<1>1. up[c] \in Seq(ToServer) /\ up[c] # <<>> /\ Head(up[c]).type = "DATA"
      /\ up'[c] = Tail(up[c])
  BY DEF UpOK, Take
<1>2. /\ Len(up[c]) \in Nat /\ Len(up[c]) >= 1 /\ Head(up[c]) = up[c][1]
      /\ Tail(up[c]) \in Seq(ToServer) /\ Len(Tail(up[c])) = Len(up[c]) - 1
      /\ \A i \in 1 .. Len(up[c]) - 1 : Tail(up[c])[i] = up[c][i + 1]
  BY <1>1, FirstTaken
<1> DEFINE s == up[c]
           t == up'[c]
<1>3. /\ Len(s) \in Nat /\ Len(s) >= 1 /\ Len(t) = Len(s) - 1
      /\ \A i \in 1 .. Len(s) - 1 : t[i] = s[i + 1]
      /\ s[1].type = "DATA"
  BY <1>1, <1>2
<1>4. ASSUME UNCHANGED <<doing[c], down[c]>>, child'[c] \in {"loop", "sput"}, Quiet(c)
      PROVE  Quiet(c)'
  <2>1. \A i \in 1 .. Len(s) - 1 : i + 1 \in 1 .. Len(s)
    BY <1>3
  <2>2. \A i \in 1 .. Len(t) : t[i].type = "DATA"
    BY <1>3, <1>4, <2>1 DEF Quiet
  <2> QED
    BY <1>4, <2>2 DEF Quiet
<1>5. ASSUME UNCHANGED <<doing[c], down[c]>>, child'[c] \in {"loop", "sput"}, Pending(c)
      PROVE  Pending(c)'
  <2>1. doing[c] \in Asks /\ down[c] = <<>> /\ \A i \in 1 .. Len(s) :
           s[i].type = IF i = Len(s) THEN Requests[doing[c]] ELSE "DATA"
    BY <1>5 DEF Pending
  <2>2. Len(s) # 1
    <3>1. Len(s) = 1 => s[1].type = Requests[doing[c]]
      BY <1>3, <2>1
    <3> QED
      BY <1>3, <2>1, <3>1 DEF Asks, Requests
  <2>3. t # <<>>
    <3>1. Len(t) # 0
      BY <1>3, <2>2
    <3> QED
      BY <3>1, EmptySeq
  <2>4. \A i \in 1 .. Len(t) : /\ i + 1 \in 1 .. Len(s) /\ t[i] = s[i + 1]
                               /\ i + 1 = Len(s) <=> i = Len(t)
    BY <1>3
  <2>5. \A i \in 1 .. Len(t) :
           t[i].type = IF i = Len(t) THEN Requests[doing[c]] ELSE "DATA"
    BY <2>1, <2>4
  <2> QED
    BY <1>5, <2>1, <2>3, <2>5 DEF Pending
<1> QED
  BY <1>4, <1>5

LEMMA StoringTaken ==
  ASSUME UpOK, NEW c \in Client, Take(c, "DATA"), Storing(c),
         UNCHANGED <<doing[c], down[c]>>,
         child'[c] = "sput" => child[c] = "sput" /\ Head(up[c]).code = 1
  PROVE  Storing(c)'
<1> DEFINE s == up[c]
           t == up'[c]
<1>1. s \in Seq(ToServer) /\ s # <<>> /\ t = Tail(s)
  BY DEF UpOK, Take
<1>2. /\ Len(s) \in Nat /\ Len(s) >= 1 /\ Head(s) = s[1] /\ Len(t) = Len(s) - 1
      /\ \A i \in 1 .. Len(s) - 1 : t[i] = s[i + 1]
  BY <1>1, FirstTaken
<1>3. SUFFICES ASSUME child'[c] = "sput", NEW i \in 1 .. Len(s),
                      s[i].type = "DATA", s[i].code = 0
               PROVE  \E j \in 1 .. Len(t) : t[j].type = "DATA" /\ t[j].code = 0
  BY DEF Storing
<1>4. i # 1
  BY <1>2, <1>3
<1>5. i - 1 \in 1 .. Len(s) - 1 /\ i - 1 \in 1 .. Len(t) /\ (i - 1) + 1 = i
  BY <1>2, <1>4
<1>6. t[i - 1] = s[i]
  BY <1>2, <1>5
<1> QED
  BY <1>3, <1>5, <1>6

(* Nor are there stray bytes.                                              *)
LEMMA NotStray ==
  ASSUME UpOK, NEW c \in Client, Together(c), child[c] \in {"loop", "sput"}, up[c] # <<>>
  PROVE  Head(up[c]).type # "STRAY"
<1> DEFINE s == up[c]
<1>1. Len(s) \in Nat /\ Len(s) >= 1 /\ Head(s) = s[1] /\ 1 \in 1 .. Len(s)
  <2>1. Len(s) \in Nat /\ Len(s) >= 1 /\ Head(s) = s[1]
    BY FirstTaken DEF UpOK
  <2> QED
    BY <2>1
<1>2. Quiet(c) \/ Pending(c)
  BY DEF Together, Sending, Ended
<1>3. CASE Quiet(c)
  BY <1>1, <1>3 DEF Quiet
<1>4. CASE Pending(c)
  <2>1. doing[c] \in Asks /\ s[1].type = IF 1 = Len(s) THEN Requests[doing[c]] ELSE "DATA"
    BY <1>1, <1>4 DEF Pending
  <2> QED
    BY <1>1, <2>1 DEF Asks, Requests
<1> QED
  BY <1>2, <1>3, <1>4

(* In step, no request reaches a child that stores, and nothing is left of *)
(* a name.                                                                 *)
LEMMA NeverIllegal ==
  ASSUME UpOK, NEW c \in Client, Agreed(c), conn[c] # "closed"
  PROVE  ~StorIllegal(c) /\ ~ReadOver(c)
<1> SUFFICES ASSUME child[c] \in {"loop", "sput"}, up[c] # <<>>, Head(up[c]).type # "DATA",
                    child[c] = "loop" => Head(up[c]).type = "STRAY"
             PROVE  FALSE
  BY DEF StorIllegal, ReadOver, Request, Take
<1> DEFINE s == up[c]
<1>1. Len(s) \in Nat /\ Len(s) >= 1 /\ Head(s) = s[1] /\ 1 \in 1 .. Len(s)
  <2>1. Len(s) \in Nat /\ Len(s) >= 1 /\ Head(s) = s[1]
    BY FirstTaken DEF UpOK
  <2> QED
    BY <2>1
<1>2. Together(c) /\ Storing(c)
  BY DEF Agreed
<1>3. Pending(c)
  BY <1>1, <1>2 DEF Together, Quiet, Sending, Ended
<1>4. /\ doing[c] \in Asks /\ down[c] = <<>>
      /\ s[1].type = IF 1 = Len(s) THEN Requests[doing[c]] ELSE "DATA"
  BY <1>1, <1>3 DEF Pending
<1>5. Len(s) = 1 /\ s[1].type = Requests[doing[c]]
  BY <1>1, <1>4
<1>6. child[c] = "sput"
  BY <1>1, <1>4, <1>5 DEF Asks, Requests
<1>7. \A i \in 1 .. Len(s) : s[i].type # "DATA"
  BY <1>1, <1>5
<1> QED
  BY <1>2, <1>4, <1>6, <1>7 DEF Storing, Asks

(* What the child sends when the client can read it.                       *)
LEMMA SentAll ==
  ASSUME DownOK, NEW c \in Client, NEW msgs, Send(c, msgs)
  PROVE  down'[c] = IF conn[c] = "open" THEN down[c] \o msgs ELSE down[c]
BY SMTT(30) DEF DownOK, Send

(* Nothing that the child does reaches a client that is not there.         *)
LEMMA NothingSent ==
  ASSUME FtpInv, NEW c \in Client, ChildStep(c), conn[c] # "open"
  PROVE  down'[c] = down[c]
BY SentAll DEF FtpInv, ChildStep, Pwd, Cwd, Quit, List, ListEntry, ListCrash, Retr, RetrMore,
       RetrEnd, RetrFails, Stor, StorData, StorFails, StorIllegal, StorEof, NoFunction,
       ReadOver, LoopEof, Answer,
       wireVars

(* The steps of a child: what a request makes it do, the rest of a long    *)
(* answer, and what it does unasked.                                       *)
Demand(c) == Pwd(c) \/ Cwd(c) \/ Quit(c) \/ List(c) \/ Retr(c) \/ Stor(c)
Supply(c) == ListEntry(c) \/ ListCrash(c) \/ RetrMore(c) \/ RetrEnd(c) \/ RetrFails(c)
Digest(c) == StorData(c) \/ StorFails(c) \/ StorEof(c) \/ NoFunction(c) \/ LoopEof(c)

(* A child that is asked nothing takes data or ends.                       *)
LEMMA DigestAgreed ==
  ASSUME FtpInv, NEW c \in Client \ Split, Agreed(c), Digest(c), UNCHANGED clientVars
  PROVE  Agreed(c)'
<1> USE DEF FtpInv
<1>1. UNCHANGED <<doing[c], conn[c], down[c], cwd[c]>>
  BY DEF Digest, StorData, StorFails, StorEof, NoFunction, LoopEof, clientVars, wireVars
<1>2. Fits(doing[c], down[c], cwd[c])'
  <2>1. doing'[c] = doing[c] /\ down'[c] = down[c] /\ cwd'[c] = cwd[c]
    BY <1>1
  <2> QED
    BY <2>1 DEF Agreed, Fits, OneOf, FlowFrom
<1>d. ASSUME Together(c), StorData(c) \/ StorFails(c)
      PROVE  Take(c, "DATA") /\ child[c] = "sput"
  BY <1>d, DataWhole, NotStray DEF Take
<1>3. ASSUME Together(c) PROVE Together(c)'
  <2>1. CASE NoFunction(c) \/ LoopEof(c)
    <3>1. child'[c] \in Ended
      BY <2>1 DEF NoFunction, LoopEof, End, Goto, Ended, ChildrenOK
    <3> QED
      BY <3>1 DEF Together
  <2>2. CASE StorEof(c)
    <3>1. child[c] = "sput" /\ up[c] = <<>> /\ up' = up /\ child'[c] = "loop"
      BY <2>2 DEF StorEof, Goto, ChildrenOK, wireVars
    <3>2. Quiet(c)'
      BY <3>1, EmptySeq DEF Quiet
    <3> QED
      BY <3>2 DEF Together
  <2>3. CASE StorData(c) \/ StorFails(c)
    <3>1. Take(c, "DATA") /\ child[c] = "sput"
      BY <1>d, <1>3, <2>3
    <3>2. child'[c] \in {"loop", "sput"}
      BY <2>3, <3>1 DEF StorData, StorFails, Goto, ChildrenOK
    <3>3. Quiet(c) \/ Pending(c)
      BY <1>3, <3>1 DEF Together, Sending, Ended
    <3>4. Quiet(c)' \/ Pending(c)'
      BY <1>1, <3>1, <3>2, <3>3, DataTaken
    <3> QED
      BY <3>4 DEF Together
  <2> QED
    BY <2>1, <2>2, <2>3 DEF Digest
<1>4. ASSUME Together(c), Storing(c) PROVE Storing(c)'
  <2>1. CASE NoFunction(c) \/ LoopEof(c) \/ StorEof(c) \/ StorFails(c)
    <3>1. child'[c] # "sput"
      BY <2>1 DEF NoFunction, LoopEof, StorEof, StorFails, End, Goto, ChildrenOK
    <3> QED
      BY <3>1 DEF Storing
  <2>2. CASE StorData(c)
    <3>1. Take(c, "DATA") /\ child[c] = "sput"
      BY <1>d, <1>4, <2>2
    <3>2. child'[c] = "sput" => Head(up[c]).code = 1
      BY <2>2 DEF StorData, Goto, ChildrenOK
    <3> QED
      BY <1>1, <1>4, <3>1, <3>2, StoringTaken
  <2> QED
    BY <2>1, <2>2 DEF Digest
<1> QED
  BY <1>1, <1>2, <1>3, <1>4 DEF Agreed

(* An answer of one message.                                               *)
LEMMA OneAnswered ==
  ASSUME NEW c \in Client, NEW m, down'[c] = <<m>>, up'[c] = <<>>, doing'[c] = doing[c],
         Fits(doing[c], <<m>>, cwd'[c]),
         child'[c] \in {"loop", "sput"} \cup Ended,
         child'[c] = "sput" => doing[c] = "put" /\ m = DataToServer
  PROVE  Agreed(c)'
<1>1. Fits(doing[c], down[c], cwd[c])'
  OBVIOUS
<1>2. Together(c)'
  BY EmptySeq DEF Together, Quiet, Ended
<1>3. Storing(c)'
  BY DEF Storing
<1> QED
  BY <1>1, <1>2, <1>3 DEF Agreed

(* The request a child takes is the one its client waits for.              *)
LEMMA DemandTaken ==
  ASSUME UpOK, NEW c \in Client, Together(c), Demand(c)
  PROVE  \E type \in {"PWD", "CWD", "QUIT", "LIST", "RETR", "STOR"} :
           /\ Request(c, type) /\ type = Requests[doing[c]]
           /\ Pending(c) /\ Head(up[c]).type = type /\ up'[c] = <<>> /\ down[c] = <<>>
<1>0. ~Request(c, "STRAY")
  BY NotStray DEF Request, Take
<1>1. PICK type \in {"PWD", "CWD", "QUIT", "LIST", "RETR", "STOR"} : Request(c, type)
  BY <1>0 DEF Demand, Pwd, Cwd, Quit, List, Retr, Stor
<1>2. child[c] = "loop" /\ Take(c, type) /\ type # "DATA"
  BY <1>1 DEF Request
<1>3. ~Quiet(c)
  <2>1. up[c] \in Seq(ToServer) /\ up[c] # <<>> /\ Head(up[c]).type = type
    BY <1>2 DEF UpOK, Take
  <2>2. Len(up[c]) \in Nat /\ Len(up[c]) >= 1 /\ Head(up[c]) = up[c][1]
    BY <2>1, FirstTaken
  <2>3. 1 \in 1 .. Len(up[c])
    BY <2>2
  <2> QED
    BY <1>2, <2>1, <2>2, <2>3 DEF Quiet
<1>4. /\ up'[c] = <<>> /\ Pending(c) /\ type = Requests[doing[c]]
      /\ Head(up[c]).type = type /\ down[c] = <<>>
  BY <1>2, <1>3, RequestTaken
<1> QED
  BY <1>1, <1>4

(* A request is answered, or its answer begins.                            *)
LEMMA DemandAgreed ==
  ASSUME FtpInv, NEW c \in Client, Agreed(c), conn[c] = "open", Demand(c),
         UNCHANGED clientVars, ~lost'[c]
  PROVE  Agreed(c)'
<1> USE DEF FtpInv
<1>1. PICK type \in {"PWD", "CWD", "QUIT", "LIST", "RETR", "STOR"} :
         /\ Request(c, type) /\ type = Requests[doing[c]]
         /\ Pending(c) /\ Head(up[c]).type = type /\ up'[c] = <<>> /\ down[c] = <<>>
  BY DemandTaken DEF Agreed
<1>2. Together(c) /\ child[c] = "loop" /\ Take(c, type)
  BY <1>1 DEF Agreed, Request
<1>4. /\ up'[c] = <<>> /\ Pending(c) /\ type = Requests[doing[c]]
      /\ Head(up[c]).type = type /\ down[c] = <<>>
  BY <1>1
<1>5. doing'[c] = doing[c] /\ doing[c] \in Asks /\ up[c] # <<>>
  BY <1>4 DEF clientVars, Pending
<1>6. ASSUME NEW msgs \in Seq(Message), Send(c, msgs) PROVE down'[c] = msgs
  <2>1. down'[c] = <<>> \o msgs
    BY <1>4, <1>6, SentAll
  <2> QED
    BY <2>1, ConcatEmptySeq
<1>7. \A t : Take(c, t) => t = type
  BY <1>4 DEF Take
<1>8. {DataEnd, Done, DataToClient, DataToServer, NotFound, Denied, Unknown} \subseteq Message
  BY RepliesTyped
<1>9. ASSUME NEW m \in Message, Send(c, <<m>>), Fits(doing[c], <<m>>, cwd'[c]),
             child'[c] \in {"loop", "sput"} \cup Ended,
             child'[c] = "sput" => doing[c] = "put" /\ m = DataToServer
      PROVE  Agreed(c)'
  <2>1. down'[c] = <<m>>
    <3>1. <<m>> \in Seq(Message)
      OBVIOUS
    <3> QED
      BY <1>6, <1>9, <3>1
  <2> QED
    BY <1>4, <1>5, <1>9, <2>1, OneAnswered
<1>10. CASE Pwd(c)
  <2>1. type = "PWD" /\ doing[c] = "pwd"
    BY <1>4, <1>5, <1>7, <1>10 DEF Pwd, Request, Requests, Asks
  <2> DEFINE m == [Named("CMD", cwd[c]) EXCEPT !.data = Line]
  <2>2. m \in Message /\ m.type = "CMD" /\ m.arg = cwd[c]
    BY NamedTyped DEF ChildrenOK, Named, Msg
  <2>3. Send(c, <<m>>) /\ UNCHANGED <<child, cwd>>
    BY <1>10 DEF Pwd, Answer
  <2> HIDE DEF m
  <2>4. m \in Shown(cwd'[c])
    BY <2>2, <2>3 DEF Shown
  <2>5. Fits(doing[c], <<m>>, cwd'[c])
    BY <2>1, <2>4, FitsOne
  <2> QED
    BY <1>2, <1>9, <2>2, <2>3, <2>5
<1>11. CASE Cwd(c)
  <2>1. type = "CWD" /\ doing[c] = "cd"
    BY <1>4, <1>5, <1>7, <1>11 DEF Cwd, Request, Requests, Asks
  <2>2. child' = child
    BY <1>11 DEF Cwd, Answer
  <2>3. CASE \E m \in {Done, Denied, NotFound} : Send(c, <<m>>)
    <3>1. PICK m \in {Done, Denied, NotFound} : Send(c, <<m>>)
      BY <2>3
    <3>2. Fits(doing[c], <<m>>, cwd'[c])
      BY <2>1, FitsOne
    <3> QED
      BY <1>2, <1>8, <1>9, <2>2, <3>1, <3>2
  <2>4. CASE Send(c, <<>>)
    <3>1. down'[c] = <<>>
      BY <1>6, <2>4, EmptySeq
    <3>2. Fits(doing'[c], down'[c], cwd'[c])
      BY <1>5, <2>1, <3>1, FitsNothing
    <3>3. Quiet(c)'
      BY <1>2, <1>4, <2>2, EmptySeq DEF Quiet
    <3> QED
      BY <1>2, <2>2, <3>2, <3>3 DEF Agreed, Together, Storing
  <2>5. (\E m \in {Done, Denied, NotFound} : Send(c, <<m>>)) \/ Send(c, <<>>)
    BY <1>11 DEF Cwd, Answer, ChdirErrors
  <2> QED
    BY <2>3, <2>4, <2>5
<1>12. CASE Quit(c)
  <2>1. type = "QUIT" /\ doing[c] = "quit"
    BY <1>4, <1>5, <1>7, <1>12 DEF Quit, Request, Requests, Asks
  <2>2. Send(c, <<Done>>) /\ child'[c] \in Ended
    BY <1>12 DEF Quit, End, Goto, Ended, ChildrenOK
  <2>3. Fits(doing[c], <<Done>>, cwd'[c])
    BY <2>1, FitsOne
  <2> QED
    BY <1>8, <1>9, <2>2, <2>3 DEF Ended
<1>13. CASE Stor(c)
  <2>1. type = "STOR" /\ doing[c] = "put"
    BY <1>4, <1>5, <1>7, <1>13 DEF Stor, Request, Requests, Asks
  <2>2. PICK m \in {DataToServer, Denied, Unknown} :
           Send(c, <<m>>) /\ (child'[c] = "sput" => m = DataToServer)
    BY <1>2, <1>13 DEF Stor, Answer
  <2>3. child'[c] \in {"loop", "sput"}
    BY <1>2, <1>13 DEF Stor, Answer, Goto, ChildrenOK
  <2>4. Fits(doing[c], <<m>>, cwd'[c])
    BY <2>1, <2>2, FitsOne
  <2> QED
    BY <1>8, <1>9, <2>1, <2>2, <2>3, <2>4
<1>14. CASE List(c)
  <2>1. type = "LIST" /\ doing[c] = "dir"
    BY <1>4, <1>5, <1>7, <1>14 DEF List, Request, Requests, Asks
  <2>2. CASE /\ Send(c, <<DataToClient>>)
             /\ Goto(c, "list") \/ (HasPath(c) /\ Goto(c, "listFile"))
    <3>1. down'[c] = <<DataToClient>> /\ child'[c] \in {"list", "listFile"}
      <4>1. <<DataToClient>> \in Seq(Message)
        BY <1>8
      <4>2. down'[c] = <<DataToClient>>
        BY <1>6, <2>2, <4>1
      <4> QED
        BY <2>2, <4>2 DEF Goto, ChildrenOK
    <3>2. Fits(doing'[c], down'[c], cwd'[c])
      BY <1>5, <2>1, <3>1, FitsOne
    <3>3. Len(down'[c]) = 1 /\ down'[c] # <<>> /\ down'[c][1] = DataToClient
      BY <3>1
    <3>4. DataToClient.type # "DATA"
      BY DEF DataToClient, Msg
    <3>5. \A i \in 1 .. Len(down'[c]) : down'[c][i].type = "DATA" => down'[c][i].code = 1
      BY <3>3, <3>4
    <3>6. Sending(c)'
      BY <1>4, <1>5, <2>1, <3>1, <3>3, <3>5 DEF Sending
    <3> QED
      BY <3>1, <3>2, <3>6 DEF Agreed, Together, Storing
  <2>3. CASE \E e \in ListErrors : Answer(c, <<e>>)
    <3>1. PICK e \in ListErrors : Answer(c, <<e>>)
      BY <2>3
    <3>2. Fits(doing[c], <<e>>, cwd'[c])
      BY <2>1, FitsOne DEF ListErrors
    <3> QED
      BY <1>2, <1>8, <1>9, <3>1, <3>2 DEF Answer, ListErrors
  <2>4. CASE lost' = [lost EXCEPT ![c] = TRUE]
    BY <2>4 DEF WireOK
  <2> QED
    BY <1>14, <2>2, <2>3, <2>4 DEF List
<1>15. CASE Retr(c)
  <2>1. type = "RETR" /\ doing[c] = "get"
    BY <1>4, <1>5, <1>7, <1>15 DEF Retr, Request, Requests, Asks
  <2> DEFINE p == OpenFile(c)
             piece == Piece(files[p], 0)
  <2>2. CASE files[p] # NoFile /\ Send(c, <<DataToClient, Data(piece)>>) /\ Goto(c, "sget")
    <3>1. p \in Path
      BY <1>15, OpenFileTyped DEF Retr
    <3>2. files[p] \in Text /\ Len(files[p]) \in Nat
      BY <2>2, <3>1, LenProperties DEF ChildrenOK, Text
    <3>3. piece \in Text
      <4> HIDE DEF p
      <4>1. 0 \in Nat /\ 0 <= Len(files[p])
        BY <3>2
      <4> QED
        BY <3>2, <4>1, PieceFacts
    <3> HIDE DEF p, piece
    <3> DEFINE m == Data(piece)
    <3>4. m \in Message /\ m.type = "DATA" /\ m.code = 1
      <4>1. m.type = "DATA" /\ m.code = 1
        BY DEF Data, Msg
      <4> QED
        BY <3>3, <4>1, DataTyped
    <3> HIDE DEF m
    <3>5. down'[c] = <<DataToClient, m>> /\ child'[c] = "sget"
      <4>1. <<DataToClient, m>> \in Seq(Message)
        BY <1>8, <3>4
      <4>2. Send(c, <<DataToClient, m>>)
        BY <2>2 DEF m
      <4> QED
        BY <1>6, <2>2, <4>1, <4>2 DEF Goto, ChildrenOK
    <3> DEFINE s == down'[c]
    <3>6. s # <<>> /\ Len(s) = 2 /\ s[1] = DataToClient /\ s[2] = m
      BY <3>5
    <3> HIDE DEF s
    <3>7. FlowFrom(s, 2)
      BY <3>4, <3>6 DEF FlowFrom
    <3>8. Fits(doing'[c], s, cwd'[c])
      BY <1>5, <2>1, <3>6, <3>7 DEF Fits
    <3>9. \A i \in 1 .. Len(s) : s[i].type = "DATA" => s[i].code = 1
      <4>1. DataToClient.type # "DATA"
        BY DEF DataToClient, Msg
      <4> QED
        BY <3>4, <3>6, <4>1
    <3>10. Sending(c)'
      BY <1>4, <1>5, <2>1, <3>5, <3>6, <3>9 DEF Sending, s
    <3> QED
      BY <3>5, <3>8, <3>10 DEF Agreed, Together, Storing, s
  <2>3. CASE \E e \in {NotFound, Denied, Unknown} : Answer(c, <<e>>)
    <3>1. PICK e \in {NotFound, Denied, Unknown} : Answer(c, <<e>>)
      BY <2>3
    <3>2. Fits(doing[c], <<e>>, cwd'[c])
      BY <2>1, <3>1, FitsOne
    <3> QED
      BY <1>2, <1>8, <1>9, <3>1, <3>2 DEF Answer
  <2> QED
    BY <1>15, <2>2, <2>3 DEF Retr, Refusal
<1> QED
  BY <1>10, <1>11, <1>12, <1>13, <1>14, <1>15 DEF Demand

(* More of an answer, or its end.                                          *)
LEMMA SupplyAgreed ==
  ASSUME FtpInv, NEW c \in Client, Agreed(c), conn[c] = "open", Supply(c),
         UNCHANGED clientVars
  PROVE  Agreed(c)'
<1> USE DEF FtpInv
<1>1. child[c] \in {"list", "listFile", "sget"}
  BY DEF Supply, ListEntry, ListCrash, RetrMore, RetrEnd, RetrFails
<1>2. Sending(c) /\ Fits(doing[c], down[c], cwd[c])
  BY <1>1 DEF Agreed, Together, Quiet, Pending, Ended
<1>3. UNCHANGED <<doing[c], cwd[c], up[c]>>
  BY DEF Supply, ListEntry, ListCrash, RetrMore, RetrEnd, RetrFails, clientVars, wireVars
<1>4. CASE ListCrash(c)
  <2>1. child'[c] \in Ended /\ down'[c] = down[c]
    BY <1>4 DEF ListCrash, End, Goto, Ended, ChildrenOK, wireVars
  <2>2. Fits(doing[c], down[c], cwd[c])'
    <3>1. doing'[c] = doing[c] /\ down'[c] = down[c] /\ cwd'[c] = cwd[c]
      BY <1>3, <2>1
    <3> QED
      BY <1>2, <3>1 DEF Fits, OneOf, FlowFrom
  <2> QED
    BY <2>1, <2>2 DEF Agreed, Together, Storing, Ended
<1>5. ASSUME NEW m \in Message, m.type = "DATA", Send(c, <<m>>),
             \/ m.code = 1 /\ child'[c] = child[c]
             \/ child'[c] = "loop"
      PROVE  Agreed(c)'
  <2> DEFINE s == down[c]
             t == down[c] \o <<m>>
  <2>1. down'[c] = t
    BY <1>5, SentAll
  <2>2. /\ doing[c] \in {"dir", "dirData", "get", "getData"}
        /\ doing[c] \in Asks => s # <<>> /\ s[1] = DataToClient
        /\ \A i \in 1 .. Len(s) : s[i].type = "DATA" => s[i].code = 1
        /\ s \in Seq(Message)
    BY <1>2 DEF Sending, DownOK
  <2>3. /\ Fits(doing[c], t, cwd[c])
        /\ doing[c] \in Asks => t # <<>> /\ t[1] = DataToClient
        /\ m.code = 1 => \A i \in 1 .. Len(t) : t[i].type = "DATA" => t[i].code = 1
    BY <1>2, <1>5, <2>2, FitsMore
  <2> HIDE DEF t
  <2>4. Fits(doing'[c], down'[c], cwd'[c])
    BY <1>3, <2>1, <2>3
  <2>5. up'[c] = <<>> /\ doing'[c] = doing[c]
    BY <1>2, <1>3 DEF Sending
  <2>6. CASE m.code = 1 /\ child'[c] = child[c]
    <3>1. Sending(c)'
      BY <1>2, <2>1, <2>3, <2>5, <2>6 DEF Sending
    <3> QED
      BY <1>1, <2>4, <2>6, <3>1 DEF Agreed, Together, Storing
  <2>7. CASE child'[c] = "loop"
    <3>1. Quiet(c)'
      BY <2>5, <2>7, EmptySeq DEF Quiet
    <3> QED
      BY <2>4, <2>7, <3>1 DEF Agreed, Together, Storing
  <2> QED
    BY <1>5, <2>6, <2>7
<1>6. \A x \in Text : Data(x) \in Message /\ Data(x).type = "DATA" /\ Data(x).code = 1
  <2>1. \A x \in Text : Data(x).type = "DATA" /\ Data(x).code = 1
    BY DEF Data, Msg
  <2> QED
    BY <2>1, DataTyped
<1>7. DataEnd \in Message /\ DataEnd.type = "DATA"
  BY RepliesTyped DEF DataEnd, Msg
<1>8. CASE ListEntry(c)
  <2>1. Line \in Text
    BY TextFacts
  <2>2. \/ Send(c, <<Data(Line)>>) /\ child' = child
        \/ Send(c, <<DataEnd>>) /\ child'[c] = "loop"
    BY <1>8 DEF ListEntry, Goto, ChildrenOK
  <2> QED
    BY <1>5, <1>6, <1>7, <2>1, <2>2
<1>9. CASE RetrMore(c)
  <2>1. /\ path[c] \in Path /\ files[path[c]] \in Text
        /\ pos[c] \in Nat /\ pos[c] <= Len(files[path[c]])
    BY <1>9 DEF RetrMore, ChildrenOK, FileInv
  <2>2. NextPiece(c) \in Text
    BY <2>1, PieceFacts DEF NextPiece
  <2>3. Send(c, <<Data(NextPiece(c))>>) /\ child' = child
    BY <1>9 DEF RetrMore
  <2> QED
    BY <1>5, <1>6, <2>2, <2>3
<1>10. CASE RetrEnd(c) \/ RetrFails(c)
  <2>1. Send(c, <<DataEnd>>) /\ child'[c] = "loop"
    BY <1>10 DEF RetrEnd, RetrFails, Goto, ChildrenOK
  <2> QED
    BY <1>5, <1>7, <2>1
<1> QED
  BY <1>4, <1>8, <1>9, <1>10 DEF Supply

LEMMA ChildAgreed ==
  ASSUME FtpInv, NEW c \in Client \ Split, Joined(c), Agreed(c), ChildStep(c), ~lost'[c],
         UNCHANGED clientVars
  PROVE  Agreed(c)'
<1> USE DEF FtpInv
<1>1. conn[c] # "closed" => Demand(c) \/ Supply(c) \/ Digest(c)
  BY NeverIllegal DEF ChildStep, Demand, Supply, Digest
<1>2. conn' = conn /\ doing' = doing
  BY ZenonT(60) DEF clientVars, ChildStep, Pwd, Cwd, Quit, List, ListEntry, ListCrash, Retr,
         RetrMore, RetrEnd, RetrFails, Stor, StorData, StorFails, StorIllegal, StorEof,
         NoFunction, ReadOver,
         LoopEof, Answer, wireVars
<1>3. CASE conn[c] = "open"
  BY <1>1, <1>3, DemandAgreed, SupplyAgreed, DigestAgreed
<1>4. CASE conn[c] = "closed"
  <2>1. doing[c] = "ended" /\ down[c] = <<>>
    BY <1>4 DEF Joined, Agreed, Fits
  <2>2. down'[c] = <<>>
    BY <1>4, <2>1, NothingSent
  <2>3. Fits(doing'[c], down'[c], cwd'[c])
    BY <1>2, <2>1, <2>2, FitsNothing
  <2> QED
    BY <1>2, <1>4, <2>3 DEF Agreed
<1>5. CASE conn[c] = "none"
  <2>1. doing[c] = "off" /\ Together(c) /\ ~Pending(c) /\ ~Sending(c)
    BY <1>5 DEF Joined, Agreed, Pending, Sending, Asks
  <2>2. child[c] \notin Ended
    BY DEF ChildStep, Pwd, Cwd, Quit, List, ListEntry, ListCrash, Retr, RetrMore, RetrEnd,
           RetrFails, Stor, StorData, StorFails, DataHeard, StorIllegal, StorEof, NoFunction,
           ReadOver, LoopEof, Request, Ended
  <2>3. Quiet(c)
    BY <2>1, <2>2 DEF Together
  <2>4. ~Supply(c)
    BY <2>3 DEF Quiet, Supply, ListEntry, ListCrash, RetrMore, RetrEnd, RetrFails
  <2>5. ~Demand(c)
    <3> SUFFICES ASSUME Demand(c) PROVE FALSE
      OBVIOUS
    <3>1. PICK type \in {"PWD", "CWD", "QUIT", "LIST", "RETR", "STOR", "STRAY"} : Request(c, type)
      BY DEF Demand, Pwd, Cwd, Quit, List, Retr, Stor
    <3>2. up[c] \in Seq(ToServer) /\ up[c] # <<>> /\ Head(up[c]).type = type
      BY <3>1 DEF UpOK, Take, Request
    <3>3. Len(up[c]) \in Nat /\ Len(up[c]) >= 1 /\ Head(up[c]) = up[c][1]
      BY <3>2, FirstTaken
    <3>4. 1 \in 1 .. Len(up[c])
      BY <3>3
    <3> QED
      BY <2>3, <3>1, <3>2, <3>3, <3>4 DEF Quiet
  <2> QED
    BY <1>1, <1>5, <2>4, <2>5, DigestAgreed
<1> QED
  BY <1>3, <1>4, <1>5 DEF WireOK

(* The client sends.                                                       *)
LEMMA Emitted ==
  ASSUME UpOK, NEW c \in Client, Joined(c), Quiet(c), NEW m \in ToServer,
         up' = IF serverUp THEN [up EXCEPT ![c] = Append(@, m)] ELSE up
  PROVE  /\ Len(up[c]) \in Nat /\ Len(up'[c]) = Len(up[c]) + 1 /\ up'[c] # <<>>
         /\ \A i \in 1 .. Len(up[c]) : up'[c][i] = up[c][i] /\ up'[c][i].type = "DATA"
         /\ up'[c][Len(up[c]) + 1] = m
<1>1. serverUp
  BY DEF Joined, Quiet
<1>2. up[c] \in Seq(ToServer) /\ up'[c] = Append(up[c], m)
  BY <1>1 DEF UpOK
<1>3. Len(up[c]) \in Nat
  BY <1>2, LenProperties
<1> QED
  BY <1>2, <1>3, AppendProperties DEF Quiet

LEMMA AskAgreed ==
  ASSUME FtpInv, NEW c \in Client, Joined(c), Agreed(c), NEW what \in Asks, NEW m \in ToServer,
         m.type = Requests[what], Ask(c, m, what), UNCHANGED serverVars
  PROVE  Agreed(c)'
<1> USE DEF FtpInv
<1>1. /\ doing[c] = "prompt" /\ down[c] = <<>> /\ conn[c] = "open"
      /\ Quiet(c) \/ child[c] \in Ended
  BY DEF Ask, Agreed, Together, Pending, Sending, Fits, Asks, Joined, WireOK
<1>2. /\ doing'[c] = what /\ down'[c] = <<>> /\ child'[c] = child[c]
      /\ up' = IF serverUp THEN [up EXCEPT ![c] = Append(@, m)] ELSE up
  BY <1>1 DEF Ask, Emit, Do, ClientOK, ClientTypeOK, serverVars
<1>3. Fits(doing'[c], down'[c], cwd'[c])
  BY <1>2, FitsNothing DEF Asks
<1>4. ASSUME Quiet(c) PROVE Pending(c)'
  <2> DEFINE n == Len(up[c])
  <2>1. /\ n \in Nat /\ Len(up'[c]) = n + 1 /\ up'[c] # <<>>
        /\ \A i \in 1 .. n : up'[c][i].type = "DATA"
        /\ up'[c][n + 1] = m
    BY <1>2, <1>4, Emitted
  <2> HIDE DEF n
  <2>2. \A i \in 1 .. n + 1 : i = n + 1 \/ i \in 1 .. n
    BY <2>1
  <2>3. \A i \in 1 .. n : i # n + 1
    BY <2>1
  <2>4. \A i \in 1 .. Len(up'[c]) :
           up'[c][i].type = IF i = Len(up'[c]) THEN Requests[what] ELSE "DATA"
    BY <2>1, <2>2, <2>3
  <2> QED
    BY <1>2, <1>4, <2>1, <2>4 DEF Pending, Quiet
<1>5. Storing(c)'
  <2> SUFFICES ASSUME child'[c] = "sput"
               PROVE  \E i \in 1 .. Len(up'[c]) : up'[c][i].type = "DATA" /\ up'[c][i].code = 0
    BY DEF Storing
  <2>1. Quiet(c) /\ child[c] = "sput"
    BY <1>1, <1>2 DEF Ended
  <2>2. PICK i \in 1 .. Len(up[c]) : up[c][i].type = "DATA" /\ up[c][i].code = 0
    BY <1>1, <2>1 DEF Agreed, Storing
  <2>3. /\ Len(up[c]) \in Nat /\ Len(up'[c]) = Len(up[c]) + 1 /\ up'[c][i] = up[c][i]
    BY <1>2, <2>1, Emitted
  <2>4. i \in 1 .. Len(up'[c])
    BY <2>3
  <2> QED
    BY <2>2, <2>3, <2>4
<1> QED
  BY <1>1, <1>2, <1>3, <1>4, <1>5 DEF Agreed, Together

LEMMA AsksAgreed ==
  ASSUME FtpInv, NEW c \in Client, Joined(c), Agreed(c), UNCHANGED serverVars,
         AskQuit(c) \/ AskPwd(c) \/ AskCd(c) \/ AskDir(c) \/ AskGet(c) \/ AskPut(c)
  PROVE  Agreed(c)'
<1>1. /\ Msg("QUIT", 0) \in ToServer /\ Msg("QUIT", 0).type = "QUIT"
      /\ Msg("PWD", 0) \in ToServer /\ Msg("PWD", 0).type = "PWD"
  BY MsgTyped DEF Msg
<1>2. \A type, arg : Named(type, arg).type = type
  BY DEF Named, Msg
<1>3. CASE AskQuit(c) \/ AskPwd(c)
  BY <1>1, <1>3, AskAgreed DEF AskQuit, AskPwd, Asks, Requests
<1>4. CASE AskCd(c)
  BY <1>2, <1>4, AskAgreed, NamedTyped DEF AskCd, Asks, Requests
<1>5. CASE AskDir(c)
  BY <1>2, <1>5, AskAgreed, NamedTyped DEF AskDir, Asks, Requests
<1>6. CASE AskGet(c)
  <2>1. PICK from \in Typed : Ask(c, Named("RETR", from), "get")
    BY <1>6 DEF AskGet
  <2>2. from \in Arg
    BY ClientAssumption
  <2> QED
    BY <1>2, <2>1, <2>2, AskAgreed, NamedTyped DEF Asks, Requests
<1>7. CASE AskPut(c)
  <2>1. PICK from \in Typed : \E to \in Typed \cup {ExtractFilename(from)} :
          Ask(c, Named("STOR", to), "put")
    BY <1>7 DEF AskPut
  <2>2. PICK to \in Typed \cup {ExtractFilename(from)} : Ask(c, Named("STOR", to), "put")
    BY <2>1
  <2>3. to \in Arg
    BY <2>1, ArgTyped, ClientAssumption
  <2> QED
    BY <1>2, <2>2, <2>3, AskAgreed, NamedTyped DEF Asks, Requests
<1> QED
  BY <1>3, <1>4, <1>5, <1>6, <1>7

LEMMA PutAgreed ==
  ASSUME FtpInv, NEW c \in Client, Joined(c), Agreed(c), UNCHANGED serverVars,
         PutMore(c) \/ PutEnd(c) \/ PutFails(c)
  PROVE  Agreed(c)'
<1> USE DEF FtpInv
<1>1. /\ doing[c] = "putData" /\ down[c] = <<>> /\ conn[c] = "open"
      /\ Quiet(c) \/ child[c] \in Ended
  BY DEF PutMore, PutEnd, PutFails, Agreed, Together, Pending, Sending, Fits, Asks, Joined,
         WireOK
<1>2. doing'[c] \in {"prompt", "putData"} /\ down'[c] = <<>> /\ child'[c] = child[c]
  BY <1>1 DEF PutMore, PutEnd, PutFails, Emit, Do, ClientOK, ClientTypeOK, serverVars
<1>3. PICK m \in ToServer : /\ m.type = "DATA" /\ (doing'[c] = "putData" \/ m.code = 0)
                            /\ up' = IF serverUp THEN [up EXCEPT ![c] = Append(@, m)] ELSE up
  <2>1. DataEnd \in ToServer /\ DataEnd.type = "DATA" /\ DataEnd.code = 0
    BY RepliesTyped DEF DataEnd, Msg
  <2>2. CASE PutMore(c)
    <3>1. local[c][lpath[c]] \in Text /\ lpos[c] \in Nat /\ lpos[c] <= Len(local[c][lpath[c]])
      BY <1>1 DEF ClientOK, ClientTypeOK, LocalInv
    <3>2. PutPiece(c) \in Text
      BY <3>1, PieceFacts DEF PutPiece
    <3>3. Data(PutPiece(c)) \in ToServer
      BY <3>2, DataTyped
    <3>4. Data(PutPiece(c)).type = "DATA"
      BY DEF Data, Msg
    <3> QED
      BY <1>1, <2>2, <3>3, <3>4 DEF PutMore, Emit
  <2>3. CASE PutEnd(c) \/ PutFails(c)
    BY <2>1, <2>3 DEF PutEnd, PutFails, Emit
  <2> QED
    BY <2>2, <2>3
<1>4. Fits(doing'[c], down'[c], cwd'[c])
  BY <1>2, FitsNothing
<1>5. ASSUME Quiet(c) PROVE Quiet(c)'
  <2> DEFINE n == Len(up[c])
  <2>1. /\ n \in Nat /\ Len(up'[c]) = n + 1
        /\ \A i \in 1 .. n : up'[c][i].type = "DATA"
        /\ up'[c][n + 1] = m
    BY <1>3, <1>5, Emitted
  <2> HIDE DEF n
  <2>2. \A i \in 1 .. n + 1 : i = n + 1 \/ i \in 1 .. n
    BY <2>1
  <2> QED
    BY <1>2, <1>3, <1>5, <2>1, <2>2 DEF Quiet
<1>6. Storing(c)'
  <2> SUFFICES ASSUME child'[c] = "sput", doing'[c] # "putData"
               PROVE  \E i \in 1 .. Len(up'[c]) : up'[c][i].type = "DATA" /\ up'[c][i].code = 0
    BY DEF Storing
  <2>1. Quiet(c)
    BY <1>1, <1>2 DEF Ended
  <2>2. Len(up[c]) \in Nat /\ Len(up'[c]) = Len(up[c]) + 1 /\ up'[c][Len(up[c]) + 1] = m
    BY <1>3, <2>1, Emitted
  <2>3. Len(up[c]) + 1 \in 1 .. Len(up'[c])
    BY <2>2
  <2> QED
    BY <1>3, <2>2, <2>3
<1> QED
  BY <1>1, <1>2, <1>4, <1>5, <1>6 DEF Agreed, Together

(* The client reads a header, of an answer without data, or a message.     *)
LEMMA ReadAgreed ==
  ASSUME FtpInv, NEW c \in Client, Joined(c), Agreed(c), conn[c] = "open",
         UNCHANGED serverVars,
         NEW r \in HeaderOf(c) \cup MessageOf(c), NEW next, next # "astray", next \notin Asks,
         r.msg.type # "STRAY", After(c, r, next),
         down[c] # <<>> =>
           /\ r.rest = Tail(down[c])
           /\ Fits(next, Tail(down[c]), cwd[c])
           /\ Sending(c) => \/ doing[c] \in {"dir", "dirData"} /\ next = "dirData"
                            \/ doing[c] \in {"get", "getData"} /\ next = "getData"
           /\ doing[c] = "put" /\ Head(down[c]) = DataToServer => next = "putData"
  PROVE  Agreed(c)' /\ doing'[c] = next
<1> USE DEF FtpInv
<1>1. /\ doing'[c] = next /\ down'[c] = r.rest /\ up' = up
      /\ child'[c] = child[c] /\ cwd'[c] = cwd[c]
  BY DEF After, Do, ClientOK, ClientTypeOK, DownOK, serverVars
<1>2. CASE down[c] = <<>>
  <2>1. down'[c] = <<>> /\ child'[c] \in Ended
    BY <1>1, <1>2, WholeTaken DEF Joined, Ended
  <2>2. Fits(doing'[c], down'[c], cwd'[c])
    BY <1>1, <2>1, FitsNothing
  <2> QED
    BY <1>1, <2>1, <2>2 DEF Agreed, Together, Storing, Ended
<1>3. CASE down[c] # <<>>
  <2>1. Fits(doing'[c], down'[c], cwd'[c])
    BY <1>1, <1>3
  <2>s. Storing(c)'
    <3>1. Storing(c) /\ doing[c] # "putData"
      BY <1>3 DEF Agreed, Fits
    <3>2. Head(down[c]) = down[c][1]
      BY <1>3, FirstTaken DEF DownOK
    <3> QED
      BY <1>1, <1>3, <3>1, <3>2 DEF Storing
  <2>2. Together(c) /\ ~Pending(c)
    BY <1>3 DEF Agreed, Pending
  <2>3. CASE Quiet(c) \/ child[c] \in Ended
    BY <1>1, <2>1, <2>s, <2>3 DEF Agreed, Together, Quiet
  <2>4. CASE Sending(c)
    <3> DEFINE s == down[c]
               t == Tail(down[c])
    <3>1. /\ Len(s) \in Nat /\ Len(t) = Len(s) - 1
          /\ \A i \in 1 .. Len(s) - 1 : t[i] = s[i + 1]
      BY <1>3, FirstTaken DEF DownOK
    <3>2. down'[c] = t /\ \A i \in 1 .. Len(s) : s[i].type = "DATA" => s[i].code = 1
      BY <1>1, <1>3, <2>4 DEF Sending
    <3> HIDE DEF s, t
    <3>3. \A i \in 1 .. Len(s) - 1 : i + 1 \in 1 .. Len(s)
      BY <3>1
    <3>4. \A i \in 1 .. Len(t) : t[i].type = "DATA" => t[i].code = 1
      BY <3>1, <3>2, <3>3
    <3>5. Sending(c)'
      BY <1>1, <1>3, <2>4, <3>2, <3>4 DEF Sending
    <3> QED
      BY <1>1, <2>1, <2>s, <3>5 DEF Agreed, Together
  <2> QED
    BY <1>1, <2>2, <2>3, <2>4 DEF Together
<1> QED
  BY <1>1, <1>2, <1>3

(* Answers carry no data, except to pwd.                                   *)
LEMMA AnswersPlain ==
  /\ \A m \in {Done, DataToClient, DataToServer, NotFound, Denied, Unknown} :
        m.data = <<>> /\ m.type # "STRAY" /\ m.type # "DATA"
  /\ Eof.type = "EOF" /\ ~ErrCheck(Eof) /\ ~Lasts(Eof)
  /\ \A m \in {Done, DataToClient, DataToServer} : ~ErrCheck(m)
BY DEF Done, DataToClient, DataToServer, NotFound, Denied, Unknown, Eof, Msg, ErrCheck, Lasts

(* A client that waits for an answer or for data.                          *)
LEMMA WaitingFacts ==
  ASSUME FtpInv, NEW c \in Client, Joined(c), Agreed(c), doing[c] \in Waiting
  PROVE  /\ conn[c] = "open" /\ Fits(doing[c], down[c], cwd[c])
         /\ down[c] \in Seq(Message) /\ cwd[c] \in Dir
         /\ Sending(c) => \/ doing[c] \in {"dir", "get"} /\ down[c] # <<>>
                             /\ Head(down[c]) = DataToClient
                          \/ /\ doing[c] \in {"dirData", "getData"}
                             /\ down[c] # <<>> /\ Head(down[c]).type = "DATA" =>
                                  Head(down[c]).code = 1
<1> USE DEF FtpInv
<1>1. conn[c] = "open" /\ Fits(doing[c], down[c], cwd[c])
  BY DEF Joined, Agreed, WireOK, Waiting
<1>2. down[c] \in Seq(Message) /\ cwd[c] \in Dir
  BY DEF DownOK, ChildrenOK
<1>3. down[c] # <<>> => Head(down[c]) = down[c][1] /\ 1 \in 1 .. Len(down[c])
  <2>1. down[c] # <<>> => /\ Head(down[c]) = down[c][1]
                          /\ Len(down[c]) \in Nat /\ Len(down[c]) >= 1
    BY <1>2, FirstTaken
  <2> QED
    BY <2>1
<1>4. ASSUME Sending(c), doing[c] \in {"dir", "get"}
      PROVE  down[c] # <<>> /\ Head(down[c]) = DataToClient
  BY <1>3, <1>4 DEF Sending, Asks
<1>5. ASSUME Sending(c), down[c] # <<>>, Head(down[c]).type = "DATA"
      PROVE  Head(down[c]).code = 1
  BY <1>3, <1>5 DEF Sending
<1> QED
  BY <1>1, <1>2, <1>4, <1>5 DEF Sending

(* quit, cd and put: one answer, and the client is back or begins to send. *)
LEMMA ShortAgreed ==
  ASSUME FtpInv, NEW c \in Client, Joined(c), Agreed(c), UNCHANGED serverVars,
         QuitReply(c) \/ CdReply(c) \/ PutReply(c)
  PROVE  Agreed(c)'
<1> USE DEF FtpInv
<1>1. doing[c] \in {"quit", "cd", "put"}
  BY DEF QuitReply, CdReply, PutReply, Reply
<1>2. /\ conn[c] = "open" /\ Fits(doing[c], down[c], cwd[c])
      /\ down[c] \in Seq(Message) /\ cwd[c] \in Dir /\ ~Sending(c)
  BY <1>1, WaitingFacts DEF Waiting
<1>3. down[c] # <<>> =>
        /\ Tail(down[c]) = <<>>
        /\ doing[c] = "quit" => Head(down[c]) = Done
        /\ Head(down[c]) \in {Done, DataToServer, NotFound, Denied, Unknown}
  BY <1>1, <1>2, FitsTaken DEF Asks, Waiting
<1>4. \A r \in HeaderOf(c) :
        /\ r.rest = <<>> /\ r.msg.type # "STRAY"
        /\ down[c] # <<>> => r.rest = Tail(down[c])
        /\ doing[c] = "quit" => ~ErrCheck(r.msg)
  <2>1. CASE down[c] = <<>>
    BY <2>1, WholeTaken, AnswersPlain
  <2>2. CASE down[c] # <<>>
    BY <1>3, <2>2, WholeTaken, AnswersPlain, ZenonT(60)
  <2> QED
    BY <2>1, <2>2
<1>5. ASSUME NEW r \in HeaderOf(c), NEW next \in {"prompt", "putData"}, After(c, r, next),
             doing[c] = "put" /\ r.msg = DataToServer => next = "putData"
      PROVE  Agreed(c)'
  <2>1. down[c] # <<>> => Fits(next, Tail(down[c]), cwd[c])
    BY <1>3, FitsNothing
  <2>2. next # "astray" /\ next \notin Asks
    BY DEF Asks
  <2>3. r.msg.type # "STRAY" /\ (down[c] # <<>> => r.rest = Tail(down[c]))
    BY <1>4
  <2>4. down[c] # <<>> => r.msg = Head(down[c])
    BY <1>3, <1>4, WholeTaken, AnswersPlain
  <2> QED
    BY <1>2, <1>5, <2>1, <2>2, <2>3, <2>4, ReadAgreed
<1>6. CASE CdReply(c) \/ PutReply(c)
  <2>1. PICK r \in HeaderOf(c), next \in {"prompt", "putData"} :
           After(c, r, next) /\ (doing[c] = "put" /\ r.msg = DataToServer => next = "putData")
    BY <1>6, AnswersPlain DEF CdReply, PutReply, Reply
  <2> QED
    BY <1>5, <2>1
<1>7. CASE QuitReply(c)
  <2>1. PICK r \in HeaderOf(c) :
           After(c, r, IF ErrCheck(r.msg) THEN "prompt" ELSE "ended")
    BY <1>7 DEF QuitReply, Reply
  <2>2. doing[c] = "quit"
    BY <1>7 DEF QuitReply, Reply
  <2>3. doing'[c] = "ended" /\ down'[c] = <<>>
    BY <1>4, <2>1, <2>2 DEF After, Do, ClientOK, ClientTypeOK, DownOK
  <2>4. conn'[c] = "closed"
    BY <1>7, <2>3 DEF QuitReply, WireOK
  <2>5. Fits(doing'[c], down'[c], cwd'[c])
    BY <2>3, FitsNothing
  <2> QED
    BY <2>4, <2>5 DEF Agreed
<1> QED
  BY <1>6, <1>7

LEMMA HeadOfFront ==
  ASSUME NEW s \in Seq(Message), s # <<>>, SubSeq(s, 1, Len(s) - 1) # <<>>
  PROVE  Head(SubSeq(s, 1, Len(s) - 1)) = Head(s)
<1> DEFINE n == Len(s) - 1
           t == SubSeq(s, 1, n)
<1>1. /\ Len(s) \in Nat /\ Len(s) >= 1 /\ Head(s) = s[1]
      /\ \A i \in 1 .. Len(s) : s[i] \in Message
  BY FirstTaken, ElementOfSeq
<1>2. n \in Nat /\ \A i \in 1 .. n : s[i] \in Message
  BY <1>1
<1> HIDE DEF n
<1>3. t \in Seq(Message) /\ Len(t) = (IF 1 <= n THEN n - 1 + 1 ELSE 0)
      /\ \A i \in 1 .. n - 1 + 1 : t[i] = s[1 + i - 1]
  BY <1>2, SubSeqProperties
<1> HIDE DEF t
<1>4. t # <<>>
  BY DEF t, n
<1>5. Len(t) >= 1 /\ Head(t) = t[1]
  BY <1>3, <1>4, FirstTaken
<1>6. 1 <= n /\ 1 \in 1 .. n - 1 + 1
  BY <1>2, <1>3, <1>5
<1>7. t[1] = s[1]
  BY <1>2, <1>3, <1>6
<1> QED
  BY <1>1, <1>5, <1>7 DEF t, n

(* Where no part of a message is left, it was taken whole.                 *)
LEMMA NothingLeft ==
  ASSUME FtpInv, NEW c \in Client, down[c] # <<>>, NEW r \in MessageOf(c), NEW next,
         After(c, r, next), Whole(c)
  PROVE  r.msg = Head(down[c]) /\ r.rest = Tail(down[c])
BY WholeTaken DEF FtpInv, Whole

(* pwd: the answer with its data.                                          *)
LEMMA PwdAgreed ==
  ASSUME FtpInv, NEW c \in Client, Joined(c), Agreed(c), UNCHANGED serverVars,
         PwdReply(c), Whole(c)
  PROVE  Agreed(c)'
<1>1. doing[c] = "pwd" /\ doing[c] \in Waiting /\ doing[c] \in Asks \ {"dir", "get"}
  BY DEF PwdReply, Waiting, Asks
<1>2. /\ conn[c] = "open" /\ Fits(doing[c], down[c], cwd[c])
      /\ down[c] \in Seq(Message) /\ cwd[c] \in Dir /\ ~Sending(c)
  BY <1>1, WaitingFacts
<1>3. down[c] # <<>> => Tail(down[c]) = <<>> /\ Head(down[c]).type = "CMD"
  BY <1>1, <1>2, FitsTaken
<1>4. PICK r \in MessageOf(c) : After(c, r, "prompt")
  BY DEF PwdReply
<1>5. DownOK
  BY DEF FtpInv
<1>6. r.msg.type # "STRAY" /\ (down[c] # <<>> => r.rest = Tail(down[c]))
  <2>1. CASE down[c] = <<>>
    BY <1>5, <2>1, WholeTaken, AnswersPlain
  <2>2. CASE down[c] # <<>>
    BY <1>3, <1>4, <2>2, NothingLeft
  <2> QED
    BY <2>1, <2>2
<1>7. down[c] # <<>> => Fits("prompt", Tail(down[c]), cwd[c])
  BY <1>3, FitsNothing
<1>8. "prompt" \notin Asks
  BY DEF Asks
<1> QED
  BY <1>1, <1>2, <1>4, <1>6, <1>7, <1>8, ReadAgreed

(* dir and get: a refusal, or the data come next.                          *)
LEMMA LongAgreed ==
  ASSUME FtpInv, NEW c \in Client, Joined(c), Agreed(c), UNCHANGED serverVars,
         DirReply(c) \/ GetReply(c)
  PROVE  Agreed(c)'
<1> USE DEF FtpInv
<1>1. doing[c] \in {"dir", "get"} /\ doing[c] \in Waiting
  BY DEF DirReply, GetReply, Reply, Waiting
<1>2. /\ conn[c] = "open" /\ Fits(doing[c], down[c], cwd[c])
      /\ down[c] \in Seq(Message) /\ cwd[c] \in Dir
      /\ Sending(c) => down[c] # <<>> /\ Head(down[c]) = DataToClient
  BY <1>1, WaitingFacts
<1>3. down[c] # <<>> =>
        \/ Head(down[c]) \in {Denied, NotFound, Unknown} /\ Tail(down[c]) = <<>>
        \/ Head(down[c]) = DataToClient /\ FlowFrom(Tail(down[c]), 1)
  BY <1>1, <1>2, FitsTaken
<1>4. {"prompt", "dirData", "getData"} \cap (Asks \cup {"astray"}) = {}
  BY DEF Asks
<1>5. ASSUME NEW r \in HeaderOf(c), down[c] = <<>>, NEW next \in {"prompt", "dirData", "getData"},
             After(c, r, next)
      PROVE  Agreed(c)'
  <2>1. r.msg.type # "STRAY"
    BY <1>5, WholeTaken, AnswersPlain
  <2>2. next # "astray" /\ next \notin Asks
    BY <1>4
  <2> QED
    BY <1>2, <1>5, <2>1, <2>2, ReadAgreed
<1>6. ASSUME NEW r \in HeaderOf(c), down[c] # <<>>, NEW data,
             \/ doing[c] = "dir" /\ data = "dirData"
             \/ doing[c] = "get" /\ data = "getData",
             After(c, r, IF ErrCheck(r.msg) THEN "prompt" ELSE data)
      PROVE  Agreed(c)'
  <2>1. r.msg = Head(down[c]) /\ r.rest = Tail(down[c]) /\ r.msg.type # "STRAY"
    BY <1>3, <1>6, WholeTaken, AnswersPlain
  <2>2. CASE Head(down[c]) \in {Denied, NotFound, Unknown} /\ Tail(down[c]) = <<>>
    <3>1. ErrCheck(r.msg) /\ After(c, r, "prompt")
      BY <1>6, <2>1, <2>2 DEF ErrCheck
    <3>2. ~Sending(c)
      <4>1. ErrCheck(Head(down[c]))
        BY <2>1, <3>1
      <4> QED
        BY <1>2, <4>1, AnswersPlain
    <3>3. Fits("prompt", Tail(down[c]), cwd[c])
      BY <2>2, FitsNothing
    <3>4. "prompt" # "astray" /\ "prompt" \notin Asks
      BY <1>4
    <3> QED
      BY <1>1, <1>2, <2>1, <3>1, <3>2, <3>3, <3>4, ReadAgreed
  <2>3. CASE Head(down[c]) = DataToClient /\ FlowFrom(Tail(down[c]), 1)
    <3>1. After(c, r, data)
      BY <1>6, <2>1, <2>3, AnswersPlain
    <3>2. Fits(data, Tail(down[c]), cwd[c])
      BY <1>6, <2>3 DEF Fits
    <3>3. data # "astray" /\ data \notin Asks
      BY <1>4, <1>6
    <3>4. Sending(c) => \/ doing[c] \in {"dir", "dirData"} /\ data = "dirData"
                        \/ doing[c] \in {"get", "getData"} /\ data = "getData"
      BY <1>6
    <3> QED
      BY <1>1, <1>2, <2>1, <3>1, <3>2, <3>3, <3>4, ReadAgreed
  <2> QED
    BY <1>3, <1>6, <2>2, <2>3
<1>7. CASE DirReply(c)
  <2>1. PICK r \in HeaderOf(c) :
           \/ After(c, r, IF ErrCheck(r.msg) THEN "prompt" ELSE "dirData")
           \/ down[c] = <<>> /\ After(c, r, "prompt")
    BY <1>7 DEF DirReply, Reply
  <2>2. doing[c] = "dir"
    BY <1>7 DEF DirReply, Reply
  <2>3. CASE down[c] = <<>>
    <3>1. PICK next \in {"prompt", "dirData", "getData"} : After(c, r, next)
      BY <2>1
    <3> QED
      BY <1>5, <2>3, <3>1
  <2>4. CASE down[c] # <<>>
    BY <1>6, <2>1, <2>2, <2>4
  <2> QED
    BY <2>3, <2>4
<1>8. CASE GetReply(c)
  <2>1. PICK r \in HeaderOf(c) :
           After(c, r, IF ErrCheck(r.msg) THEN "prompt" ELSE "getData")
    BY <1>8 DEF GetReply, Reply
  <2>2. doing[c] = "get"
    BY <1>8 DEF GetReply, Reply
  <2>3. CASE down[c] = <<>>
    <3>1. PICK next \in {"prompt", "dirData", "getData"} : After(c, r, next)
      BY <2>1
    <3> QED
      BY <1>5, <2>3, <3>1
  <2>4. CASE down[c] # <<>>
    BY <1>6, <2>1, <2>2, <2>4
  <2> QED
    BY <2>3, <2>4
<1> QED
  BY <1>7, <1>8

(* The data of dir and of get.                                             *)
LEMMA FlowAgreed ==
  ASSUME FtpInv, NEW c \in Client, Joined(c), Agreed(c), UNCHANGED serverVars,
         DirData(c) \/ GetData(c), Whole(c)
  PROVE  Agreed(c)'
<1>1. doing[c] \in {"dirData", "getData"} /\ doing[c] \in Waiting /\ doing[c] \notin Asks
  BY DEF DirData, GetData, Waiting, Asks
<1>2. /\ conn[c] = "open" /\ Fits(doing[c], down[c], cwd[c])
      /\ down[c] \in Seq(Message) /\ cwd[c] \in Dir
      /\ Sending(c) /\ down[c] # <<>> /\ Head(down[c]).type = "DATA" => Head(down[c]).code = 1
  BY <1>1, WaitingFacts
<1>3. down[c] # <<>> =>
        /\ Head(down[c]).type = "DATA" /\ FlowFrom(Tail(down[c]), 1)
        /\ Head(down[c]).code = 1 \/ Tail(down[c]) = <<>>
  BY <1>1, <1>2, FitsTaken
<1>4. PICK r \in MessageOf(c) : After(c, r, IF Lasts(r.msg) THEN doing[c] ELSE "prompt")
  BY DEF DirData, GetData
<1>5. DownOK
  BY DEF FtpInv
<1> DEFINE next == IF Lasts(r.msg) THEN doing[c] ELSE "prompt"
<1>6. next # "astray" /\ next \notin Asks /\ After(c, r, next)
  BY <1>1, <1>4 DEF Asks
<1>7. CASE down[c] = <<>>
  <2>1. r.msg.type # "STRAY"
    BY <1>5, <1>7, WholeTaken, AnswersPlain
  <2> HIDE DEF next
  <2> QED
    BY <1>2, <1>6, <1>7, <2>1, ReadAgreed
<1>8. CASE down[c] # <<>>
  <2>1. /\ r.msg.type = "DATA" /\ r.msg.code = Head(down[c]).code
        /\ r.rest = Tail(down[c])
    BY <1>3, <1>4, <1>8, NothingLeft
  <2>2. Fits(next, Tail(down[c]), cwd[c])
    <3>1. CASE Lasts(r.msg)
      <4>1. next = doing[c]
        BY <3>1
      <4> QED
        BY <1>1, <1>3, <1>8, <4>1 DEF Fits
    <3>2. CASE ~Lasts(r.msg)
      <4>1. Tail(down[c]) = <<>>
        BY <1>3, <1>8, <2>1, <3>2 DEF Lasts
      <4> QED
        BY <3>2, <4>1, FitsNothing
    <3> QED
      BY <3>1, <3>2
  <2>3. Sending(c) => next = doing[c]
    BY <1>2, <1>3, <1>8, <2>1 DEF Lasts
  <2> HIDE DEF next
  <2>4. Sending(c) => \/ doing[c] \in {"dir", "dirData"} /\ next = "dirData"
                      \/ doing[c] \in {"get", "getData"} /\ next = "getData"
    BY <1>1, <2>3
  <2> QED
    BY <1>1, <1>2, <1>6, <2>1, <2>2, <2>4, ReadAgreed
<1> QED
  BY <1>7, <1>8

(* The steps that read data, and the others.                               *)
Reads(c) == PwdReply(c) \/ DirData(c) \/ GetData(c)

LEMMA ElseAgreed ==
  ASSUME FtpInv, NEW c \in Client, Joined(c), Agreed(c), UNCHANGED serverVars,
         ClientNext(c), ~lost'[c], ~Reads(c)
  PROVE  Agreed(c)'
<1> USE DEF FtpInv
<1>1. CASE Connect(c)
  <2>1. /\ doing[c] = "off" /\ down[c] = <<>> /\ conn[c] = "none" /\ doing'[c] = "prompt"
        /\ up' = up /\ down' = down /\ child' = child
    BY <1>1 DEF Connect, Do, Joined, Agreed, Fits, ClientOK, ClientTypeOK, serverVars
  <2>2. Quiet(c) \/ child[c] \in Ended
    BY <2>1 DEF Agreed, Together, Pending, Sending, Asks
  <2>3. Together(c)' /\ Storing(c)'
    BY <2>1, <2>2 DEF Agreed, Together, Quiet, Storing, Ended
  <2>4. Fits(doing'[c], down'[c], cwd'[c])
    BY <2>1, FitsNothing
  <2> QED
    BY <2>3, <2>4 DEF Agreed
<1>2. CASE AskQuit(c) \/ AskPwd(c) \/ AskCd(c) \/ AskDir(c) \/ AskGet(c) \/ AskPut(c)
  BY <1>2, AsksAgreed
<1>3. CASE Lcd(c)
  BY <1>3, AgreedKept DEF Lcd, wireVars, serverVars
<1>4. CASE QuitReply(c) \/ CdReply(c) \/ PutReply(c)
  BY <1>4, ShortAgreed
<1>5. CASE DirReply(c) \/ GetReply(c)
  BY <1>5, LongAgreed
<1>6. CASE GetFails(c)
  BY <1>6 DEF GetFails, WireOK
<1>7. CASE PutMore(c) \/ PutEnd(c) \/ PutFails(c)
  BY <1>7, PutAgreed
<1>8. CASE ClientEnds(c)
  <2>1. doing'[c] = "ended" /\ conn'[c] = "closed" /\ down'[c] = <<>>
    BY <1>8 DEF ClientEnds, Do, ClientOK, ClientTypeOK, WireOK, DownOK
  <2>2. Fits(doing'[c], down'[c], cwd'[c])
    BY <2>1, FitsNothing
  <2> QED
    BY <2>1, <2>2 DEF Agreed
<1> QED
  BY <1>1, <1>2, <1>3, <1>4, <1>5, <1>6, <1>7, <1>8 DEF ClientNext, Reads

LEMMA ClientAgreed ==
  ASSUME FtpInv, NEW c \in Client, Joined(c), Agreed(c), UNCHANGED serverVars,
         ClientNext(c), ~lost'[c], Whole(c)
  PROVE  Agreed(c)'
<1>1. CASE PwdReply(c)
  BY <1>1, PwdAgreed
<1>2. CASE DirData(c) \/ GetData(c)
  BY <1>2, FlowAgreed
<1> QED
  BY <1>1, <1>2, ElseAgreed DEF Reads

(* The rest: the child comes to be, or everything ends.                    *)
LEMMA AcceptAgreed ==
  ASSUME FtpInv, NEW c \in Client, Agreed(c), Accept(c), UNCHANGED clientVars
  PROVE  Agreed(c)'
<1> USE DEF FtpInv
<1>1. /\ child[c] = "none" /\ child'[c] = "loop"
      /\ UNCHANGED <<doing, conn, up, down, cwd>>
  BY DEF Accept, Goto, wireVars, clientVars, ChildrenOK
<1>2. (Together(c) => Together(c)') /\ Storing(c)'
  BY <1>1 DEF Together, Quiet, Pending, Sending, Storing, Ended
<1>3. Fits(doing[c], down[c], cwd[c])'
  BY <1>1 DEF Agreed, Fits, OneOf, FlowFrom
<1> QED
  BY <1>1, <1>2, <1>3 DEF Agreed

LEMMA KilledAgreed ==
  ASSUME NEW c \in Client, Agreed(c), ServerKilled, UNCHANGED clientVars
  PROVE  Agreed(c)'
<1>1. child'[c] = "killed" /\ UNCHANGED <<doing, down, cwd>>
  BY DEF ServerKilled, clientVars
<1>2. Fits(doing[c], down[c], cwd[c])'
  BY <1>1 DEF Agreed, Fits, OneOf, FlowFrom
<1> QED
  BY <1>1, <1>2 DEF Agreed, Together, Storing, Ended

LEMMA TailAgreed ==
  ASSUME FtpInv, NEW c \in Client, Joined(c), Agreed(c), LoseTail(c),
         UNCHANGED <<serverVars, clientVars>>
  PROVE  Agreed(c)'
<1> USE DEF FtpInv
<1>1. /\ child'[c] \in Ended /\ doing' = doing /\ cwd' = cwd
      /\ down[c] \in Seq(Message) /\ down[c] # <<>>
      /\ down'[c] = SubSeq(down[c], 1, Len(down[c]) - 1)
  BY DEF LoseTail, Joined, serverVars, clientVars, DownOK, Ended
<1>2. Fits(doing[c], SubSeq(down[c], 1, Len(down[c]) - 1), cwd[c])
  BY <1>1, FitsLess DEF Agreed
<1>3. Fits(doing'[c], down'[c], cwd'[c])
  BY <1>1, <1>2
<1> QED
  BY <1>1, <1>3 DEF Agreed, Together, Storing, Ended

(* What is lost stays lost.                                                *)
LEMMA LostStays ==
  ASSUME FtpInv, NEW c \in Client, lost[c], [Next]_vars
  PROVE  lost'[c]
<1> USE DEF FtpInv, WireOK
<1>1. UNCHANGED lost \/ \E d \in Client : lost' = [lost EXCEPT ![d] = TRUE]
  <2>1. ASSUME NEW d \in Client, ChildStep(d) \/ Accept(d)
        PROVE  UNCHANGED lost \/ lost' = [lost EXCEPT ![d] = TRUE]
    BY <2>1, ZenonT(60) DEF ChildStep, Pwd, Cwd, Quit, List, ListEntry, ListCrash, Retr,
                            RetrMore, RetrEnd,
                RetrFails, Stor, StorData, StorFails, StorIllegal, StorEof, NoFunction,
                ReadOver, LoopEof, Answer,
                Accept, wireVars
  <2>2. ASSUME NEW d \in Client, ClientNext(d)
        PROVE  UNCHANGED lost \/ lost' = [lost EXCEPT ![d] = TRUE]
    BY <2>2, ZenonT(60) DEF ClientNext, Connect, AskQuit, AskPwd, AskCd, AskDir, AskGet,
                            AskPut, Lcd,
                QuitReply, PwdReply, CdReply, DirReply, GetReply, PutReply, DirData, GetData,
                GetFails, PutMore, PutEnd, PutFails, ClientEnds, Ask, Emit, Reply, wireVars
  <2>3. SigChld \/ Wait \/ ServerKilled \/ (\E d \in Client : LoseTail(d)) => UNCHANGED lost
    BY DEF SigChld, Wait, ServerKilled, LoseTail, wireVars
  <2> QED
    BY <2>1, <2>2, <2>3 DEF Next, ServerStep, vars, wireVars
<1> QED
  BY <1>1

LEMMA StepInvStep == FtpInv /\ StepInv /\ [Next]_vars => StepInv'
<1> SUFFICES ASSUME FtpInv, StepInv, [Next]_vars, NEW c \in Client
             PROVE  Joined(c)' /\ (~lost'[c] /\ Whole(c) => Agreed(c)')
  BY DEF StepInv
<1>1. Joined(c) /\ (~lost[c] /\ Whole(c) => Agreed(c))
  BY DEF StepInv
<1>2. Joined(c)'
  BY <1>1, JoinedStep
<1> SUFFICES ASSUME ~lost'[c], Whole(c) PROVE Agreed(c)'
  BY <1>1, <1>2 DEF Whole
<1>3. Agreed(c)
  BY <1>1, LostStays
<1>4. ASSUME NEW d \in Client, ChildStep(d) \/ Accept(d), UNCHANGED clientVars
      PROVE  Agreed(c)'
  <2>1. CASE c = d
    BY <1>1, <1>3, <1>4, <2>1, ChildAgreed, AcceptAgreed DEF Whole
  <2>2. CASE c # d
    <3>1. UNCHANGED <<up[c], down[c], child[c], cwd[c], conn>>
      BY <1>4, <2>2, OthersApart, ChildrenApart
    <3>2. doing' = doing
      BY <1>4 DEF clientVars
    <3> QED
      BY <1>3, <3>1, <3>2, AgreedKept
  <2> QED
    BY <2>1, <2>2
<1>5. CASE (SigChld \/ Wait) /\ UNCHANGED clientVars
  BY <1>3, <1>5, AgreedKept DEF SigChld, Wait, wireVars, clientVars
<1>6. CASE ServerKilled /\ UNCHANGED clientVars
  BY <1>3, <1>6, KilledAgreed
<1>7. ASSUME NEW d \in Client, ClientNext(d), UNCHANGED serverVars
      PROVE  Agreed(c)'
  <2>1. CASE c = d
    BY <1>1, <1>3, <1>7, <2>1, ClientAgreed
  <2>2. CASE c # d
    <3>1. UNCHANGED <<up[c], down[c], doing[c], conn[c]>>
      BY <1>7, <2>2, OthersApart, ClientsApart
    <3>2. child' = child /\ cwd' = cwd
      BY <1>7 DEF serverVars
    <3> QED
      BY <1>3, <3>1, <3>2, AgreedKept
  <2> QED
    BY <2>1, <2>2
<1>8. ASSUME NEW d \in Client, LoseTail(d), UNCHANGED <<serverVars, clientVars>>
      PROVE  Agreed(c)'
  <2>1. CASE c = d
    BY <1>1, <1>3, <1>8, <2>1, TailAgreed
  <2>2. CASE c # d
    <3>1. UNCHANGED <<up[c], down[c], conn>>
      BY <1>8, <2>2, OthersApart DEF LoseTail
    <3>2. UNCHANGED <<child, cwd, doing>>
      BY <1>8 DEF serverVars, clientVars
    <3> QED
      BY <1>3, <3>1, <3>2, AgreedKept
  <2> QED
    BY <2>1, <2>2
<1>9. CASE UNCHANGED vars
  BY <1>3, <1>9, AgreedKept DEF vars, wireVars, serverVars, clientVars
<1> QED
  BY <1>4, <1>5, <1>6, <1>7, <1>8, <1>9 DEF Next, ServerStep

LEMMA StepInvInit == Init => StepInv
<1> SUFFICES ASSUME Init, NEW c \in Client PROVE Joined(c) /\ Agreed(c)
  BY DEF StepInv
<1>1. /\ doing[c] = "off" /\ conn[c] = "none" /\ serverUp /\ down[c] = <<>> /\ up[c] = <<>>
      /\ child[c] = "none"
  BY DEF Init, WireInit, ServerInit, ClientInit
<1>2. Fits(doing[c], down[c], cwd[c])
  BY <1>1, FitsNothing
<1>3. Quiet(c)
  BY <1>1, EmptySeq DEF Quiet
<1> QED
  BY <1>1, <1>2, <1>3 DEF Joined, Agreed, Together, Storing

LEMMA StepInvShows == FtpInv /\ StepInv => InStep
<1> SUFFICES ASSUME FtpInv, StepInv, NEW c \in Client \ Split, ~lost[c], down[c] # <<>>
             PROVE  MayCome(c, Head(down[c]))
  BY DEF InStep
<1>1. Fits(doing[c], down[c], cwd[c]) /\ down[c] \in Seq(Message)
      /\ doing[c] \in {"off", "prompt", "astray", "ended"} \cup Waiting
  BY DEF StepInv, Whole, Agreed, FtpInv, DownOK, ClientOK, ClientTypeOK
<1> DEFINE m == Head(down[c])
<1>2. /\ doing[c] \in Waiting \ {"putData"}
      /\ doing[c] = "quit" => m = Done
      /\ doing[c] = "pwd" => m.type = "CMD" /\ m.arg = cwd[c]
      /\ doing[c] = "cd" => m \in {Done, Denied, NotFound}
      /\ doing[c] = "put" => m \in {DataToServer, Denied, Unknown}
      /\ doing[c] \in {"dir", "get"} => m \in {DataToClient, Denied, NotFound, Unknown}
      /\ doing[c] \in {"dirData", "getData"} => m.type = "DATA"
  BY <1>1, FitsTaken
<1> HIDE DEF m
<1>3. MayCome(c, m)
  BY <1>2 DEF MayCome, Waiting
<1> QED
  BY <1>3 DEF m

(* Client and server never get out of step, for any number of clients and  *)
(* commands, in any order of the steps of children and clients, as long as *)
(* no failure has left an answer over and recv() gets what was sent whole  *)
(* (InStep): the answer that stands first is one to the command the client *)
(* waits in.                                                               *)
THEOREM BothInStep == Spec => []InStep
<1>1. Spec => []StepInv
  BY InvAlways, StepInvInit, StepInvStep, PTL DEF Spec
<1> QED
  BY <1>1, InvAlways, StepInvShows, PTL

-----------------------------------------------------------------------------
(* What a get copies. *)

(* The answer to get has begun, and the client has not seen its end.       *)
ReadsOn(c) == \/ doing[c] = "getData"
              \/ doing[c] = "get" /\ down[c] # <<>> /\ down[c][1] = DataToClient

(* What the child has read holds no zero byte.                             *)
Readable(c) == path[c] # NoPath /\ \A k \in 1 .. pos[c] : files[path[c]][k] # Nul

(* The data of the stream s are what stands in t up to the n-th byte: the  *)
(* i-th message begins behind at[i] bytes, and the end of the data is told *)
(* behind all.                                                             *)
Carries(s, t, n, at) ==
  \A i \in 1 .. Len(s) :
    /\ at[i + 1] = at[i] + Len(s[i].data) /\ at[i + 1] <= n
    /\ \A k \in 1 .. Len(s[i].data) : s[i].data[k] = t[at[i] + k]
    /\ s[i].type = "DATA" /\ s[i].code = 0 => at[i] = n

(* The data of s are all there is up to the n-th byte.                     *)
Follows(s, t, n, at) == Carries(s, t, n, at) /\ at[Len(s) + 1] = n
Continued(s, t, n, a) == \E to \in [Nat -> Nat] : Follows(s, t, n, to) /\ to[1] = a

(* No end of the data is in s; m holds what comes behind the n-th byte.    *)
Unended(s)     == \A i \in 1 .. Len(s) : s[i].type = "DATA" => s[i].code = 1
Open(s, m)     == Unended(s) \/ m.data = <<>>
Bears(m, t, n) == /\ \A k \in 1 .. Len(m.data) : m.data[k] = t[n + k]
                  /\ m.type = "DATA" /\ m.code = 0 => m.data = <<>>

(* Behind the first b bytes of g are the first n of t.                     *)
Copied(g, b, t, n) == Len(g) = b + n /\ \A k \in 1 .. n : g[b + k] = t[k]

(* What the client has written since it opened its file, and then what is  *)
(* on its way, is what the child has read.                                 *)
CopiedBy(c, at) ==
  /\ Carries(down[c], files[path[c]], pos[c], at)
  /\ at[1] <= pos[c]
  /\ child[c] = "sget" => at[Len(down[c]) + 1] = pos[c]
  /\ Copied(local[c][lpath[c]], base[c], files[path[c]], at[1])

Fetching(c) ==
  /\ doing[c] = "get" => base[c] = Len(local[c][lpath[c]])
  /\ ReadsOn(c) /\ ~lost[c] /\ Whole(c) =>
       /\ child[c] \in Ended \/ (child[c] \in {"loop", "sget"} /\ up[c] = <<>>)
       /\ Readable(c) => \E at \in [Nat -> Nat] : CopiedBy(c, at)

FetchInv == \A c \in Client : Fetching(c)

LEMMA CopyGrows ==
  ASSUME NEW g \in Text, NEW h \in Text, NEW b \in Nat, NEW t, NEW n \in Nat,
         Copied(g, b, t, n), \A k \in 1 .. Len(h) : h[k] = t[n + k]
  PROVE  Copied(g \o h, b, t, n + Len(h))
<1>1. PICK l \in Nat : l = Len(g)
  BY LenProperties DEF Text
<1>2. PICK d \in Nat : d = Len(h)
  BY LenProperties DEF Text
<1>3. PICK u : u = g \o h
  OBVIOUS
<1>4. Len(u) = l + d /\ \A i \in 1 .. l + d : u[i] = IF i <= l THEN g[i] ELSE h[i - l]
  BY <1>1, <1>2, <1>3, ConcatProperties DEF Text
<1>5. l = b + n
  BY <1>1 DEF Copied
<1>6. Len(u) = b + (n + d)
  BY <1>4, <1>5
<1>7. ASSUME NEW k \in 1 .. n + d PROVE u[b + k] = t[k]
  <2>1. CASE k <= n
    <3>1. b + k \in 1 .. l + d /\ b + k <= l /\ k \in 1 .. n
      BY <1>5, <2>1
    <3>2. u[b + k] = g[b + k]
      BY <1>4, <3>1
    <3> QED
      BY <3>1, <3>2 DEF Copied
  <2>2. CASE ~(k <= n)
    <3>1. PICK j \in 1 .. d : k = n + j
      <4>1. k - n \in 1 .. d /\ k = n + (k - n)
        BY <2>2
      <4> QED
        BY <4>1
    <3>2. b + k \in 1 .. l + d /\ ~(b + k <= l) /\ (b + k) - l = j
      BY <1>5, <3>1
    <3>3. u[b + k] = h[j]
      BY <1>4, <3>2
    <3> QED
      BY <1>2, <3>1, <3>3
  <2> QED
    BY <2>1, <2>2
<1> QED
  BY <1>2, <1>3, <1>6, <1>7 DEF Copied

LEMMA CarriesTail ==
  ASSUME NEW s \in Seq(Message), s # <<>>, NEW t, NEW n \in Nat, NEW at \in [Nat -> Nat],
         Carries(s, t, n, at)
  PROVE  Carries(Tail(s), t, n, [i \in Nat |-> at[i + 1]])
<1>1. /\ Len(s) \in Nat /\ Len(s) >= 1 /\ Head(s) = s[1]
      /\ Len(Tail(s)) = Len(s) - 1
      /\ \A i \in 1 .. Len(s) - 1 : Tail(s)[i] = s[i + 1]
  BY FirstTaken
<1> DEFINE u == Tail(s)
           to == [i \in Nat |-> at[i + 1]]
<1>3. \A i \in 1 .. Len(u) : /\ i + 1 \in 1 .. Len(s) /\ u[i] = s[i + 1]
                             /\ to[i + 1] = at[(i + 1) + 1] /\ to[i] = at[i + 1]
  BY <1>1
<1> HIDE DEF u, to
<1>4. Carries(u, t, n, to)
  <2> SUFFICES ASSUME NEW i \in 1 .. Len(u)
               PROVE  /\ to[i + 1] = to[i] + Len(u[i].data) /\ to[i + 1] <= n
                      /\ \A k \in 1 .. Len(u[i].data) : u[i].data[k] = t[to[i] + k]
                      /\ u[i].type = "DATA" /\ u[i].code = 0 => to[i] = n
    BY DEF Carries
  <2>1. PICK j \in 1 .. Len(s) : j = i + 1
    BY <1>3
  <2>2. u[i] = s[j] /\ to[i + 1] = at[j + 1] /\ to[i] = at[j]
    BY <1>3, <2>1
  <2>3. /\ at[j + 1] = at[j] + Len(s[j].data) /\ at[j + 1] <= n
        /\ \A k \in 1 .. Len(s[j].data) : s[j].data[k] = t[at[j] + k]
        /\ s[j].type = "DATA" /\ s[j].code = 0 => at[j] = n
    BY DEF Carries
  <2> QED
    BY <2>2, <2>3
<1> QED
  BY <1>4 DEF u, to

LEMMA CarriesFront ==
  ASSUME NEW s \in Seq(Message), s # <<>>, NEW t, NEW n \in Nat, NEW at \in [Nat -> Nat],
         Carries(s, t, n, at)
  PROVE  Carries(SubSeq(s, 1, Len(s) - 1), t, n, at)
<1> DEFINE m == Len(s) - 1
           u == SubSeq(s, 1, m)
<1>1. /\ Len(s) \in Nat /\ Len(s) >= 1 /\ \A i \in 1 .. Len(s) : s[i] \in Message
  BY FirstTaken, ElementOfSeq
<1>2. m \in Nat /\ m < Len(s)
  BY <1>1
<1> HIDE DEF m
<1>m. \A i \in 1 .. m : i \in 1 .. Len(s) /\ s[i] \in Message
  <2>1. \A i \in 1 .. m : i \in 1 .. Len(s)
    BY <1>1, <1>2
  <2> QED
    BY <1>1, <2>1
<1>3. Len(u) = (IF 1 <= m THEN m - 1 + 1 ELSE 0) /\ \A i \in 1 .. m - 1 + 1 : u[i] = s[1 + i - 1]
  BY <1>2, <1>m, SubSeqProperties
<1> HIDE DEF u
<1>4. \A i \in 1 .. Len(u) : i \in 1 .. Len(s) /\ u[i] = s[i]
  <2> SUFFICES ASSUME NEW i \in 1 .. Len(u) PROVE i \in 1 .. Len(s) /\ u[i] = s[i]
    OBVIOUS
  <2>1. i \in 1 .. m /\ i \in 1 .. m - 1 + 1 /\ 1 + i - 1 = i
    BY <1>2, <1>3
  <2> QED
    BY <1>3, <1>m, <2>1
<1>5. Carries(u, t, n, at)
  <2> SUFFICES ASSUME NEW i \in 1 .. Len(u)
               PROVE  /\ at[i + 1] = at[i] + Len(u[i].data) /\ at[i + 1] <= n
                      /\ \A k \in 1 .. Len(u[i].data) : u[i].data[k] = t[at[i] + k]
                      /\ u[i].type = "DATA" /\ u[i].code = 0 => at[i] = n
    BY DEF Carries
  <2>1. i \in 1 .. Len(s) /\ u[i] = s[i]
    BY <1>4
  <2> QED
    BY <2>1 DEF Carries
<1> QED
  BY <1>5 DEF u, m

(* One more piece, where no end of the data is on its way yet, or a message *)
(* without data.                                                           *)
LEMMA CarriesMore ==
  ASSUME NEW s \in Seq(Message), NEW t, NEW n \in Nat, NEW at \in [Nat -> Nat],
         Follows(s, t, n, at), NEW m \in Message, Bears(m, t, n),
         Open(s, m)
  PROVE  Continued(s \o <<m>>, t, n + Len(m.data), at[1])
<1>1. PICK l \in Nat : l = Len(s)
  BY LenProperties
<1>2. PICK d \in Nat : d = Len(m.data)
  BY LenProperties DEF Message, Text
<1>3. PICK u : u = s \o <<m>>
  OBVIOUS
<1>4. Len(u) = l + 1 /\ u[l + 1] = m /\ \A i \in 1 .. l : u[i] = s[i]
  <2>1. <<m>> \in Seq(Message) /\ Len(<<m>>) = 1 /\ <<m>>[1] = m
    OBVIOUS
  <2>2. /\ Len(u) = l + 1
        /\ \A i \in 1 .. l + 1 : u[i] = IF i <= l THEN s[i] ELSE <<m>>[i - l]
    BY <1>1, <1>3, <2>1, ConcatProperties
  <2>3. 1 <= l + 1 /\ l + 1 <= l + 1 /\ l + 1 \in Nat
    OBVIOUS
  <2>5. ~(l + 1 <= l)
    OBVIOUS
  <2>6. (l + 1) - l = 1
    OBVIOUS
  <2>4. \A i \in 1 .. l : i \in 1 .. l + 1 /\ i <= l
    OBVIOUS
  <2>7. u[l + 1] = m
    <3>1. PICK j \in 1 .. l + 1 : j = l + 1
      BY <2>3
    <3>2. ~(j <= l) /\ j - l = 1
      BY <2>5, <2>6, <3>1
    <3>3. u[j] = <<m>>[j - l]
      BY <2>2, <3>2
    <3> QED
      BY <2>1, <3>1, <3>2, <3>3
  <2> QED
    BY <2>2, <2>4, <2>7
<1> DEFINE to == [i \in Nat |-> IF i = l + 2 THEN n + d ELSE at[i]]
<1>5. to \in [Nat -> Nat] /\ to[l + 2] = n + d /\ \A i \in 1 .. l + 1 : to[i] = at[i]
  <2>1. to \in [Nat -> Nat]
    OBVIOUS
  <2>2. l + 2 \in Nat /\ \A i \in 1 .. l + 1 : i \in Nat /\ i # l + 2
    OBVIOUS
  <2> QED
    BY <2>1, <2>2
<1> HIDE DEF to
<1>6. at[l + 1] = n /\ (m.type = "DATA" /\ m.code = 0 => d = 0)
  BY <1>1, <1>2, EmptySeq DEF Bears, Follows
<1>7. ASSUME NEW i \in 1 .. l
      PROVE  /\ to[i + 1] = to[i] + Len(u[i].data) /\ to[i + 1] <= n + d
             /\ \A k \in 1 .. Len(u[i].data) : u[i].data[k] = t[to[i] + k]
             /\ u[i].type = "DATA" /\ u[i].code = 0 => to[i] = n + d
  <2>1. i \in 1 .. l + 1 /\ i + 1 \in 1 .. l + 1 /\ i + 1 \in Nat
    OBVIOUS
  <2>2. to[i] = at[i] /\ to[i + 1] = at[i + 1] /\ at[i + 1] \in Nat /\ u[i] = s[i]
    BY <1>4, <1>5, <2>1
  <2>3. /\ at[i + 1] = at[i] + Len(s[i].data) /\ at[i + 1] <= n
        /\ \A k \in 1 .. Len(s[i].data) : s[i].data[k] = t[at[i] + k]
        /\ s[i].type = "DATA" /\ s[i].code = 0 => at[i] = n
    BY <1>1 DEF Carries, Follows
  <2>4. to[i + 1] <= n + d
    BY <2>2, <2>3
  <2>5. u[i].type = "DATA" /\ u[i].code = 0 => to[i] = n + d
    <3>1. CASE Unended(s)
      <4>1. u[i].type = "DATA" => u[i].code = 1
        BY <1>1, <2>2, <3>1 DEF Unended
      <4>2. 1 # 0
        OBVIOUS
      <4> QED
        BY <4>1, <4>2, Zenon
    <3>2. CASE m.data = <<>>
      <4>1. d = 0
        BY <1>2, <3>2, EmptySeq
      <4>2. n + 0 = n
        OBVIOUS
      <4> QED
        BY <2>2, <2>3, <4>1, <4>2
    <3> QED
      BY <3>1, <3>2 DEF Open
  <2>6. to[i + 1] = to[i] + Len(u[i].data)
    BY <2>2, <2>3
  <2>7. \A k \in 1 .. Len(u[i].data) : u[i].data[k] = t[to[i] + k]
    BY <2>2, <2>3
  <2> QED
    BY <2>4, <2>5, <2>6, <2>7
<1>8. /\ to[(l + 1) + 1] = to[l + 1] + Len(u[l + 1].data) /\ to[(l + 1) + 1] <= n + d
      /\ \A k \in 1 .. Len(u[l + 1].data) : u[l + 1].data[k] = t[to[l + 1] + k]
      /\ u[l + 1].type = "DATA" /\ u[l + 1].code = 0 => to[l + 1] = n + d
  <2>1. (l + 1) + 1 = l + 2 /\ l + 1 \in 1 .. l + 1
    OBVIOUS
  <2>2. to[l + 1] = n /\ to[(l + 1) + 1] = n + d
    BY <1>5, <1>6, <2>1
  <2>3. n + d <= n + d /\ (d = 0 => n = n + d)
    OBVIOUS
  <2> QED
    BY <1>2, <1>4, <1>6, <2>2, <2>3 DEF Bears
<1>9. Carries(u, t, n + d, to)
  <2>1. \A i \in 1 .. l + 1 : i \in 1 .. l \/ i = l + 1
    OBVIOUS
  <2> QED
    BY <1>4, <1>7, <1>8, <2>1 DEF Carries
<1>10. to[1] = at[1] /\ to[Len(u) + 1] = n + d
  <2>1. 1 \in 1 .. l + 1 /\ Len(u) + 1 = l + 2
    BY <1>4
  <2> QED
    BY <1>5, <2>1
<1> QED
  BY <1>1, <1>2, <1>3, <1>5, <1>9, <1>10 DEF Continued, Follows

(* The first piece, behind the answer that data will come.                 *)
LEMMA CarriesFirst ==
  ASSUME NEW a \in Message, a.type # "DATA", a.data = <<>>,
         NEW m \in Message, m.code # 0, NEW t, \A k \in 1 .. Len(m.data) : m.data[k] = t[k]
  PROVE  Continued(<<a, m>>, t, Len(m.data), 0)
<1>1. PICK n \in Nat : n = Len(m.data)
  BY LenProperties DEF Message, Text
<1>2. PICK s : s = <<a, m>>
  OBVIOUS
<1>3. Len(s) = 2 /\ s[1] = a /\ s[2] = m
  BY <1>2
<1> DEFINE to == [i \in Nat |-> IF i <= 2 THEN 0 ELSE n]
<1>4. to \in [Nat -> Nat] /\ to[1] = 0 /\ to[2] = 0 /\ to[3] = n
  OBVIOUS
<1> HIDE DEF to
<1>5. /\ to[1 + 1] = to[1] + Len(s[1].data) /\ to[1 + 1] <= n
      /\ \A k \in 1 .. Len(s[1].data) : s[1].data[k] = t[to[1] + k]
      /\ s[1].type # "DATA"
  <2>1. s[1].data = <<>> /\ Len(s[1].data) = 0 /\ s[1].type # "DATA"
    BY <1>3, EmptySeq
  <2>2. to[1 + 1] = 0 /\ 0 + 0 = 0 /\ 0 <= n /\ \A k \in 1 .. 0 : FALSE
    BY <1>4
  <2> QED
    BY <1>4, <2>1, <2>2
<1>6. /\ to[2 + 1] = to[2] + Len(s[2].data) /\ to[2 + 1] <= n
      /\ \A k \in 1 .. Len(s[2].data) : s[2].data[k] = t[to[2] + k]
      /\ s[2].code # 0
  <2>1. to[2 + 1] = n /\ 0 + n = n /\ n <= n /\ \A k \in 1 .. n : 0 + k = k
    BY <1>4
  <2> QED
    BY <1>1, <1>3, <1>4, <2>1
<1>7. Carries(s, t, n, to)
  <2>1. \A i \in 1 .. Len(s) : i = 1 \/ i = 2
    BY <1>3
  <2> QED
    BY <1>5, <1>6, <2>1 DEF Carries
<1>8. to[Len(s) + 1] = n
  <2>1. Len(s) + 1 = 3
    BY <1>3
  <2> QED
    BY <1>4, <2>1
<1> QED
  BY <1>1, <1>2, <1>4, <1>7, <1>8 DEF Continued, Follows

(* A file may grow behind what was read.                                   *)
LEMMA CarriesGrown ==
  ASSUME NEW s \in Seq(Message), NEW t, NEW r, NEW n \in Nat, NEW at \in [Nat -> Nat],
         Carries(s, t, n, at), \A k \in 1 .. n : r[k] = t[k]
  PROVE  Carries(s, r, n, at)
<1> SUFFICES ASSUME NEW i \in 1 .. Len(s), NEW k \in 1 .. Len(s[i].data)
             PROVE  s[i].data[k] = r[at[i] + k]
  BY DEF Carries
<1>1. /\ at[i + 1] = at[i] + Len(s[i].data) /\ at[i + 1] <= n
      /\ s[i].data[k] = t[at[i] + k]
  BY DEF Carries
<1>2. Len(s[i].data) \in Nat /\ at[i] \in Nat
  <2>1. s[i] \in Message /\ i \in Nat
    BY ElementOfSeq
  <2> QED
    BY <2>1, LenProperties DEF Message, Text
<1> DEFINE d == Len(s[i].data)
           a == at[i]
<1> HIDE DEF d, a
<1>3. d \in Nat /\ a \in Nat /\ a + d <= n /\ k \in 1 .. d
  BY <1>1, <1>2 DEF d, a
<1>4. a + k \in 1 .. n
  BY <1>3
<1> QED
  BY <1>1, <1>4 DEF a

(* Text without zero bytes is sent as it is.                               *)
LEMMA CStringPlain ==
  ASSUME NEW s \in Text, \A i \in 1 .. Len(s) : s[i] # Nul
  PROVE  CString(s) = s
<1> DEFINE D == {k \in DOMAIN s : \A i \in 1 .. k : s[i] # Nul}
<1>1. Len(s) \in Nat /\ DOMAIN s = 1 .. Len(s)
  BY LenProperties DEF Text
<1>2. D = 1 .. Len(s)
  BY <1>1
<1>3. Cardinality(1 .. Len(s)) = Len(s)
  BY <1>1, FS_Interval
<1>4. SubSeq(s, 1, Len(s)) = s
  BY SubSeqFull DEF Text
<1> HIDE DEF D
<1> QED
  BY <1>2, <1>3, <1>4 DEF CString, D

LEMMA PieceBytes ==
  ASSUME NEW s \in Text, NEW at \in Nat, at <= Len(s)
  PROVE  \A k \in 1 .. Len(Piece(s, at)) : Piece(s, at)[k] = s[at + k]
<1> DEFINE n == IF at + PieceSize < Len(s) THEN at + PieceSize ELSE Len(s)
<1>1. Len(s) \in Nat /\ \A i \in 1 .. Len(s) : s[i] \in Byte
  BY LenProperties DEF Text
<1>2. PieceSize \in Nat \ {0}
  BY WireAssumption
<1>3. n \in Nat /\ at <= n /\ n <= Len(s)
  BY <1>1, <1>2
<1>4. Piece(s, at) = SubSeq(s, at + 1, n)
  BY DEF Piece
<1> HIDE DEF n
<1>5. \A i \in at + 1 .. n : s[i] \in Byte
  BY <1>1, <1>3
<1> DEFINE u == SubSeq(s, at + 1, n)
<1>6. /\ Len(u) = IF at + 1 <= n THEN n - (at + 1) + 1 ELSE 0
      /\ \A i \in 1 .. n - (at + 1) + 1 : u[i] = s[at + 1 + i - 1]
  BY <1>3, <1>5, SubSeqProperties
<1> HIDE DEF u
<1>7. \A k \in 1 .. Len(u) : k \in 1 .. n - (at + 1) + 1 /\ at + 1 + k - 1 = at + k
  BY <1>3, <1>6
<1>8. \A k \in 1 .. Len(u) : u[k] = s[at + k]
  BY <1>6, <1>7
<1> QED
  BY <1>4, <1>8 DEF u

(* What the child sends of a file it could read without meeting a zero.    *)
LEMMA PieceSent ==
  ASSUME NEW s \in Text, NEW at \in Nat, at <= Len(s),
         \A k \in 1 .. at + Len(Piece(s, at)) : s[k] # Nul
  PROVE  /\ Data(Piece(s, at)).data = Piece(s, at)
         /\ \A k \in 1 .. Len(Piece(s, at)) : Piece(s, at)[k] = s[at + k]
<1>1. Piece(s, at) \in Text /\ Len(Piece(s, at)) \in Nat
  BY PieceFacts
<1>2. \A k \in 1 .. Len(Piece(s, at)) : Piece(s, at)[k] = s[at + k]
  BY PieceBytes
<1>3. \A k \in 1 .. Len(Piece(s, at)) : Piece(s, at)[k] # Nul
  <2> SUFFICES ASSUME NEW k \in 1 .. Len(Piece(s, at)) PROVE s[at + k] # Nul
    BY <1>2
  <2> DEFINE n == Len(Piece(s, at))
  <2> HIDE DEF n
  <2>1. n \in Nat /\ k \in 1 .. n
    BY <1>1 DEF n
  <2>2. at + k \in 1 .. at + n
    BY <2>1
  <2> QED
    BY <2>2 DEF n
<1>4. CString(Piece(s, at)) = Piece(s, at)
  BY <1>1, <1>3, CStringPlain
<1> QED
  BY <1>2, <1>4 DEF Data, Msg

(* No step changes a byte of a file.                                       *)
BytesStay == \A p \in Path : files[p] \in Text =>
               \A k \in 1 .. Len(files[p]) : files'[p][k] = files[p][k]

LEMMA BytesStayAlways ==
  ASSUME FtpInv, [Next]_vars
  PROVE  BytesStay
<1> USE DEF FtpInv
<1>1. ASSUME UNCHANGED files PROVE BytesStay
  BY <1>1 DEF BytesStay
<1>2. ASSUME NEW c \in Client, Stor(c) PROVE BytesStay
  <2>1. files' = files \/ \E p \in Path : files' = [files EXCEPT ![p] = Opened(@)]
    BY <1>2, OpenFileTyped DEF Stor
  <2>2. ASSUME NEW p \in Path, files' = [files EXCEPT ![p] = Opened(@)] PROVE BytesStay
    BY <2>2, TextFacts DEF BytesStay, Opened, ChildrenOK
  <2> QED
    BY <1>1, <2>1, <2>2
<1>3. ASSUME NEW c \in Client, StorData(c) PROVE BytesStay
  <2> DEFINE p == path[c]
  <2>1. p \in Path /\ files[p] \in Text
    BY <1>3, StorDataGrown
  <2>2. PICK d \in Text : files' = [files EXCEPT ![p] = @ \o d]
    BY <1>3, StorDataGrown
  <2> HIDE DEF p
  <2>4. files'[p] = files[p] \o d /\ \A q \in Path \ {p} : files'[q] = files[q]
    BY <2>1, <2>2 DEF ChildrenOK
  <2>5. \A k \in 1 .. Len(files[p]) : (files[p] \o d)[k] = files[p][k]
    <3>1. /\ Len(files[p]) \in Nat /\ Len(d) \in Nat
          /\ \A i \in 1 .. Len(files[p]) + Len(d) : (files[p] \o d)[i] =
                IF i <= Len(files[p]) THEN files[p][i] ELSE d[i - Len(files[p])]
      BY <2>1, <2>2, ConcatProperties, LenProperties DEF Text
    <3> QED
      BY <3>1
  <2> QED
    BY <2>4, <2>5 DEF BytesStay
<1>4. ASSUME NEW c \in Client, ChildStep(c), ~Stor(c), ~StorData(c) PROVE BytesStay
  BY <1>1, <1>4 DEF ChildStep, Pwd, Cwd, Quit, List, ListEntry, ListCrash, Retr, RetrMore,
     RetrEnd, RetrFails, StorFails, StorIllegal, StorEof, NoFunction, ReadOver, LoopEof
<1>5. CASE \/ (\E c \in Client : Accept(c)) \/ SigChld \/ Wait \/ ServerKilled
           \/ UNCHANGED serverVars
  BY <1>1, <1>5 DEF Accept, SigChld, Wait, ServerKilled, serverVars
<1> QED
  BY <1>2, <1>3, <1>4, <1>5 DEF Next, ServerStep, vars

(* A step that has nothing to do with the get of c.                        *)
LEMMA FetchingKept ==
  ASSUME FtpInv, NEW c \in Client, Fetching(c), BytesStay,
         UNCHANGED <<doing[c], down[c], path[c], pos[c], local[c], lpath[c], base[c], lost[c]>>,
         serverUp' => serverUp,
         child'[c] \in Ended \/ UNCHANGED <<child[c], up[c]>>
  PROVE  Fetching(c)'
<1> USE DEF FtpInv
<1>1. /\ doing'[c] = doing[c] /\ down'[c] = down[c] /\ path'[c] = path[c]
      /\ pos'[c] = pos[c] /\ local'[c] = local[c] /\ lpath'[c] = lpath[c]
      /\ base'[c] = base[c] /\ lost'[c] = lost[c]
  OBVIOUS
<1>2. (doing[c] = "get" => base[c] = Len(local[c][lpath[c]]))'
  BY <1>1 DEF Fetching
<1> SUFFICES ASSUME ReadsOn(c)', ~lost'[c], Whole(c)
             PROVE  /\ child'[c] \in Ended \/ (child'[c] \in {"loop", "sget"} /\ up'[c] = <<>>)
                    /\ Readable(c)' => \E at \in [Nat -> Nat] : CopiedBy(c, at)'
  BY <1>2 DEF Fetching
<1>3. ReadsOn(c) /\ ~lost[c] /\ Whole(c)
  BY <1>1 DEF ReadsOn, Whole
<1>4. child'[c] \in Ended \/ (child'[c] \in {"loop", "sget"} /\ up'[c] = <<>>)
  BY <1>3 DEF Fetching
<1>5. ASSUME Readable(c)' PROVE \E at \in [Nat -> Nat] : CopiedBy(c, at)'
  <2>1. /\ path[c] \in Path /\ files[path[c]] \in Text /\ pos[c] \in Nat
        /\ pos[c] <= Len(files[path[c]]) /\ Len(files[path[c]]) \in Nat
    BY <1>1, <1>5, LenProperties DEF Readable, ChildrenOK, FileInv, Text
  <2>2. \A k \in 1 .. pos[c] : files'[path[c]][k] = files[path[c]][k]
    BY <2>1 DEF BytesStay
  <2>3. Readable(c)
    BY <1>1, <1>5, <2>2 DEF Readable
  <2>4. PICK at \in [Nat -> Nat] : CopiedBy(c, at)
    BY <1>3, <2>3 DEF Fetching
  <2>5. Carries(down[c], files'[path[c]], pos[c], at)
    BY <2>1, <2>2, <2>4, CarriesGrown DEF CopiedBy, DownOK
  <2>6. child'[c] = "sget" => child[c] = "sget"
    BY DEF Ended
  <2>7. at[1] \in Nat /\ at[1] <= pos[c]
    BY <2>4 DEF CopiedBy
  <2>8. \A k \in 1 .. at[1] : files'[path[c]][k] = files[path[c]][k]
    <3>1. \A k \in 1 .. at[1] : k \in 1 .. pos[c]
      BY <2>1, <2>7
    <3> QED
      BY <2>2, <3>1
  <2>9. CopiedBy(c, at)'
    BY <1>1, <2>4, <2>5, <2>6, <2>8 DEF CopiedBy, Copied
  <2> QED
    BY <2>9
<1> QED
  BY <1>4, <1>5

(* While a get goes on its child only reads.                               *)
LEMMA ChildReads ==
  ASSUME FtpInv, NEW c \in Client, Joined(c), Fetching(c), ReadsOn(c), ~lost[c], Whole(c),
         ChildStep(c)
  PROVE  /\ conn[c] = "open" /\ child[c] = "sget"
         /\ RetrMore(c) \/ RetrEnd(c) \/ RetrFails(c)
<1>1. conn[c] = "open"
  BY DEF ReadsOn, Joined, FtpInv, WireOK
<1>2. child[c] \in Ended \/ (child[c] \in {"loop", "sget"} /\ up[c] = <<>>)
  BY DEF Fetching
<1>3. CASE RetrMore(c) \/ RetrEnd(c) \/ RetrFails(c)
  <2>1. child[c] = "sget"
    BY <1>3 DEF RetrMore, RetrEnd, RetrFails
  <2> QED
    BY <1>1, <1>3, <2>1
<1>4. CASE ~(RetrMore(c) \/ RetrEnd(c) \/ RetrFails(c))
  BY <1>1, <1>2, <1>4, ZenonT(60) DEF ChildStep, Pwd, Cwd, Quit, List, ListEntry, ListCrash, Retr, Stor,
     StorData, StorFails, DataHeard, StorIllegal, StorEof, NoFunction, ReadOver, LoopEof, Request, Take,
     Ended
<1> QED
  BY <1>3, <1>4

(* One more piece of the file, or the end of the data.                     *)
LEMMA MoreFetched ==
  ASSUME FtpInv, NEW c \in Client, Joined(c), Agreed(c), Fetching(c), ReadsOn(c), ~lost[c],
         Whole(c), RetrMore(c) \/ RetrEnd(c), UNCHANGED clientVars
  PROVE  Fetching(c)'
<1> USE DEF FtpInv
<1>1. conn[c] = "open" /\ child[c] = "sget" /\ up[c] = <<>>
  BY ChildReads DEF ChildStep, Fetching, Ended
<1>2. /\ path[c] \in Path /\ files[path[c]] \in Text /\ pos[c] \in Nat
      /\ pos[c] <= Len(files[path[c]]) /\ Len(files[path[c]]) \in Nat
      /\ path[c] # NoPath
  BY <1>1, LenProperties DEF ChildrenOK, FileInv, Text
<1>3. PICK m \in Message : /\ Send(c, <<m>>)
                           /\ pos'[c] = pos[c] + Len(NextPiece(c))
                           /\ m = Data(NextPiece(c)) \/ (m = DataEnd /\ NextPiece(c) = <<>>)
                           /\ m = Data(NextPiece(c)) => child' = child
                           /\ child'[c] \in {"sget", "loop"}
  <2>1. NextPiece(c) \in Text
    BY <1>2, PieceFacts DEF NextPiece
  <2>2. CASE RetrMore(c)
    BY <1>1, <2>1, <2>2, DataTyped DEF RetrMore, ChildrenOK
  <2>3. CASE RetrEnd(c)
    <3>1. /\ Send(c, <<DataEnd>>) /\ pos' = pos /\ NextPiece(c) = <<>>
          /\ child'[c] = "loop"
      BY <2>3 DEF RetrEnd, Goto, ChildrenOK
    <3>2. pos[c] + Len(NextPiece(c)) = pos[c]
      BY <1>2, <3>1, EmptySeq
    <3>3. DataEnd # Data(NextPiece(c))
      <4>1. DataEnd.code = 0 /\ Data(NextPiece(c)).code = 1 /\ 1 # 0
        BY DEF DataEnd, Data, Msg
      <4> QED
        BY <4>1, Zenon
    <3> QED
      BY <3>1, <3>2, <3>3, RepliesTyped
  <2> QED
    BY <2>2, <2>3
<1>4. /\ UNCHANGED <<doing, local, lpath, base, files, path, up, lost>>
      /\ child'[c] = "sget" => m = Data(NextPiece(c))
  BY <1>3 DEF RetrMore, RetrEnd, Goto, ChildrenOK, clientVars
<1>5. down'[c] = down[c] \o <<m>> /\ down[c] \in Seq(Message)
  BY <1>1, <1>3, SentAll DEF DownOK
<1>6. Sending(c)
  BY <1>1 DEF Agreed, Together, Quiet, Pending, Ended
<1>7. /\ (doing[c] = "get" => base[c] = Len(local[c][lpath[c]]))'
      /\ child'[c] \in {"loop", "sget"} /\ up'[c] = <<>>
  BY <1>1, <1>3, <1>4 DEF Fetching
<1>8. ASSUME Readable(c)' PROVE \E to \in [Nat -> Nat] : CopiedBy(c, to)'
  <2>1. PICK n \in Nat : n = Len(NextPiece(c))
    BY <1>2, PieceFacts DEF NextPiece
  <2>2. PICK t \in Text : t = files[path[c]]
    BY <1>2
  <2>3. \A k \in 1 .. pos[c] + n : t[k] # Nul
    BY <1>3, <1>4, <1>8, <2>1, <2>2 DEF Readable
  <2>4. Readable(c)
    <3>1. \A k \in 1 .. pos[c] : k \in 1 .. pos[c] + n
      BY <1>2
    <3> QED
      BY <1>2, <2>2, <2>3, <3>1 DEF Readable
  <2>5. PICK at \in [Nat -> Nat] : CopiedBy(c, at)
    BY <2>4 DEF Fetching
  <2>6. /\ Data(NextPiece(c)).data = NextPiece(c)
        /\ \A k \in 1 .. n : NextPiece(c)[k] = t[pos[c] + k]
    BY <1>2, <2>1, <2>2, <2>3, PieceSent DEF NextPiece
  <2>7. Len(m.data) = n /\ Bears(m, t, pos[c])
    <3>1. CASE m = Data(NextPiece(c))
      <4>1. m.code = 1 /\ 1 # 0
        BY <3>1 DEF Data, Msg
      <4>2. m.code # 0
        BY <4>1, Zenon
      <4> QED
        BY <2>1, <2>6, <3>1, <4>2 DEF Bears
    <3>2. CASE m = DataEnd /\ NextPiece(c) = <<>>
      <4>1. m.data = <<>>
        BY <3>2 DEF DataEnd, Msg
      <4>2. Len(m.data) = n /\ \A k \in 1 .. n : FALSE
        BY <2>1, <3>2, <4>1
      <4> QED
        BY <4>1, <4>2 DEF Bears
    <3> QED
      BY <1>3, <3>1, <3>2
  <2>8. PICK b \in Nat : b = pos[c]
    BY <1>2
  <2>9. Follows(down[c], t, b, at) /\ Unended(down[c])
    BY <1>1, <1>6, <2>2, <2>5, <2>8 DEF CopiedBy, Follows, Sending, Unended
  <2>10. PICK to \in [Nat -> Nat] : Follows(down[c] \o <<m>>, t, b + n, to) /\ to[1] = at[1]
    <3>1. PICK s \in Seq(Message) : s = down[c]
      BY <1>5
    <3>2. Follows(s, t, b, at) /\ Open(s, m) /\ Bears(m, t, b)
      BY <2>7, <2>8, <2>9, <3>1 DEF Open
    <3>3. Continued(s \o <<m>>, t, b + Len(m.data), at[1])
      BY <3>2, CarriesMore, Zenon
    <3> QED
      BY <2>7, <3>1, <3>3 DEF Continued
  <2>s. pos'[c] = b + n /\ to[1] <= b + n
    <3>1. PICK x \in Nat : x = to[1] /\ x <= b
      BY <2>5, <2>8, <2>10 DEF CopiedBy
    <3>2. x <= b + n
      BY <3>1
    <3> QED
      BY <1>3, <2>1, <2>8, <3>1, <3>2
  <2>11. CopiedBy(c, to)'
    BY <1>4, <1>5, <2>2, <2>5, <2>10, <2>s DEF CopiedBy, Follows
  <2> QED
    BY <2>11
<1> QED
  BY <1>7, <1>8 DEF Fetching

(* A read error: the name of the file is forgotten.                        *)
LEMMA FetchFails ==
  ASSUME FtpInv, NEW c \in Client, Joined(c), Fetching(c), ReadsOn(c), ~lost[c], Whole(c),
         RetrFails(c), UNCHANGED clientVars
  PROVE  Fetching(c)'
<1>1. child[c] = "sget" /\ up[c] = <<>>
  BY DEF RetrFails, Fetching, Ended
<1>2. /\ UNCHANGED <<doing, local, lpath, base, up>> /\ child'[c] = "loop"
      /\ path'[c] = NoPath
  BY DEF RetrFails, Goto, NoneOpen, FtpInv, ChildrenOK, clientVars
<1> QED
  BY <1>1, <1>2 DEF Fetching, Readable

(* The child begins to answer a get: what the client has asked for last.   *)
LEMMA GetBegins ==
  ASSUME FtpInv, NEW c \in Client, Joined(c), Agreed(c), ~ReadsOn(c), ReadsOn(c)',
         ChildStep(c), UNCHANGED clientVars
  PROVE  /\ Retr(c) /\ conn[c] = "open" /\ doing[c] = "get"
         /\ down[c] = <<>> /\ up'[c] = <<>>
<1> USE DEF FtpInv
<1>1. doing' = doing /\ doing[c] = "get" /\ down'[c] # down[c]
  BY DEF clientVars, ReadsOn
<1>2. conn[c] = "open" /\ Together(c)
  BY <1>1 DEF Joined, WireOK, Agreed
<1>3. ~Sending(c)
  BY <1>1 DEF Sending, ReadsOn, Asks
<1>4. ~Supply(c)
  <2>1. Supply(c) => child[c] \in {"list", "listFile", "sget"}
    BY DEF Supply, ListEntry, ListCrash, RetrMore, RetrEnd, RetrFails
  <2> QED
    BY <1>2, <1>3, <2>1 DEF Together, Quiet, Pending, Ended
<1>5. ~Digest(c)
  BY <1>1 DEF Digest, StorData, StorFails, StorEof, NoFunction, LoopEof, wireVars
<1>6. Demand(c)
  BY <1>2, <1>4, <1>5, NeverIllegal DEF ChildStep, Demand, Supply, Digest
<1>7. PICK type \in {"PWD", "CWD", "QUIT", "LIST", "RETR", "STOR"} :
         /\ Request(c, type) /\ type = Requests[doing[c]]
         /\ Pending(c) /\ Head(up[c]).type = type /\ up'[c] = <<>> /\ down[c] = <<>>
  BY <1>2, <1>6, DemandTaken
<1>8. Head(up[c]).type = "RETR"
  BY <1>1, <1>7 DEF Requests
<1>9. Retr(c)
  BY <1>6, <1>8 DEF Demand, Pwd, Cwd, Quit, List, Stor, Request, Take
<1> QED
  BY <1>1, <1>2, <1>7, <1>9

LEMMA FirstFetched ==
  ASSUME FtpInv, NEW c \in Client, Joined(c), Agreed(c), Fetching(c), ~ReadsOn(c),
         ReadsOn(c)', ChildStep(c), UNCHANGED clientVars
  PROVE  Fetching(c)'
<1> USE DEF FtpInv
<1>1. /\ Retr(c) /\ conn[c] = "open" /\ doing[c] = "get"
      /\ down[c] = <<>> /\ up'[c] = <<>>
  BY GetBegins
<1>2. UNCHANGED <<doing, local, lpath, base, files>>
  BY <1>1 DEF Retr, clientVars
<1>3. PICK p \in Path : p = OpenFile(c)
  BY <1>1, OpenFileTyped DEF Retr
<1>4. PICK piece : piece = Piece(files[p], 0)
  OBVIOUS
<1>5. /\ files[p] # NoFile /\ Send(c, <<DataToClient, Data(piece)>>) /\ pos'[c] = Len(piece)
      /\ path'[c] = p /\ child'[c] = "sget"
  <2>1. CASE /\ files[p] # NoFile /\ Send(c, <<DataToClient, Data(piece)>>)
             /\ pos' = [pos EXCEPT ![c] = Len(piece)]
             /\ path' = [path EXCEPT ![c] = p] /\ Goto(c, "sget")
    BY <2>1 DEF Goto, ChildrenOK
  <2>2. CASE \E m \in {NotFound, Denied, Unknown} : Send(c, <<m>>)
    <3>1. PICK m \in {NotFound, Denied, Unknown} : Send(c, <<m>>)
      BY <2>2
    <3>2. m \in Message /\ m # DataToClient
      <4>1. m.type # "CMD" /\ DataToClient.type = "CMD"
        BY DEF NotFound, Denied, Unknown, DataToClient, Msg
      <4> QED
        BY <4>1, RepliesTyped
    <3>3. down'[c] = <<m>>
      <4>1. <<m>> \in Seq(Message)
        BY <3>2
      <4>2. down'[c] = <<>> \o <<m>>
        BY <1>1, <3>1, SentAll DEF DownOK
      <4> QED
        BY <4>1, <4>2, ConcatEmptySeq
    <3>4. doing'[c] = "get" /\ down'[c][1] = m
      BY <1>1, <1>2, <3>3
    <3> QED
      BY <3>2, <3>4 DEF ReadsOn
  <2> QED
    BY <1>1, <1>3, <1>4, <2>1, <2>2 DEF Retr, Answer, Refusal, AfterFirst
<1>6. /\ files[p] \in Text /\ Len(files[p]) \in Nat /\ piece \in Text /\ Len(piece) \in Nat
  <2>1. files[p] \in Text /\ Len(files[p]) \in Nat
    BY <1>5, LenProperties DEF ChildrenOK, Text
  <2>2. 0 \in Nat /\ 0 <= Len(files[p])
    BY <2>1
  <2> QED
    BY <1>4, <2>1, <2>2, PieceFacts
<1>7. down'[c] = <<DataToClient, Data(piece)>> /\ Data(piece) \in Message
  <2>1. <<DataToClient, Data(piece)>> \in Seq(Message) /\ Data(piece) \in Message
    BY <1>6, DataTyped, RepliesTyped
  <2>2. down'[c] = <<>> \o <<DataToClient, Data(piece)>>
    BY <1>1, <1>5, <2>1, SentAll DEF DownOK
  <2> QED
    BY <2>1, <2>2, ConcatEmptySeq
<1>8. /\ (doing[c] = "get" => base[c] = Len(local[c][lpath[c]]))'
      /\ child'[c] \in {"loop", "sget"} /\ up'[c] = <<>>
  BY <1>1, <1>2, <1>5 DEF Fetching
<1>9. ASSUME Readable(c)' PROVE \E to \in [Nat -> Nat] : CopiedBy(c, to)'
  <2>1. /\ Data(piece).data = piece
        /\ \A k \in 1 .. Len(piece) : piece[k] = files[p][k]
    <3>1. PICK n \in Nat : n = Len(piece)
      BY <1>6
    <3>2. 0 + n = n /\ \A k \in 1 .. n : 0 + k = k
      OBVIOUS
    <3>3. \A k \in 1 .. 0 + n : files[p][k] # Nul
      BY <1>2, <1>5, <1>9, <3>1, <3>2 DEF Readable
    <3>4. 0 \in Nat /\ 0 <= Len(files[p])
      BY <1>6
    <3>5. /\ Data(piece).data = piece
          /\ \A k \in 1 .. n : piece[k] = files[p][0 + k]
      BY <1>4, <1>6, <3>1, <3>3, <3>4, PieceSent
    <3> QED
      BY <3>1, <3>2, <3>5
  <2>2. /\ DataToClient \in Message /\ DataToClient.type # "DATA" /\ DataToClient.data = <<>>
        /\ Data(piece).code # 0
    BY RepliesTyped DEF DataToClient, Data, Msg
  <2>3. Continued(<<DataToClient, Data(piece)>>, files[p], Len(piece), 0)
    <3>1. PICK a \in Message : a = DataToClient
      BY <2>2
    <3>2. PICK m \in Message : m = Data(piece)
      BY <1>7
    <3>3. /\ a.type # "DATA" /\ a.data = <<>> /\ m.code # 0
          /\ \A k \in 1 .. Len(m.data) : m.data[k] = files[p][k]
      BY <2>1, <2>2, <3>1, <3>2
    <3>4. Continued(<<a, m>>, files[p], Len(m.data), 0)
      BY <3>3, CarriesFirst, Zenon
    <3> QED
      BY <2>1, <3>1, <3>2, <3>4
  <2>4. PICK to \in [Nat -> Nat] : /\ Follows(down'[c], files[p], Len(piece), to)
                                   /\ to[1] = 0
    BY <1>7, <2>3 DEF Continued
  <2>5. base[c] = Len(local[c][lpath[c]]) /\ base[c] \in Nat
    <3>1. base[c] \in Nat
      BY DEF ClientOK, ClientTypeOK
    <3> QED
      BY <1>1, <3>1 DEF Fetching
  <2>6. Len(local[c][lpath[c]]) = base[c] + to[1] /\ \A k \in 1 .. to[1] : FALSE
    BY <2>4, <2>5
  <2>7. to[1] <= Len(piece)
    BY <1>6, <2>4
  <2>8. CopiedBy(c, to)'
    BY <1>2, <1>5, <2>4, <2>6, <2>7 DEF CopiedBy, Copied, Follows
  <2> QED
    BY <2>8
<1> QED
  BY <1>8, <1>9 DEF Fetching

(* The client takes what comes first and writes the data of it.            *)
LEMMA HeadRead ==
  ASSUME FtpInv, NEW c \in Client, NEW at \in [Nat -> Nat], CopiedBy(c, at),
         path[c] # NoPath, local[c][lpath[c]] \in Text,
         down[c] # <<>>, down'[c] = Tail(down[c]), UNCHANGED serverVars,
         lpath'[c] = lpath[c], base'[c] = base[c],
         local'[c][lpath[c]] = local[c][lpath[c]] \o Head(down[c]).data
  PROVE  \E to \in [Nat -> Nat] : CopiedBy(c, to)'
<1> USE DEF FtpInv
<1>1. PICK s \in Seq(Message) : s = down[c] /\ s # <<>>
  BY DEF DownOK
<1>2. PICK n \in Nat : n = pos[c]
  BY DEF ChildrenOK
<1>3. PICK t : t = files[path[c]]
  OBVIOUS
<1>4. PICK h \in Text : h = Head(s).data
  <2>1. Head(s) \in Message
    BY <1>1, FirstTaken
  <2> QED
    BY <2>1 DEF Message
<1>5. PICK g \in Text : g = local[c][lpath[c]]
  OBVIOUS
<1>6. PICK b \in Nat : b = base[c]
  BY DEF ClientOK, ClientTypeOK
<1>7. /\ Carries(s, t, n, at) /\ Copied(g, b, t, at[1])
      /\ child[c] = "sget" => at[Len(s) + 1] = n
  BY <1>1, <1>2, <1>3, <1>5, <1>6 DEF CopiedBy
<1> DEFINE to == [i \in Nat |-> at[i + 1]]
<1>8. /\ at[2] = at[1] + Len(h) /\ at[2] <= n
      /\ \A k \in 1 .. Len(h) : h[k] = t[at[1] + k]
      /\ Carries(Tail(s), t, n, to)
  <2>1. s # <<>> /\ Carries(s, t, n, at)
    BY <1>1, <1>7
  <2>2. /\ at[2] = at[1] + Len(Head(s).data) /\ at[2] <= n
        /\ \A k \in 1 .. Len(Head(s).data) : Head(s).data[k] = t[at[1] + k]
    <3>1. Head(s) = s[1] /\ Len(s) \in Nat /\ Len(s) >= 1
      BY <1>1, FirstTaken
    <3>2. 1 \in 1 .. Len(s) /\ 1 + 1 = 2
      BY <3>1
    <3> QED
      BY <2>1, <3>1, <3>2 DEF Carries
  <2>3. Carries(Tail(s), t, n, [i \in Nat |-> at[i + 1]])
    BY <2>1, CarriesTail
  <2> QED
    BY <1>4, <2>2, <2>3
<1>9. Len(s) \in Nat /\ Len(s) >= 1 /\ Len(Tail(s)) = Len(s) - 1
  BY <1>1, FirstTaken
<1>10. to \in [Nat -> Nat] /\ to[1] = at[2]
  OBVIOUS
<1>11. to[Len(Tail(s)) + 1] = at[Len(s) + 1]
  <2>1. PICK l \in Nat : l = Len(Tail(s)) /\ Len(s) = l + 1
    <3>1. PICK k \in Nat : k = Len(s) /\ k >= 1
      BY <1>9
    <3>2. k - 1 \in Nat /\ k = (k - 1) + 1
      BY <3>1
    <3> QED
      BY <1>9, <3>1, <3>2
  <2>2. l + 1 \in Nat /\ to[l + 1] = at[(l + 1) + 1]
    OBVIOUS
  <2> QED
    BY <2>1, <2>2
<1> HIDE DEF to
<1>12. Copied(g \o h, b, t, at[1] + Len(h))
  <2>1. PICK a \in Nat : a = at[1]
    OBVIOUS
  <2>2. Copied(g, b, t, a) /\ \A k \in 1 .. Len(h) : h[k] = t[a + k]
    BY <1>7, <1>8, <2>1
  <2>3. Copied(g \o h, b, t, a + Len(h))
    BY <2>2, CopyGrows
  <2> QED
    BY <2>1, <2>3
<1>13. /\ down'[c] = Tail(s) /\ files'[path'[c]] = t /\ pos'[c] = n /\ child'[c] = child[c]
       /\ local'[c][lpath'[c]] = g \o h /\ base'[c] = b
  BY <1>1, <1>2, <1>3, <1>4, <1>5, <1>6 DEF serverVars
<1>14. CopiedBy(c, to)'
  BY <1>7, <1>8, <1>10, <1>11, <1>12, <1>13 DEF CopiedBy
<1> QED
  BY <1>10, <1>14

(* get is told that data will come.                                        *)
LEMMA GetAnswered ==
  ASSUME FtpInv, NEW c \in Client, Joined(c), Agreed(c), Fetching(c), ~lost[c], Whole(c),
         GetReply(c), UNCHANGED serverVars, ReadsOn(c)'
  PROVE  Fetching(c)'
<1> USE DEF FtpInv
<1>1. doing[c] = "get" /\ local[c][lpath[c]] \in Text
  BY DEF GetReply, Reply, ClientOK, LocalInv
<1>2. PICK r \in HeaderOf(c) : After(c, r, IF ErrCheck(r.msg) THEN "prompt" ELSE "getData")
  BY DEF GetReply, Reply
<1>3. /\ doing'[c] = "getData" /\ ~ErrCheck(r.msg) /\ down'[c] = r.rest
  <2>1. doing'[c] \in {"astray", "prompt", "getData"}
    BY <1>2 DEF After, Do, ClientOK, ClientTypeOK
  <2>2. doing'[c] = "getData"
    BY <2>1 DEF ReadsOn
  <2> QED
    BY <1>2, <2>2 DEF After, Do, ClientOK, ClientTypeOK, DownOK
<1>4. /\ UNCHANGED <<lpath, base, up, serverUp, lost>> /\ local' = local
  BY <1>2, <1>3 DEF GetReply, Reply, After
<1>5. CASE down[c] = <<>>
  <2>1. ~serverUp /\ down'[c] = <<>>
    BY <1>3, <1>5, WholeTaken
  <2>2. child'[c] \in Ended
    BY <2>1 DEF Joined, serverVars, Ended
  <2>3. [i \in Nat |-> 0] \in [Nat -> Nat] /\ [i \in Nat |-> 0][1] = 0
    OBVIOUS
  <2>4. PICK to \in [Nat -> Nat] : to[1] = 0
    BY <2>3
  <2>5. Carries(down'[c], files'[path'[c]], pos'[c], to)
    <3>1. Len(down'[c]) = 0
      BY <2>1
    <3> QED
      BY <3>1 DEF Carries
  <2>6. to[1] <= pos'[c]
    <3>1. pos'[c] \in Nat
      BY DEF ChildrenOK, serverVars
    <3> QED
      BY <2>4, <3>1
  <2>7. Copied(local'[c][lpath'[c]], base'[c], files'[path'[c]], to[1])
    <3>1. PICK b \in Nat : b = base[c]
      BY DEF ClientOK, ClientTypeOK
    <3>2. Len(local[c][lpath[c]]) = b
      BY <1>1, <3>1 DEF Fetching
    <3>3. b = b + 0 /\ \A k \in 1 .. 0 : FALSE
      OBVIOUS
    <3> QED
      BY <1>4, <2>4, <3>1, <3>2, <3>3 DEF Copied
  <2>8. child'[c] # "sget"
    BY <2>2 DEF Ended
  <2>9. CopiedBy(c, to)'
    BY <2>5, <2>6, <2>7, <2>8 DEF CopiedBy
  <2> QED
    BY <1>3, <2>2, <2>9 DEF Fetching
<1>6. CASE down[c] # <<>>
  <2>1. /\ r.msg = Head(down[c])
        /\ Head(down[c]).data = <<>> => r.rest = Tail(down[c])
    BY <1>6, WholeTaken
  <2>2. Head(down[c]) = DataToClient /\ down[c] \in Seq(Message) /\ Head(down[c]) = down[c][1]
    <3>1. Fits(doing[c], down[c], cwd[c]) /\ down[c] \in Seq(Message) /\ cwd[c] \in Dir
      BY DEF Agreed, DownOK, ChildrenOK
    <3>2. Head(down[c]) \in {DataToClient, Denied, NotFound, Unknown}
      <4>1. doing[c] \in {"dir", "get"} /\ doing[c] \in Waiting
        BY <1>1 DEF Waiting
      <4> QED
        BY <1>6, <3>1, <4>1, FitsTaken
    <3>3. Head(down[c]) = DataToClient
      BY <1>3, <2>1, <3>2 DEF ErrCheck
    <3> QED
      BY <1>6, <3>1, <3>3, FirstTaken
  <2>3. Head(down[c]).data = <<>> /\ down'[c] = Tail(down[c])
    BY <1>3, <2>1, <2>2, AnswersPlain
  <2>4. ReadsOn(c)
    BY <1>1, <1>6, <2>2 DEF ReadsOn
  <2>5. child'[c] \in Ended \/ (child'[c] \in {"loop", "sget"} /\ up'[c] = <<>>)
    BY <1>4, <2>4 DEF Fetching, serverVars
  <2>6. ASSUME Readable(c)' PROVE \E to \in [Nat -> Nat] : CopiedBy(c, to)'
    <3>1. Readable(c) /\ path[c] # NoPath
      BY <2>6 DEF Readable, serverVars
    <3>2. PICK at \in [Nat -> Nat] : CopiedBy(c, at)
      BY <2>4, <3>1 DEF Fetching
    <3>3. local[c][lpath[c]] \o <<>> = local[c][lpath[c]]
      BY <1>1, ConcatEmptySeq DEF Text
    <3> QED
      BY <1>1, <1>4, <1>6, <2>3, <3>1, <3>2, <3>3, HeadRead
  <2> QED
    BY <1>3, <2>5, <2>6 DEF Fetching
<1> QED
  BY <1>5, <1>6

(* get writes one more piece.                                              *)
LEMMA PieceWritten ==
  ASSUME FtpInv, NEW c \in Client, Fetching(c), ~lost[c], Whole(c),
         GetData(c), UNCHANGED serverVars, ReadsOn(c)'
  PROVE  Fetching(c)'
<1> USE DEF FtpInv
<1>1. doing[c] = "getData" /\ lpath[c] \in Path /\ local[c][lpath[c]] \in Text
  BY DEF GetData, ClientOK, LocalInv
<1>2. PICK r \in MessageOf(c) :
         /\ After(c, r, IF Lasts(r.msg) THEN "getData" ELSE "prompt")
         /\ local' = [local EXCEPT ![c][lpath[c]] = @ \o r.msg.data]
  BY DEF GetData
<1>3. doing'[c] = "getData" /\ Lasts(r.msg) /\ down'[c] = r.rest
  <2>1. doing'[c] \in {"astray", "prompt", "getData"}
    BY <1>2 DEF After, Do, ClientOK, ClientTypeOK
  <2>2. doing'[c] = "getData"
    BY <2>1 DEF ReadsOn
  <2> QED
    BY <1>2, <2>2 DEF After, Do, ClientOK, ClientTypeOK, DownOK
<1>4. UNCHANGED <<lpath, base, up>>
  BY <1>2 DEF GetData, After
<1>5. down[c] # <<>>
  BY <1>3, WholeTaken, AnswersPlain
<1>6. r.msg = Head(down[c]) /\ r.rest = Tail(down[c])
  BY <1>2, <1>5, NothingLeft
<1>7. local'[c][lpath[c]] = local[c][lpath[c]] \o Head(down[c]).data
  BY <1>1, <1>2, <1>6 DEF ClientOK, ClientTypeOK
<1>8. ReadsOn(c)
  BY <1>1 DEF ReadsOn
<1>9. child'[c] \in Ended \/ (child'[c] \in {"loop", "sget"} /\ up'[c] = <<>>)
  BY <1>4, <1>8 DEF Fetching, serverVars
<1>10. ASSUME Readable(c)' PROVE \E to \in [Nat -> Nat] : CopiedBy(c, to)'
  <2>1. Readable(c) /\ path[c] # NoPath
    BY <1>10 DEF Readable, serverVars
  <2>2. PICK at \in [Nat -> Nat] : CopiedBy(c, at)
    BY <1>8, <2>1 DEF Fetching
  <2> QED
    BY <1>1, <1>3, <1>4, <1>5, <1>6, <1>7, <2>1, <2>2, HeadRead
<1> QED
  BY <1>3, <1>9, <1>10 DEF Fetching

(* What a get copies to is no business of other clients.                   *)
LEMMA OthersTransfer ==
  ASSUME FtpInv, NEW c \in Client, NEW d \in Client, c # d, ClientNext(d)
  PROVE  UNCHANGED <<doing[c], local[c], lpath[c], base[c]>>
<1> USE DEF FtpInv, ClientOK, ClientTypeOK
<1>1. doing'[c] = doing[c]
  BY ClientsApart
<1>2. /\ UNCHANGED local \/ \E x : local' = [local EXCEPT ![d] = x]
      /\ UNCHANGED lpath \/ \E x : lpath' = [lpath EXCEPT ![d] = x]
      /\ UNCHANGED base \/ \E x : base' = [base EXCEPT ![d] = x]
  <2>1. CASE AskGet(d)
    BY <2>1 DEF AskGet
  <2>2. CASE AskPut(d)
    BY <2>2 DEF AskPut
  <2>3. CASE GetReply(d)
    BY <2>3 DEF GetReply
  <2>4. CASE GetData(d)
    BY <2>4 DEF GetData
  <2>5. CASE ~AskGet(d) /\ ~AskPut(d) /\ ~GetReply(d) /\ ~GetData(d)
    BY <2>5 DEF ClientNext, Connect, AskQuit, AskPwd, AskCd, AskDir, Lcd,
         QuitReply, PwdReply, CdReply, DirReply, PutReply, DirData,
         GetFails, PutMore, PutEnd, PutFails, ClientEnds, transferVars
  <2> QED
    BY <2>1, <2>2, <2>3, <2>4, <2>5
<1> QED
  BY <1>1, <1>2

LEMMA GetOpens ==
  ASSUME FtpInv, NEW c \in Client, AskGet(c)
  PROVE  \E p \in Path, old \in Text :
             /\ local' = [local EXCEPT ![c][p] = old]
             /\ lpath' = [lpath EXCEPT ![c] = p]
             /\ base' = [base EXCEPT ![c] = Len(old)]
<1> DEFINE p(to) == Resolve(lcwd[c], to)
           old(to) == IF local[c][p(to)] = NoFile THEN <<>> ELSE local[c][p(to)]
<1>1. PICK from \in Typed : \E to \in Typed \cup {ExtractFilename(from)} :
        /\ local' = [local EXCEPT ![c][p(to)] = old(to)]
        /\ lpath' = [lpath EXCEPT ![c] = p(to)]
        /\ base' = [base EXCEPT ![c] = Len(old(to))]
  BY DEF AskGet
<1>2. PICK to \in Typed \cup {ExtractFilename(from)} :
        /\ local' = [local EXCEPT ![c][p(to)] = old(to)]
        /\ lpath' = [lpath EXCEPT ![c] = p(to)]
        /\ base' = [base EXCEPT ![c] = Len(old(to))]
  BY <1>1
<1>3. from \in Arg /\ to \in Arg
  BY <1>2, ArgTyped, ClientAssumption
<1>4. p(to) \in Path
  BY <1>3, ArgTyped
<1> HIDE DEF p
<1>5. old(to) \in Text
  BY <1>4, TextFacts DEF FtpInv, ClientOK, ClientTypeOK
<1> HIDE DEF old
<1> QED
  BY <1>2, <1>4, <1>5

(* A step of the client itself.                                            *)
LEMMA ClientFetches ==
  ASSUME FtpInv, NEW c \in Client, Joined(c), Agreed(c), Fetching(c), ~lost[c], Whole(c),
         ClientNext(c), UNCHANGED serverVars, ReadsOn(c)', ~lost'[c], Whole(c)
  PROVE  Fetching(c)'
<1> USE DEF FtpInv, ClientOK, ClientTypeOK
<1>1. doing'[c] \in {"get", "getData"}
  BY DEF ReadsOn
<1>2. CASE \/ Connect(c) \/ AskQuit(c) \/ AskPwd(c) \/ AskCd(c) \/ AskDir(c) \/ AskPut(c)
           \/ PutMore(c) \/ PutEnd(c) \/ PutFails(c) \/ ClientEnds(c)
  BY <1>1, <1>2, ZenonT(60) DEF Connect, AskQuit, AskPwd, AskCd, AskDir, AskPut, PutMore, PutEnd,
     PutFails, ClientEnds, Ask, Do
<1>3. CASE AskGet(c)
  <2>1. doing[c] = "prompt" /\ doing'[c] = "get" /\ down' = down
    BY <1>3 DEF AskGet, Ask, Do, Emit
  <2>2. down[c] = <<>>
    BY <2>1 DEF Agreed, Fits
  <2> QED
    BY <2>1, <2>2 DEF ReadsOn
<1>4. CASE QuitReply(c) \/ PwdReply(c) \/ CdReply(c) \/ DirReply(c) \/ PutReply(c) \/ DirData(c)
  BY <1>1, <1>4 DEF QuitReply, PwdReply, CdReply, DirReply, PutReply, DirData, Reply, After, Do
<1>5. CASE GetReply(c)
  BY <1>5, GetAnswered
<1>6. CASE GetData(c)
  BY <1>6, PieceWritten
<1>7. CASE GetFails(c)
  BY <1>7 DEF GetFails, WireOK
<1>8. CASE Lcd(c)
  <2>1. UNCHANGED <<wireVars, serverVars, doing, local, lpath, base>>
    BY <1>8 DEF Lcd
  <2>2. BytesStay
    BY <2>1 DEF BytesStay, serverVars
  <2> QED
    BY <2>1, <2>2, FetchingKept DEF wireVars, serverVars
<1> QED
  BY <1>2, <1>3, <1>4, <1>5, <1>6, <1>7, <1>8 DEF ClientNext

(* get remembers how long its file was.                                    *)
LEMMA BaseKept ==
  ASSUME FtpInv, NEW c \in Client, Fetching(c), [Next]_vars
  PROVE  (doing[c] = "get" => base[c] = Len(local[c][lpath[c]]))'
<1> USE DEF FtpInv, ClientOK, ClientTypeOK
<1>1. ASSUME UNCHANGED <<doing[c], local[c], lpath[c], base[c]>>
      PROVE  (doing[c] = "get" => base[c] = Len(local[c][lpath[c]]))'
  BY <1>1 DEF Fetching
<1>2. ASSUME NEW d \in Client, d # c, ClientNext(d)
      PROVE  UNCHANGED <<doing[c], local[c], lpath[c], base[c]>>
  BY <1>2, OthersTransfer
<1>3. CASE ClientNext(c)
  <2>1. CASE AskGet(c)
    <3>1. PICK p \in Path, old \in Text :
             /\ local' = [local EXCEPT ![c][p] = old]
             /\ lpath' = [lpath EXCEPT ![c] = p]
             /\ base' = [base EXCEPT ![c] = Len(old)]
      BY <2>1, GetOpens
    <3> QED
      BY <3>1
  <2>2. CASE Lcd(c)
    BY <1>1, <2>2 DEF Lcd
  <2>3. CASE ~AskGet(c) /\ ~Lcd(c)
    <3>1. doing'[c] # "get"
      BY <1>3, <2>3, ZenonT(60) DEF ClientNext, Connect, AskQuit, AskPwd, AskCd, AskDir, AskPut,
         QuitReply, PwdReply, CdReply, DirReply, GetReply, PutReply, DirData, GetData,
         GetFails, PutMore, PutEnd, PutFails, ClientEnds, Ask, Reply, After, Do
    <3> QED
      BY <3>1
  <2> QED
    BY <2>1, <2>2, <2>3
<1> QED
  BY <1>1, <1>2, <1>3 DEF Next, vars, clientVars

(* What was sent last is lost with the server.                             *)
LEMMA TailFetched ==
  ASSUME FtpInv, NEW c \in Client, Joined(c), Fetching(c), ~lost[c], Whole(c),
         LoseTail(c), UNCHANGED <<serverVars, clientVars>>, ReadsOn(c)'
  PROVE  Fetching(c)'
<1> USE DEF FtpInv
<1>1. PICK s \in Seq(Message) : s = down[c] /\ s # <<>>
  BY DEF LoseTail, DownOK
<1>2. down'[c] = SubSeq(s, 1, Len(s) - 1)
  BY <1>1 DEF LoseTail, DownOK
<1>3. child'[c] \in Ended
  BY DEF LoseTail, Joined, serverVars, Ended
<1>4. ReadsOn(c)
  <2>1. CASE doing[c] = "getData"
    BY <2>1 DEF ReadsOn
  <2>2. CASE doing[c] # "getData"
    <3>1. doing[c] = "get" /\ down'[c] # <<>> /\ down'[c][1] = DataToClient
      BY <2>2 DEF ReadsOn, clientVars
    <3>2. SubSeq(s, 1, Len(s) - 1) \in Seq(Message) /\ SubSeq(s, 1, Len(s) - 1) # <<>>
      <4>1. down' \in [Client -> Seq(Message)]
        BY LoseTailTyped DEF DownOK
      <4> QED
        BY <1>2, <3>1, <4>1
    <3>3. /\ Head(SubSeq(s, 1, Len(s) - 1)) = Head(s) /\ Head(s) = s[1]
          /\ Head(SubSeq(s, 1, Len(s) - 1)) = SubSeq(s, 1, Len(s) - 1)[1]
      BY <1>1, <3>2, HeadOfFront, FirstTaken
    <3> QED
      BY <1>1, <1>2, <3>1, <3>3 DEF ReadsOn
  <2> QED
    BY <2>1, <2>2
<1>5. ASSUME Readable(c)' PROVE \E to \in [Nat -> Nat] : CopiedBy(c, to)'
  <2>1. Readable(c)
    BY <1>5 DEF Readable, serverVars
  <2>2. PICK at \in [Nat -> Nat] : CopiedBy(c, at)
    BY <1>4, <2>1 DEF Fetching
  <2>3. PICK n \in Nat : n = pos[c]
    BY DEF ChildrenOK
  <2>4. Carries(s, files[path[c]], n, at)
    BY <1>1, <2>2, <2>3 DEF CopiedBy
  <2>5. Carries(SubSeq(s, 1, Len(s) - 1), files[path[c]], n, at)
    BY <1>1, <2>4, CarriesFront
  <2>6. child'[c] # "sget"
    BY <1>3 DEF Ended
  <2>7. UNCHANGED <<files, path, pos, local, lpath, base>>
    BY DEF serverVars, clientVars
  <2>8. CopiedBy(c, at)'
    BY <1>2, <2>2, <2>3, <2>5, <2>6, <2>7 DEF CopiedBy
  <2> QED
    BY <2>8
<1>6. (doing[c] = "get" => base[c] = Len(local[c][lpath[c]]))'
  BY DEF Fetching, clientVars
<1> QED
  BY <1>3, <1>5, <1>6 DEF Fetching

(* A step of the child of c.                                               *)
LEMMA ChildFetches ==
  ASSUME FtpInv, NEW c \in Client, Joined(c), Agreed(c), Fetching(c), ~lost[c], Whole(c),
         ChildStep(c), UNCHANGED clientVars, ReadsOn(c)'
  PROVE  Fetching(c)'
<1>1. CASE ~ReadsOn(c)
  BY <1>1, FirstFetched
<1>2. CASE ReadsOn(c)
  <2>1. RetrMore(c) \/ RetrEnd(c) \/ RetrFails(c)
    BY <1>2, ChildReads
  <2> QED
    BY <1>2, <2>1, MoreFetched, FetchFails
<1> QED
  BY <1>1, <1>2

(* Which file another child has read, and how far.                         *)
LEMMA OthersReading ==
  ASSUME FtpInv, NEW c \in Client, NEW d \in Client, c # d, ChildStep(d) \/ Accept(d)
  PROVE  UNCHANGED <<path[c], pos[c]>>
<1> USE DEF FtpInv, ChildrenOK
<1>1. CASE ChildStep(d)
  BY <1>1, ZenonT(60) DEF ChildStep, Pwd, Cwd, Quit, List, ListEntry, ListCrash, Retr, RetrMore,
     RetrEnd, RetrFails, Stor, StorData, StorFails, StorIllegal, StorEof, NoFunction, ReadOver,
     LoopEof, NoneOpen
<1>2. CASE Accept(d)
  BY <1>2 DEF Accept
<1> QED
  BY <1>1, <1>2

LEMMA FetchingStep ==
  ASSUME FtpInv, NEW c \in Client, Joined(c), Agreed(c), Fetching(c), ~lost[c], Whole(c),
         [Next]_vars, ReadsOn(c)', ~lost'[c], Whole(c)
  PROVE  Fetching(c)'
<1> USE DEF FtpInv
<1>1. BytesStay
  BY BytesStayAlways
<1>2. ASSUME NEW d \in Client, ChildStep(d) \/ Accept(d), UNCHANGED clientVars
      PROVE  Fetching(c)'
  <2>1. CASE c # d
    <3>1. UNCHANGED <<up[c], down[c], lost[c], child[c], serverUp, path[c], pos[c]>>
      BY <1>2, <2>1, OthersApart, ChildrenApart, OthersReading
    <3> QED
      BY <1>1, <1>2, <3>1, FetchingKept DEF clientVars
  <2>2. CASE c = d /\ ChildStep(c)
    BY <1>2, <2>2, ChildFetches
  <2>3. CASE c = d /\ Accept(c)
    <3>1. child[c] = "none" /\ UNCHANGED <<up, down, doing>>
      BY <1>2, <2>3 DEF Accept, wireVars, clientVars
    <3>2. ReadsOn(c)
      BY <3>1 DEF ReadsOn
    <3> QED
      BY <3>1, <3>2 DEF Fetching, Ended
  <2> QED
    BY <1>2, <2>1, <2>2, <2>3
<1>3. CASE (SigChld \/ Wait \/ ServerKilled) /\ UNCHANGED clientVars
  <2>1. /\ UNCHANGED <<up, down, lost, path, pos, files>> /\ (serverUp' => serverUp)
        /\ child'[c] \in Ended \/ child' = child
    BY <1>3 DEF SigChld, Wait, ServerKilled, wireVars, Ended
  <2> QED
    BY <1>1, <1>3, <2>1, FetchingKept DEF clientVars
<1>4. ASSUME NEW d \in Client, ClientNext(d), UNCHANGED serverVars
      PROVE  Fetching(c)'
  <2>1. CASE c # d
    <3>1. /\ UNCHANGED <<up[c], down[c], lost[c], serverUp>>
          /\ UNCHANGED <<doing[c], local[c], lpath[c], base[c]>>
      BY <1>4, <2>1, OthersApart, ClientsApart, OthersTransfer
    <3> QED
      BY <1>1, <1>4, <3>1, FetchingKept DEF serverVars
  <2>2. CASE c = d
    BY <1>4, <2>2, ClientFetches
  <2> QED
    BY <2>1, <2>2
<1>5. ASSUME NEW d \in Client, LoseTail(d), UNCHANGED <<serverVars, clientVars>>
      PROVE  Fetching(c)'
  <2>1. CASE c # d
    <3>1. UNCHANGED <<up[c], down[c], lost[c], serverUp>>
      BY <1>5, <2>1, OthersApart DEF LoseTail
    <3> QED
      BY <1>1, <1>5, <3>1, FetchingKept DEF serverVars, clientVars
  <2>2. CASE c = d
    BY <1>5, <2>2, TailFetched
  <2> QED
    BY <2>1, <2>2
<1>6. CASE UNCHANGED vars
  BY <1>1, <1>6, FetchingKept DEF vars, wireVars, serverVars, clientVars
<1> QED
  BY <1>2, <1>3, <1>4, <1>5, <1>6 DEF Next, ServerStep

LEMMA FetchInvStep == FtpInv /\ StepInv /\ FetchInv /\ [Next]_vars => FetchInv'
<1> SUFFICES ASSUME FtpInv, StepInv, FetchInv, [Next]_vars, NEW c \in Client
             PROVE  Fetching(c)'
  BY DEF FetchInv
<1>1. Joined(c) /\ (~lost[c] /\ Whole(c) => Agreed(c)) /\ Fetching(c)
  BY DEF StepInv, FetchInv
<1>2. CASE ReadsOn(c)' /\ ~lost'[c] /\ Whole(c)
  <2>1. ~lost[c]
    BY <1>2, LostStays
  <2>2. Whole(c)
    BY <1>2 DEF Whole
  <2> QED
    BY <1>1, <1>2, <2>1, <2>2, FetchingStep
<1>3. CASE ~(ReadsOn(c)' /\ ~lost'[c] /\ Whole(c))
  <2>1. (doing[c] = "get" => base[c] = Len(local[c][lpath[c]]))'
    BY <1>1, BaseKept
  <2> QED
    BY <1>3, <2>1 DEF Fetching
<1> QED
  BY <1>2, <1>3

LEMMA FetchInvInit == Init => FetchInv
<1> SUFFICES ASSUME Init, NEW c \in Client PROVE Fetching(c)
  BY DEF FetchInv
<1>1. doing[c] = "off"
  BY DEF Init, ClientInit
<1> QED
  BY <1>1 DEF Fetching, ReadsOn

(* What stands in both, seen as sequences.                                 *)
LEMMA CopySeen ==
  ASSUME NEW g \in Text, NEW b \in Nat, NEW t \in Text, NEW n \in Nat, n <= Len(t),
         Copied(g, b, t, n)
  PROVE  SubSeq(g, b + 1, Len(g)) = SubSeq(t, 1, n)
<1>1. /\ Len(g) = b + n /\ Len(t) \in Nat
      /\ (\A i \in 1 .. Len(g) : g[i] \in Byte) /\ (\A i \in 1 .. Len(t) : t[i] \in Byte)
  BY LenProperties, ElementOfSeq DEF Text, Copied
<1>2. PICK m \in Nat : m = b + n /\ m = Len(g)
  BY <1>1
<1>3. /\ b + 1 \in Nat /\ \A i \in b + 1 .. m : g[i] \in Byte
      /\ \A i \in 1 .. n : t[i] \in Byte
  BY <1>1, <1>2
<1> DEFINE u == SubSeq(g, b + 1, m)
           v == SubSeq(t, 1, n)
<1>4. /\ u \in Seq(Byte)
      /\ Len(u) = IF b + 1 <= m THEN m - (b + 1) + 1 ELSE 0
      /\ \A i \in 1 .. m - (b + 1) + 1 : u[i] = g[b + 1 + i - 1]
  BY <1>3, SubSeqProperties
<1>5. /\ v \in Seq(Byte)
      /\ Len(v) = IF 1 <= n THEN n - 1 + 1 ELSE 0
      /\ \A i \in 1 .. n - 1 + 1 : v[i] = t[1 + i - 1]
  BY <1>3, SubSeqProperties
<1> HIDE DEF u, v
<1>6. Len(u) = n /\ Len(v) = n
  BY <1>2, <1>4, <1>5
<1>7. ASSUME NEW i \in 1 .. n PROVE u[i] = v[i]
  <2>1. /\ i \in 1 .. m - (b + 1) + 1 /\ b + 1 + i - 1 = b + i
        /\ i \in 1 .. n - 1 + 1 /\ 1 + i - 1 = i
    BY <1>2
  <2>2. u[i] = g[b + i] /\ v[i] = t[i]
    BY <1>4, <1>5, <2>1
  <2> QED
    BY <2>2 DEF Copied
<1>8. u = v
  BY <1>4, <1>5, <1>6, <1>7, SeqEqual
<1> QED
  BY <1>2, <1>8 DEF u, v

LEMMA PrefixPlain ==
  ASSUME NEW t \in Text, NEW n \in Nat, n <= Len(t), Plain(SubSeq(t, 1, n))
  PROVE  \A i \in 1 .. n : t[i] # Nul
<1>1. Len(t) \in Nat /\ \A i \in 1 .. Len(t) : t[i] \in Byte
  BY LenProperties, ElementOfSeq DEF Text
<1> DEFINE v == SubSeq(t, 1, n)
<1>2. /\ v \in Seq(Byte)
      /\ Len(v) = IF 1 <= n THEN n - 1 + 1 ELSE 0
      /\ \A i \in 1 .. n - 1 + 1 : v[i] = t[1 + i - 1]
  <2>1. \A i \in 1 .. n : t[i] \in Byte
    BY <1>1
  <2> QED
    BY <2>1, SubSeqProperties
<1>3. \A i \in DOMAIN v : v[i] # Nul
  BY DEF Plain
<1> HIDE DEF v
<1>4. DOMAIN v = 1 .. Len(v) /\ Len(v) = n
  BY <1>2, LenProperties
<1>5. \A i \in 1 .. n : i \in 1 .. n - 1 + 1 /\ 1 + i - 1 = i
  OBVIOUS
<1> QED
  BY <1>2, <1>3, <1>4, <1>5

(* What the client is told of the end of the data ends.                    *)
LEMMA GetEndsRight ==
  ASSUME FtpInv, StepInv, FetchInv, [Next]_vars, NEW c \in Client \ Split, GetEnds(c), ~lost[c],
         path[c] # NoPath, Plain(SubSeq(files[path[c]], 1, pos[c]))
  PROVE  SubSeq(local'[c][lpath[c]], base[c] + 1, Len(local'[c][lpath[c]]))
           = SubSeq(files[path[c]], 1, pos[c])
<1> USE DEF FtpInv
<1>1. doing[c] = "getData" /\ doing'[c] = "prompt" /\ down[c] # <<>> /\ Head(down[c]) = DataEnd
  BY DEF GetEnds
<1>2. DataEnd.type = "DATA" /\ DataEnd.code = 0 /\ DataEnd.data = <<>>
  BY DEF DataEnd, Msg
<1>3. ReadsOn(c) /\ Whole(c)
  BY <1>1, <1>2 DEF ReadsOn, Whole
<1>4. PICK g \in Text : g = local[c][lpath[c]]
  BY <1>1 DEF ClientOK, LocalInv
<1>5. PICK t \in Text : t = files[path[c]]
  BY DEF ChildrenOK, FileInv
<1>6. PICK n \in Nat : n = pos[c] /\ n <= Len(t)
  BY <1>5 DEF ChildrenOK, FileInv
<1>7. PICK b \in Nat : b = base[c]
  BY DEF ClientOK, ClientTypeOK
<1>8. \A i \in 1 .. n : t[i] # Nul
  BY <1>5, <1>6, PrefixPlain
<1>9. PICK at \in [Nat -> Nat] : CopiedBy(c, at)
  <2>1. Readable(c)
    BY <1>5, <1>6, <1>8 DEF Readable
  <2> QED
    BY <1>3, <2>1 DEF FetchInv, Fetching
<1>10. Copied(g, b, t, n)
  <2>1. Carries(down[c], t, n, at) /\ Copied(g, b, t, at[1])
    BY <1>4, <1>5, <1>6, <1>7, <1>9 DEF CopiedBy
  <2>2. at[1] = n
    <3>1. PICK s \in Seq(Message) : s = down[c] /\ s # <<>>
      BY <1>1 DEF DownOK
    <3>2. Carries(s, t, n, at) /\ Head(s).type = "DATA" /\ Head(s).code = 0
      BY <1>1, <1>2, <2>1, <3>1
    <3>3. Head(s) = s[1] /\ 1 \in 1 .. Len(s)
      <4>1. Head(s) = s[1] /\ Len(s) \in Nat /\ Len(s) >= 1
        BY <3>1, FirstTaken
      <4> QED
        BY <4>1
    <3>4. s[1].type = "DATA" /\ s[1].code = 0 => at[1] = n
      BY <3>2, <3>3 DEF Carries
    <3> QED
      BY <3>2, <3>3, <3>4
  <2> QED
    BY <2>1, <2>2
<1>11. GetData(c)
  <2>1. ClientNext(c)
    <3>1. doing'[c] # doing[c]
      BY <1>1
    <3>2. ASSUME NEW d \in Client, ClientNext(d), d # c PROVE FALSE
      BY <3>1, <3>2, ClientsApart
    <3> QED
      BY <3>1, <3>2 DEF Next, vars, clientVars
  <2>2. ~GetFails(c)
    <3>1. \A r \in MessageOf(c) : r.msg.data = <<>>
      BY <1>1, <1>2, WholeTaken
    <3> QED
      BY <3>1 DEF GetFails
  <2>3. CASE ~GetData(c) /\ ~ClientEnds(c)
    BY <1>1, <2>1, <2>2, <2>3 DEF ClientNext, Connect, AskQuit, AskPwd, AskCd, AskDir, AskGet,
       AskPut, Lcd, QuitReply, PwdReply, CdReply, DirReply, GetReply, PutReply, DirData, PutMore,
       PutEnd, PutFails, Ask, Reply
  <2>4. ~ClientEnds(c)
    BY <1>1 DEF ClientEnds, Do, ClientOK, ClientTypeOK
  <2> QED
    BY <2>3, <2>4
<1>12. local'[c][lpath[c]] = g
  <2>1. PICK r \in MessageOf(c) : local' = [local EXCEPT ![c][lpath[c]] = @ \o r.msg.data]
    BY <1>11 DEF GetData
  <2>2. r.msg.data = <<>>
    BY <1>1, <1>2, WholeTaken
  <2>3. g \o <<>> = g
    BY ConcatEmptySeq DEF Text
  <2>4. lpath[c] \in Path
    BY <1>1 DEF ClientOK, LocalInv
  <2> QED
    BY <1>4, <2>1, <2>2, <2>3, <2>4 DEF ClientOK, ClientTypeOK
<1>13. SubSeq(g, b + 1, Len(g)) = SubSeq(t, 1, n)
  BY <1>6, <1>10, CopySeen
<1> QED
  BY <1>5, <1>6, <1>7, <1>12, <1>13

(* A get that was told of the end of the data has copied what its child    *)
(* has read of the server's file, whatever other connections have appended *)
(* to that file meanwhile, as long as recv() gets what was sent whole      *)
(* (GetCopies).                                                            *)
THEOREM GetsCopy == Spec => GetCopies
<1>1. StepInv /\ FetchInv /\ FtpInv /\ [Next]_vars =>
        [\A c \in Client \ Split :
           GetEnds(c) /\ ~lost[c] /\ path[c] # NoPath
           => LET read == SubSeq(files[path[c]], 1, pos[c])
                  got  == local'[c][lpath[c]]
              IN Plain(read) => SubSeq(got, base[c] + 1, Len(got)) = read]_vars
  BY GetEndsRight
<1>2. Init => StepInv /\ FetchInv
  BY StepInvInit, FetchInvInit
<1>3. FtpInv /\ StepInv /\ FetchInv /\ [Next]_vars => StepInv' /\ FetchInv'
  BY StepInvStep, FetchInvStep
<1> QED
  BY <1>1, <1>2, <1>3, InvAlways, PTL DEF Spec, GetCopies
-----------------------------------------------------------------------------
(* What a put stores. *)

(* The stream s holds no request of a put but as its last element.         *)
StorLast(s) == \A i \in 1 .. Len(s) : s[i].type = "STOR" => i = Len(s)
HasStor(s)  == \E i \in 1 .. Len(s) : s[i].type = "STOR"

(* The first n of t stand, in their order, in the file f behind p bytes.   *)
Placed(g, t, n, f, p) ==
  /\ \A i \in 1 .. n : g[i] \in p + 1 .. Len(f) /\ f[g[i]] = t[i]
  /\ \A i \in 1 .. n : \A j \in 1 .. n : i < j => g[i] < g[j]
Stored(t, n, f, p) == \E g \in [Nat -> Nat] : Placed(g, t, n, f, p)

(* An answer has come, or its data come, to a client that is in step.      *)
Hears(c) == \/ doing[c] \in Asks /\ down[c] # <<>>
            \/ doing[c] \in {"dirData", "getData"}

(* Where a client that hears its child has nothing on its way, and what    *)
(* may be on its way behind the request of a put.                          *)
Drained(c) == Hears(c) => up[c] = <<>> /\ (child[c] = "sput" => doing[c] = "put")
Asked(c)   == /\ StorLast(up[c])
              /\ HasStor(up[c]) => lpos[c] = 0 /\ doing[c] \in {"put", "ended"}

(* The child stores the put that the client has begun last.                *)
Stores(c) == child[c] = "sput" /\ ~HasStor(up[c])

(* What the child has stored, and then what is on its way, is what the     *)
(* client has sent.                                                        *)
StoredBy(c, at) ==
  /\ Carries(up[c], putting[c], lpos[c], at)
  /\ at[1] <= lpos[c]
  /\ doing[c] # "ended" => at[Len(up[c]) + 1] = lpos[c]
  /\ Stored(putting[c], at[1], files[path[c]], pos[c])
Arrived(c)  == \E at \in [Nat -> Nat] : StoredBy(c, at)
Legible(c)  == \A k \in 1 .. lpos[c] : putting[c][k] # Nul
Delivers(c) == Stores(c) /\ Legible(c) => Arrived(c)

(* The end of the data is sent behind all of them.                         *)
Ending(c) == Stores(c) => /\ doing[c] \in {"put", "putData"} => Unended(up[c])
                          /\ Unended(up[c]) \/ lpos[c] = Len(putting[c])

Putting(c) == Drained(c) /\ Asked(c) /\ Delivers(c) /\ Ending(c)
PutInv     == \A c \in Client \ Split : ~lost[c] /\ serverUp => Putting(c)

(* Streams: what is left of one when its first element is taken, one that  *)
(* gets an element more, and one that loses its end.                       *)
Left(s, u) == /\ Len(u) \in Nat /\ Len(s) = Len(u) + 1
              /\ \A i \in 1 .. Len(u) : u[i] = s[i + 1]

LEMMA TailLeft ==
  ASSUME NEW S, NEW s \in Seq(S), s # <<>>
  PROVE  Left(s, Tail(s)) /\ Tail(s) \in Seq(S) /\ Len(s) \in Nat /\ Head(s) = s[1]
<1>1. /\ Len(s) \in Nat /\ Len(s) >= 1 /\ Head(s) = s[1]
      /\ Tail(s) \in Seq(S) /\ Len(Tail(s)) = Len(s) - 1
      /\ \A i \in 1 .. Len(s) - 1 : Tail(s)[i] = s[i + 1]
  BY FirstTaken
<1> QED
  BY <1>1 DEF Left

LEMMA LeftFacts ==
  ASSUME NEW s, NEW u, Left(s, u)
  PROVE  /\ Unended(s) => Unended(u)
         /\ StorLast(s) => StorLast(u)
         /\ HasStor(u) => HasStor(s)
         /\ HasStor(s) /\ s[1].type # "STOR" => HasStor(u)
         /\ StorLast(s) /\ s[1].type = "STOR" => Len(u) = 0
<1>1. PICK l \in Nat : l = Len(u) /\ Len(s) = l + 1 /\ \A i \in 1 .. l : u[i] = s[i + 1]
  BY DEF Left
<1>2. \A i \in 1 .. l : i + 1 \in 1 .. l + 1
  BY <1>1
<1>4. Unended(s) => Unended(u)
  BY <1>1, <1>2 DEF Unended
<1>5. HasStor(u) => HasStor(s)
  BY <1>1, <1>2 DEF HasStor
<1>6. StorLast(s) => StorLast(u)
  <2> SUFFICES ASSUME StorLast(s), NEW i \in 1 .. l, u[i].type = "STOR" PROVE i = l
    BY <1>1 DEF StorLast
  <2>1. PICK j \in 1 .. l + 1 : j = i + 1
    BY <1>2
  <2>2. s[j].type = "STOR"
    BY <1>1, <2>1
  <2>3. j = l + 1
    BY <1>1, <2>2 DEF StorLast
  <2> QED
    BY <2>1, <2>3
<1>7. ASSUME HasStor(s), s[1].type # "STOR" PROVE HasStor(u)
  <2>1. PICK j \in 1 .. l + 1 : s[j].type = "STOR"
    BY <1>1, <1>7 DEF HasStor
  <2>2. j # 1
    BY <1>7, <2>1
  <2>3. PICK i \in 1 .. l : j = i + 1
    <3>1. j - 1 \in 1 .. l /\ j = (j - 1) + 1
      BY <2>2
    <3> QED
      BY <3>1
  <2> QED
    BY <1>1, <2>1, <2>3 DEF HasStor
<1>8. ASSUME StorLast(s), s[1].type = "STOR" PROVE l = 0
  <2>1. 1 \in 1 .. l + 1
    OBVIOUS
  <2>2. 1 = l + 1
    BY <1>1, <1>8, <2>1 DEF StorLast
  <2> QED
    BY <2>2
<1> QED
  BY <1>1, <1>4, <1>5, <1>6, <1>7, <1>8

More(s, u, m) == /\ Len(s) \in Nat /\ Len(u) = Len(s) + 1 /\ u[Len(s) + 1] = m
                 /\ \A i \in 1 .. Len(s) : u[i] = s[i]

LEMMA AppendMore ==
  ASSUME NEW S, NEW s \in Seq(S), NEW m \in S
  PROVE  More(s, Append(s, m), m) /\ Append(s, m) = s \o <<m>>
<1>1. Len(s) \in Nat
  BY LenProperties
<1>2. Append(s, m) = s \o <<m>>
  BY AppendIsConcat
<1> QED
  BY <1>1, <1>2, AppendProperties DEF More

LEMMA MoreFacts ==
  ASSUME NEW s, NEW u, NEW m, More(s, u, m)
  PROVE  /\ Unended(s) /\ (m.type = "DATA" => m.code = 1) => Unended(u)
         /\ ~HasStor(s) => StorLast(u) /\ (HasStor(u) => m.type = "STOR")
         /\ ~HasStor(u) => ~HasStor(s)
         /\ m.type = "STOR" => HasStor(u)
<1>1. PICK l \in Nat : l = Len(s) /\ Len(u) = l + 1 /\ u[l + 1] = m /\ \A i \in 1 .. l : u[i] = s[i]
  BY DEF More
<1>2. l + 1 \in 1 .. l + 1 /\ \A i \in 1 .. l + 1 : i \in 1 .. l \/ i = l + 1
  BY <1>1
<1>3. \A i \in 1 .. l : i \in 1 .. l + 1
  BY <1>1
<1>4. \A i \in 1 .. l + 1 : (i \in 1 .. l /\ u[i] = s[i]) \/ (i = l + 1 /\ u[i] = m)
  BY <1>1, <1>2
<1>6. Unended(s) /\ (m.type = "DATA" => m.code = 1) => Unended(u)
  BY <1>1, <1>4 DEF Unended
<1>7. ~HasStor(s) => StorLast(u) /\ (HasStor(u) => m.type = "STOR")
  BY <1>1, <1>4 DEF StorLast, HasStor
<1>8. ~HasStor(u) => ~HasStor(s)
  BY <1>1, <1>3 DEF HasStor
<1>9. m.type = "STOR" => HasStor(u)
  BY <1>1, <1>2 DEF HasStor
<1> QED
  BY <1>6, <1>7, <1>8, <1>9

Front(s, u) == /\ Len(s) \in Nat /\ Len(u) \in Nat /\ Len(u) <= Len(s)
               /\ \A i \in 1 .. Len(u) : u[i] = s[i]

LEMMA PrefixFront ==
  ASSUME NEW S, NEW s \in Seq(S), NEW k \in 0 .. Len(s)
  PROVE  Front(s, SubSeq(s, 1, k))
<1>1. Len(s) \in Nat /\ \A i \in 1 .. Len(s) : s[i] \in S
  BY LenProperties, ElementOfSeq
<1>2. k \in Nat /\ k <= Len(s)
  BY <1>1
<1>3. \A i \in 1 .. k : i \in 1 .. Len(s) /\ s[i] \in S
  <2>1. \A i \in 1 .. k : i \in 1 .. Len(s)
    BY <1>1, <1>2
  <2> QED
    BY <1>1, <2>1
<1> DEFINE u == SubSeq(s, 1, k)
<1>4. /\ Len(u) = (IF 1 <= k THEN k - 1 + 1 ELSE 0)
      /\ \A i \in 1 .. k - 1 + 1 : u[i] = s[1 + i - 1]
  BY <1>2, <1>3, SubSeqProperties
<1> HIDE DEF u
<1>5. Len(u) = k
  BY <1>2, <1>4
<1>6. \A i \in 1 .. k : u[i] = s[i]
  <2> SUFFICES ASSUME NEW i \in 1 .. k PROVE u[i] = s[i]
    OBVIOUS
  <2>1. i \in 1 .. k - 1 + 1 /\ 1 + i - 1 = i
    BY <1>2
  <2> QED
    BY <1>4, <2>1
<1> QED
  BY <1>1, <1>2, <1>5, <1>6 DEF Front, u

LEMMA FrontFacts ==
  ASSUME NEW s, NEW u, Front(s, u)
  PROVE  /\ Unended(s) => Unended(u)
         /\ StorLast(s) => StorLast(u)
         /\ HasStor(u) => HasStor(s)
         /\ Len(s) = 0 => Len(u) = 0
<1>1. PICK l \in Nat : l = Len(s)
  BY DEF Front
<1>2. PICK k \in Nat : k = Len(u) /\ k <= l /\ \A i \in 1 .. k : u[i] = s[i]
  BY <1>1 DEF Front
<1>3. \A i \in 1 .. k : i \in 1 .. l /\ (i = l => i = k)
  BY <1>2
<1>5. Unended(s) => Unended(u)
  BY <1>1, <1>2, <1>3 DEF Unended
<1>6. StorLast(s) => StorLast(u)
  BY <1>1, <1>2, <1>3 DEF StorLast
<1>7. HasStor(u) => HasStor(s)
  BY <1>1, <1>2, <1>3 DEF HasStor
<1> QED
  BY <1>1, <1>2, <1>5, <1>6, <1>7

LEMMA FrontCarries ==
  ASSUME NEW s, NEW u, Front(s, u), NEW t, NEW n, NEW at, Carries(s, t, n, at)
  PROVE  Carries(u, t, n, at)
<1>1. \A i \in 1 .. Len(u) : i \in 1 .. Len(s) /\ u[i] = s[i]
  BY DEF Front
<1> QED
  BY <1>1 DEF Carries

(* Files: nothing stored, a file or a source that agrees, and more stored. *)
LEMMA StoredNone ==
  ASSUME NEW t, NEW f, NEW p
  PROVE  Stored(t, 0, f, p)
<1> DEFINE g == [i \in Nat |-> 0]
<1>1. g \in [Nat -> Nat]
  OBVIOUS
<1>2. Placed(g, t, 0, f, p)
  <2>1. \A i \in 1 .. 0 : FALSE
    OBVIOUS
  <2> QED
    BY <2>1 DEF Placed
<1> QED
  BY <1>1, <1>2 DEF Stored

LEMMA StoredGrown ==
  ASSUME NEW t, NEW r, NEW n \in Nat, NEW f, NEW h, NEW p \in Nat,
         Len(f) \in Nat, Len(h) \in Nat, Len(f) <= Len(h),
         \A k \in 1 .. Len(f) : h[k] = f[k], \A k \in 1 .. n : r[k] = t[k],
         Stored(t, n, f, p)
  PROVE  Stored(r, n, h, p)
<1>1. PICK g \in [Nat -> Nat] : Placed(g, t, n, f, p)
  BY DEF Stored
<1>2. PICK a \in Nat : a = Len(f)
  OBVIOUS
<1>3. PICK b \in Nat : b = Len(h)
  OBVIOUS
<1>s. a <= b
  BY <1>2, <1>3
<1>4. ASSUME NEW i \in 1 .. n PROVE g[i] \in p + 1 .. b /\ h[g[i]] = r[i]
  <2>1. PICK x \in Nat : x = g[i]
    BY <1>1
  <2>2. x \in p + 1 .. a
    BY <1>1, <1>2, <2>1 DEF Placed
  <2>3. f[x] = t[i]
    BY <1>1, <2>1 DEF Placed
  <2>4. x \in 1 .. a /\ x \in p + 1 .. b
    BY <1>s, <2>2
  <2> QED
    BY <1>2, <2>1, <2>3, <2>4
<1>5. Placed(g, r, n, h, p)
  BY <1>1, <1>3, <1>4 DEF Placed
<1> QED
  BY <1>1, <1>5 DEF Stored

LEMMA StoredMore ==
  ASSUME NEW t, NEW n \in Nat, NEW f \in Text, NEW h \in Text, NEW p \in Nat, p <= Len(f),
         Stored(t, n, f, p), \A k \in 1 .. Len(h) : h[k] = t[n + k]
  PROVE  Stored(t, n + Len(h), f \o h, p)
<1>1. PICK g \in [Nat -> Nat] : Placed(g, t, n, f, p)
  BY DEF Stored
<1>2. PICK a \in Nat : a = Len(f)
  BY LenProperties DEF Text
<1>s. p <= a
  BY <1>2
<1>3. PICK d \in Nat : d = Len(h)
  BY LenProperties DEF Text
<1>4. PICK u : u = f \o h
  OBVIOUS
<1>5. Len(u) = a + d /\ \A i \in 1 .. a + d : u[i] = IF i <= a THEN f[i] ELSE h[i - a]
  BY <1>2, <1>3, <1>4, ConcatProperties DEF Text
<1>6. \A i \in 1 .. a : u[i] = f[i]
  <2>1. \A i \in 1 .. a : i \in 1 .. a + d /\ i <= a
    OBVIOUS
  <2> QED
    BY <1>5, <2>1
<1>7. \A k \in 1 .. d : u[a + k] = h[k]
  <2> SUFFICES ASSUME NEW k \in 1 .. d PROVE u[a + k] = h[k]
    OBVIOUS
  <2>1. PICK j \in 1 .. a + d : j = a + k
    OBVIOUS
  <2>2. ~(j <= a) /\ j - a = k
    BY <2>1
  <2>3. u[j] = h[j - a]
    BY <1>5, <2>2
  <2> QED
    BY <2>1, <2>2, <2>3
<1> DEFINE to == [i \in Nat |-> IF i <= n THEN g[i] ELSE a + (i - n)]
<1>8. /\ to \in [Nat -> Nat]
      /\ \A i \in Nat : i <= n => to[i] = g[i]
      /\ \A i \in Nat : ~(i <= n) => to[i] = a + (i - n)
  <2>1. \A i \in Nat : ~(i <= n) => a + (i - n) \in Nat
    OBVIOUS
  <2> QED
    BY <1>1, <2>1
<1> HIDE DEF to
<1>9. ASSUME NEW i \in 1 .. n
      PROVE  to[i] \in p + 1 .. a + d /\ u[to[i]] = t[i] /\ to[i] <= a /\ to[i] = g[i]
  <2>1. to[i] = g[i]
    BY <1>8
  <2>2. PICK x \in Nat : x = g[i]
    <3>1. i \in Nat
      OBVIOUS
    <3> QED
      BY <1>1, <3>1, Zenon
  <2>3. x \in p + 1 .. a
    BY <1>1, <1>2, <2>2 DEF Placed
  <2>4. f[x] = t[i]
    BY <1>1, <2>2 DEF Placed
  <2>5. x \in 1 .. a /\ x \in p + 1 .. a + d /\ x <= a
    BY <1>s, <2>3
  <2> QED
    BY <1>6, <2>1, <2>2, <2>4, <2>5
<1>10. ASSUME NEW i \in n + 1 .. n + d
       PROVE  to[i] \in p + 1 .. a + d /\ u[to[i]] = t[i] /\ to[i] > a
  <2>1. PICK k \in 1 .. d : i = n + k
    <3>1. i - n \in 1 .. d /\ i = n + (i - n)
      OBVIOUS
    <3> QED
      BY <3>1
  <2>2. to[i] = a + k
    <3>1. i \in Nat /\ ~(i <= n) /\ a + (i - n) = a + k
      BY <2>1
    <3> QED
      BY <1>8, <3>1
  <2>3. a + k \in p + 1 .. a + d /\ a + k > a
    BY <1>s
  <2>4. u[a + k] = h[k] /\ h[k] = t[n + k]
    BY <1>3, <1>7
  <2> QED
    BY <2>1, <2>2, <2>3, <2>4
<1>11. \A i \in 1 .. n + d : i \in 1 .. n \/ i \in n + 1 .. n + d
  OBVIOUS
<1>12. \A i \in 1 .. n + d : to[i] \in p + 1 .. a + d /\ u[to[i]] = t[i]
  BY <1>9, <1>10, <1>11
<1>13. ASSUME NEW i \in 1 .. n + d, NEW j \in 1 .. n + d, i < j PROVE to[i] < to[j]
  <2>1. CASE j \in 1 .. n
    <3>1. i \in 1 .. n
      BY <1>13, <2>1
    <3>2. g[i] < g[j]
      BY <1>1, <1>13, <2>1, <3>1 DEF Placed
    <3> QED
      BY <1>9, <2>1, <3>1, <3>2
  <2>2. CASE j \in n + 1 .. n + d /\ i \in 1 .. n
    <3>1. PICK x \in Nat : x = to[i]
      BY <1>8
    <3>2. PICK y \in Nat : y = to[j]
      BY <1>8
    <3>3. x <= a /\ y > a
      BY <1>9, <1>10, <2>2, <3>1, <3>2
    <3>4. x < y
      BY <3>3
    <3> QED
      BY <3>1, <3>2, <3>4
  <2>3. CASE j \in n + 1 .. n + d /\ i \in n + 1 .. n + d
    <3>1. to[i] = a + (i - n) /\ to[j] = a + (j - n)
      <4>1. i \in Nat /\ j \in Nat /\ ~(i <= n) /\ ~(j <= n)
        BY <2>3
      <4> QED
        BY <1>8, <4>1
    <3>2. a + (i - n) < a + (j - n)
      BY <1>13
    <3> QED
      BY <3>1, <3>2
  <2> QED
    BY <1>11, <2>1, <2>2, <2>3
<1>14. Placed(to, t, n + d, u, p)
  BY <1>5, <1>12, <1>13 DEF Placed
<1> QED
  BY <1>3, <1>4, <1>8, <1>14 DEF Stored

(* What is stored whole, seen as sequences.                                *)
LEMMA StoredSeen ==
  ASSUME NEW t \in Text, NEW f \in Text, NEW p \in Nat, Stored(t, Len(t), f, p)
  PROVE  IsWithin(t, SubSeq(f, p + 1, Len(f)))
<1>1. PICK n \in Nat : n = Len(t) /\ DOMAIN t = 1 .. n
  BY LenProperties DEF Text
<1>2. PICK a \in Nat : a = Len(f)
  BY LenProperties DEF Text
<1>3. PICK g \in [Nat -> Nat] : Placed(g, t, n, f, p)
  BY <1>1 DEF Stored
<1> DEFINE u == SubSeq(f, p + 1, a)
<1>4. /\ Len(u) = (IF p + 1 <= a THEN a - (p + 1) + 1 ELSE 0)
      /\ \A i \in 1 .. a - (p + 1) + 1 : u[i] = f[p + 1 + i - 1]
      /\ u \in Seq(Byte)
  <2>1. \A i \in p + 1 .. a : f[i] \in Byte
    <3>1. \A i \in p + 1 .. a : i \in 1 .. a
      BY <1>2
    <3>2. \A i \in 1 .. a : f[i] \in Byte
      BY <1>2, ElementOfSeq DEF Text
    <3> QED
      BY <3>1, <3>2
  <2>2. PICK b \in Int : b = p + 1
    OBVIOUS
  <2>3. a \in Int /\ \A i \in b .. a : f[i] \in Byte
    BY <2>1, <2>2
  <2>4. /\ Len(SubSeq(f, b, a)) = (IF b <= a THEN a - b + 1 ELSE 0)
        /\ \A i \in 1 .. a - b + 1 : SubSeq(f, b, a)[i] = f[b + i - 1]
        /\ SubSeq(f, b, a) \in Seq(Byte)
    BY <2>3, SubSeqProperties
  <2> QED
    BY <2>2, <2>4
<1> HIDE DEF u
<1>5. PICK l \in Nat : l = Len(u) /\ DOMAIN u = 1 .. l
  BY <1>4, LenProperties DEF Text
<1> DEFINE at == [i \in 1 .. n |-> g[i] - p]
<1>6. ASSUME NEW i \in 1 .. n PROVE g[i] - p \in 1 .. l /\ u[g[i] - p] = t[i]
  <2>0. PICK b \in Nat : b = g[i]
    BY <1>3
  <2>1. b \in p + 1 .. a /\ f[b] = t[i]
    BY <1>2, <1>3, <2>0 DEF Placed
  <2>2. /\ p + 1 <= a /\ b - p \in 1 .. a - (p + 1) + 1
        /\ p + 1 + (b - p) - 1 = b
    BY <2>1
  <2>3. l = a - (p + 1) + 1
    BY <1>4, <1>5, <2>2
  <2>4. u[b - p] = f[p + 1 + (b - p) - 1]
    BY <1>4, <2>2
  <2> QED
    BY <2>0, <2>1, <2>2, <2>3, <2>4
<1>7. at \in [1 .. n -> 1 .. l] /\ \A i \in 1 .. n : at[i] = g[i] - p
  BY <1>6
<1> HIDE DEF at
<1>8. ASSUME NEW i \in 1 .. n, NEW j \in 1 .. n, i < j PROVE at[i] < at[j]
  <2>1. g[i] < g[j] /\ g[i] \in Nat /\ g[j] \in Nat
    <3>1. g[i] < g[j]
      BY <1>3, <1>8 DEF Placed
    <3> QED
      BY <1>3, <3>1
  <2>2. g[i] - p < g[j] - p
    BY <2>1
  <2> QED
    BY <1>7, <2>2
<1>9. \A i \in DOMAIN t : u[at[i]] = t[i]
  BY <1>1, <1>6, <1>7
<1>10. at \in [DOMAIN t -> DOMAIN u]
  BY <1>1, <1>5, <1>7
<1>11. IsWithin(t, u)
  BY <1>1, <1>8, <1>9, <1>10 DEF IsWithin
<1> QED
  BY <1>2, <1>11 DEF u

Swapped(s, u) == /\ Len(s) \in Nat /\ Len(u) = Len(s)
                 /\ \A i \in 1 .. Len(u) : u[i] = s[i] \/ u[i].type = "STRAY"
Rest(s, u)    == \E w : (w = s \/ Left(s, w)) /\ (u = w \/ Swapped(w, u))

LEMMA RestFacts ==
  ASSUME NEW s, NEW u, Rest(s, u)
  PROVE  /\ StorLast(s) => StorLast(u)
         /\ HasStor(u) => HasStor(s)
<1>1. PICK w : (w = s \/ Left(s, w)) /\ (u = w \/ Swapped(w, u))
  BY DEF Rest
<1>2. (StorLast(s) => StorLast(w)) /\ (HasStor(w) => HasStor(s))
  BY <1>1, LeftFacts
<1>3. (StorLast(w) => StorLast(u)) /\ (HasStor(u) => HasStor(w))
  <2>1. CASE u = w
    BY <2>1
  <2>2. CASE Swapped(w, u)
    <3>1. "STRAY" # "STOR"
      OBVIOUS
    <3>2. StorLast(w) => StorLast(u)
      BY <2>2, <3>1 DEF Swapped, StorLast
    <3>3. HasStor(u) => HasStor(w)
      BY <2>2, <3>1 DEF Swapped, HasStor
    <3> QED
      BY <3>2, <3>3
  <2> QED
    BY <1>1, <2>1, <2>2
<1> QED
  BY <1>2, <1>3

(* A stray element in place of the first one.                              *)
LEMMA FirstSwapped ==
  ASSUME NEW S, NEW s \in Seq(S), s # <<>>, NEW x \in S, x.type = "STRAY"
  PROVE  Swapped(s, <<x>> \o Tail(s))
<1>1. PICK w \in Seq(S) : w = Tail(s) /\ Left(s, w)
  BY TailLeft
<1>2. PICK l \in Nat : l = Len(w)
  BY LenProperties
<1>3. PICK v \in Seq(S) : v = <<x>> /\ Len(v) = 1 /\ v[1] = x
  <2>1. <<x>> \in Seq(S) /\ Len(<<x>>) = 1 /\ <<x>>[1] = x
    OBVIOUS
  <2> QED
    BY <2>1
<1>4. PICK u : u = v \o w
  OBVIOUS
<1>5. Len(u) = 1 + l /\ \A i \in 1 .. 1 + l : u[i] = IF i <= 1 THEN v[i] ELSE w[i - 1]
  BY <1>2, <1>3, <1>4, ConcatProperties
<1>6. Len(s) = l + 1 /\ \A j \in 1 .. l : w[j] = s[j + 1]
  BY <1>1, <1>2 DEF Left
<1>7. ASSUME NEW i \in 1 .. 1 + l PROVE u[i] = s[i] \/ u[i].type = "STRAY"
  <2>1. CASE i = 1
    BY <1>3, <1>5, <2>1
  <2>2. CASE i # 1
    <3>1. PICK j \in 1 .. l : j = i - 1 /\ i = j + 1 /\ ~(i <= 1)
      <4>1. i - 1 \in 1 .. l /\ i = (i - 1) + 1 /\ ~(i <= 1)
        BY <2>2
      <4> QED
        BY <4>1
    <3>2. u[i] = w[j]
      BY <1>5, <3>1
    <3> QED
      BY <1>6, <3>1, <3>2
  <2> QED
    BY <2>1, <2>2
<1>8. l + 1 \in Nat /\ 1 + l = l + 1
  OBVIOUS
<1>9. Swapped(s, u)
  BY <1>5, <1>6, <1>7, <1>8 DEF Swapped
<1> QED
  BY <1>1, <1>3, <1>4, <1>9

LEMMA UpTyped ==
  ASSUME UpOK, NEW c \in Client
  PROVE  up[c] \in Seq(ToServer) /\ up[c] \in Seq(Message) /\ Len(up[c]) \in Nat
<1>1. up[c] \in Seq(ToServer)
  BY DEF UpOK
<1>2. up[c] \in Seq(Message)
  <2>1. ToServer \subseteq Message
    BY DEF ToServer
  <2> QED
    BY <1>1, <2>1
<1> QED
  BY <1>1, <1>2, LenProperties

LEMMA EmptyFacts ==
  /\ Unended(<<>>) /\ StorLast(<<>>) /\ ~HasStor(<<>>)
  /\ \A t, n, at : Carries(<<>>, t, n, at)
<1>1. Len(<<>>) = 0 /\ \A i \in 1 .. 0 : FALSE
  OBVIOUS
<1> QED
  BY <1>1 DEF Unended, StorLast, HasStor, Carries

(* serverUp only falls.                                                    *)
LEMMA UpBefore ==
  ASSUME FtpInv, [Next]_vars, serverUp'
  PROVE  serverUp
<1>1. ASSUME NEW d \in Client, ChildStep(d) \/ Accept(d) PROVE serverUp
  BY <1>1, ZenonT(60) DEF ChildStep, Pwd, Cwd, Quit, List, ListEntry, ListCrash, Retr, RetrMore,
       RetrEnd, RetrFails, Stor, StorData, StorFails, StorIllegal, StorEof, NoFunction,
       ReadOver, LoopEof, Answer, Accept, wireVars
<1>2. ASSUME NEW d \in Client, ClientNext(d) PROVE serverUp
  BY <1>2, ZenonT(60) DEF ClientNext, Connect, AskQuit, AskPwd, AskCd, AskDir, AskGet,
       AskPut, Lcd, QuitReply, PwdReply, CdReply, DirReply, GetReply, PutReply, DirData, GetData,
       GetFails, PutMore, PutEnd, PutFails, ClientEnds, Ask, Emit, Reply, After, wireVars
<1>3. CASE SigChld \/ Wait \/ ServerKilled
  BY <1>3 DEF SigChld, Wait, ServerKilled, wireVars
<1>4. CASE \E d \in Client : LoseTail(d)
  BY <1>4 DEF LoseTail
<1>5. CASE UNCHANGED vars
  BY <1>5 DEF vars, wireVars
<1> QED
  BY <1>1, <1>2, <1>3, <1>4, <1>5 DEF Next, ServerStep

(* No file gets shorter.                                                   *)
FilesLast == \A p \in Path : files[p] \in Text =>
               files'[p] \in Text /\ Len(files[p]) <= Len(files'[p])

LEMMA FilesLastAlways ==
  ASSUME FtpInv, [Next]_vars
  PROVE  FilesLast
<1> USE DEF FtpInv
<1>0. \A s \in Text : Len(s) <= Len(s)
  <2>1. \A s \in Text : Len(s) \in Nat
    BY LenProperties DEF Text
  <2>2. \A n \in Nat : n <= n
    OBVIOUS
  <2> QED
    BY <2>1, <2>2
<1>1. ASSUME UNCHANGED files PROVE FilesLast
  BY <1>0, <1>1 DEF FilesLast
<1>2. ASSUME NEW c \in Client, Stor(c) PROVE FilesLast
  <2>1. files' = files \/ \E p \in Path : files' = [files EXCEPT ![p] = Opened(@)]
    BY <1>2, OpenFileTyped DEF Stor
  <2>2. ASSUME NEW p \in Path, files' = [files EXCEPT ![p] = Opened(@)] PROVE FilesLast
    <3>1. \A q \in Path : files[q] \in Text => files'[q] = files[q]
      BY <2>2, TextFacts DEF Opened, ChildrenOK
    <3> QED
      BY <1>0, <3>1 DEF FilesLast
  <2> QED
    BY <1>1, <2>1, <2>2
<1>3. ASSUME NEW c \in Client, StorData(c) PROVE FilesLast
  <2> DEFINE p == path[c]
  <2>1. p \in Path /\ files[p] \in Text
    BY <1>3, StorDataGrown
  <2>2. PICK d \in Text : files' = [files EXCEPT ![p] = @ \o d]
    BY <1>3, StorDataGrown
  <2> HIDE DEF p
  <2>4. files'[p] = files[p] \o d /\ \A q \in Path \ {p} : files'[q] = files[q]
    BY <2>1, <2>2 DEF ChildrenOK
  <2>5. files[p] \o d \in Text /\ Len(files[p]) <= Len(files[p] \o d)
    <3>1. /\ Len(files[p]) \in Nat /\ Len(d) \in Nat /\ files[p] \o d \in Text
          /\ Len(files[p] \o d) = Len(files[p]) + Len(d)
      BY <2>1, <2>2, ConcatProperties, LenProperties DEF Text
    <3> QED
      BY <3>1
  <2> QED
    BY <1>0, <2>4, <2>5 DEF FilesLast
<1>4. ASSUME NEW c \in Client, ChildStep(c), ~Stor(c), ~StorData(c) PROVE FilesLast
  BY <1>1, <1>4 DEF ChildStep, Pwd, Cwd, Quit, List, ListEntry, ListCrash, Retr, RetrMore,
     RetrEnd, RetrFails, StorFails, StorIllegal, StorEof, NoFunction, ReadOver, LoopEof
<1>5. CASE \/ (\E c \in Client : Accept(c)) \/ SigChld \/ Wait \/ ServerKilled
           \/ UNCHANGED serverVars
  BY <1>1, <1>5 DEF Accept, SigChld, Wait, ServerKilled, serverVars
<1> QED
  BY <1>2, <1>3, <1>4, <1>5 DEF Next, ServerStep, vars

(* A step that has nothing to do with the put of c.                        *)
LEMMA StoredKept ==
  ASSUME FtpInv, NEW c \in Client, path[c] \in Path, BytesStay, FilesLast, NEW t, NEW n \in Nat,
         Stored(t, n, files[path[c]], pos[c])
  PROVE  Stored(t, n, files'[path[c]], pos[c])
<1> USE DEF FtpInv
<1>1. path[c] # NoPath
  BY TextFacts
<1>2. PICK f \in Text : f = files[path[c]]
  BY <1>1 DEF ChildrenOK, FileInv
<1>3. PICK h \in Text : h = files'[path[c]] /\ Len(f) <= Len(h)
  BY <1>2 DEF FilesLast
<1>4. PICK p \in Nat : p = pos[c]
  BY DEF ChildrenOK
<1>5. \A k \in 1 .. Len(f) : h[k] = f[k]
  BY <1>2, <1>3 DEF BytesStay
<1>6. Len(f) \in Nat /\ Len(h) \in Nat /\ \A k \in 1 .. n : t[k] = t[k]
  BY LenProperties DEF Text
<1>7. Stored(t, n, f, p)
  BY <1>2, <1>4
<1>8. Stored(t, n, h, p)
  BY <1>3, <1>5, <1>6, <1>7, StoredGrown
<1> QED
  BY <1>3, <1>4, <1>8

LEMMA PuttingKept ==
  ASSUME FtpInv, NEW c \in Client, Putting(c), BytesStay, FilesLast,
         UNCHANGED <<doing[c], down[c], up[c], path[c], pos[c], lpos[c], putting[c]>>,
         child'[c] = child[c] \/ child'[c] # "sput"
  PROVE  Putting(c)'
<1> USE DEF FtpInv
<1>1. /\ doing'[c] = doing[c] /\ down'[c] = down[c] /\ up'[c] = up[c] /\ path'[c] = path[c]
      /\ pos'[c] = pos[c] /\ lpos'[c] = lpos[c] /\ putting'[c] = putting[c]
      /\ child'[c] = "sput" => child[c] = "sput"
  OBVIOUS
<1>2. Hears(c)' <=> Hears(c)
  BY <1>1 DEF Hears
<1>3. Drained(c)' /\ Asked(c)' /\ Ending(c)'
  <2>1. Drained(c)'
    BY <1>1, <1>2 DEF Putting, Drained
  <2>2. Asked(c)'
    BY <1>1 DEF Putting, Asked
  <2>3. Ending(c)'
    BY <1>1 DEF Putting, Ending, Stores
  <2> QED
    BY <2>1, <2>2, <2>3
<1>4. ASSUME Stores(c)', Legible(c)' PROVE Arrived(c)'
  <2>1. Stores(c) /\ Legible(c)
    BY <1>1, <1>4 DEF Stores, Legible
  <2>2. PICK at \in [Nat -> Nat] : StoredBy(c, at)
    BY <2>1 DEF Putting, Delivers, Arrived
  <2>3. path[c] \in Path
    BY <2>1 DEF Stores, ChildrenOK, FileInv
  <2>4. Stored(putting[c], at[1], files'[path[c]], pos[c])
    BY <2>2, <2>3, StoredKept DEF StoredBy
  <2>5. StoredBy(c, at)'
    BY <1>1, <2>2, <2>4 DEF StoredBy
  <2> QED
    BY <2>5 DEF Arrived
<1> QED
  BY <1>3, <1>4 DEF Putting, Delivers

(* Steps of the child. *)

LEMMA ChildTakes ==
  ASSUME FtpInv, NEW c \in Client \ Split, ChildStep(c)
  PROVE  Rest(up[c], up'[c])
<1> USE DEF FtpInv
<1>1. ASSUME up[c] # <<>>, up' = [up EXCEPT ![c] = Tail(@)] PROVE Rest(up[c], up'[c])
  <2>1. up'[c] = Tail(up[c]) /\ up[c] \in Seq(ToServer)
    BY <1>1 DEF UpOK
  <2> QED
    BY <1>1, <2>1, TailLeft DEF Rest
<1>2. CASE StorIllegal(c) \/ ReadOver(c)
  <2>1. /\ up[c] # <<>> /\ up[c] \in Seq(ToServer)
        /\ up'[c] \in HeaderTaken(up[c]) \cup Beyond(up[c])
    BY <1>2 DEF StorIllegal, ReadOver, UpOK
  <2>2. PICK w \in Seq(ToServer) : w = Tail(up[c]) /\ Left(up[c], w)
    BY <2>1, TailLeft
  <2>3. CASE up'[c] \in {up[c], w}
    BY <2>2, <2>3 DEF Rest
  <2>4. CASE up'[c] = <<Msg("STRAY", 0)>> \o w
    <3>1. Msg("STRAY", 0) \in ToServer /\ Msg("STRAY", 0).type = "STRAY"
      BY MsgTyped DEF Msg
    <3>2. Swapped(up[c], up'[c])
      BY <2>1, <2>2, <2>4, <3>1, FirstSwapped
    <3> QED
      BY <3>2 DEF Rest
  <2>5. CASE w # <<>> /\ up'[c] = <<[Msg("STRAY", 0) EXCEPT !.data = Head(w).data]>> \o Tail(w)
    <3>1. PICK x : x = [Msg("STRAY", 0) EXCEPT !.data = Head(w).data]
      OBVIOUS
    <3>2. x \in ToServer /\ x.type = "STRAY"
      <4>1. Head(w) \in ToServer
        BY <2>5, FirstTaken
      <4> QED
        BY <3>1, <4>1 DEF Msg, Message, ToServer
    <3>3. Swapped(w, up'[c])
      BY <2>5, <3>1, <3>2, FirstSwapped
    <3> QED
      BY <2>2, <3>3 DEF Rest
  <2>6. \/ up'[c] \in {up[c], w}
        \/ w # <<>> /\ up'[c] = <<[Msg("STRAY", 0) EXCEPT !.data = Head(w).data]>> \o Tail(w)
        \/ up'[c] = <<Msg("STRAY", 0)>> \o w
    <3>1. CASE up'[c] \in Beyond(up[c])
      BY <2>2, <3>1 DEF Beyond
    <3>2. CASE up'[c] = NameLeft(Head(up[c])) \o Tail(up[c])
      <4>1. <<>> \o w = w
        BY <2>2, ConcatEmptySeq
      <4> QED
        BY <2>2, <3>2, <4>1 DEF NameLeft
    <3> QED
      BY <2>1, <3>1, <3>2 DEF HeaderTaken
  <2> QED
    BY <2>3, <2>4, <2>5, <2>6
<1>3. CASE \/ ListEntry(c) \/ ListCrash(c) \/ RetrMore(c) \/ RetrEnd(c) \/ RetrFails(c)
           \/ StorEof(c) \/ LoopEof(c)
  BY <1>3 DEF ListEntry, ListCrash, RetrMore, RetrEnd, RetrFails, StorEof, LoopEof, wireVars, Rest
<1>4. CASE StorData(c) \/ StorFails(c)
  BY <1>1, <1>4, DataWhole
<1>5. CASE \/ Pwd(c) \/ Cwd(c) \/ Quit(c) \/ List(c) \/ Retr(c) \/ Stor(c)
           \/ NoFunction(c)
  <2>1. \E type : Take(c, type)
    BY <1>5 DEF Pwd, Cwd, Quit, List, Retr, Stor, NoFunction, Request
  <2> QED
    BY <1>1, <2>1 DEF Take
<1> QED
  BY <1>2, <1>3, <1>4, <1>5 DEF ChildStep

(* How a child comes to store, and how it goes on.                         *)
LEMMA ChildStores ==
  ASSUME FtpInv, NEW c \in Client, ChildStep(c), child'[c] = "sput"
  PROVE  \/ Stor(c) /\ child[c] = "loop"
         \/ StorData(c) /\ child[c] = "sput" /\ UNCHANGED path
<1> USE DEF FtpInv, ChildrenOK
<1>1. CASE Stor(c)
  BY <1>1 DEF Stor, Request
<1>2. CASE StorData(c)
  <2>1. child'[c] = "loop" \/ UNCHANGED path
    BY <1>2 DEF StorData, Goto
  <2> QED
    BY <1>2, <2>1 DEF StorData, DataHeard
<1>3. CASE Pwd(c) \/ Cwd(c) \/ Quit(c) \/ List(c) \/ Retr(c)
  BY <1>3, ZenonT(60) DEF Pwd, Cwd, Quit, List, Retr, Answer, End, Goto, Request
<1>4. CASE ListEntry(c) \/ ListCrash(c) \/ RetrMore(c) \/ RetrEnd(c) \/ RetrFails(c)
  BY <1>4, ZenonT(60) DEF ListEntry, ListCrash, RetrMore, RetrEnd, RetrFails, End, Goto
<1>5. CASE \/ StorFails(c) \/ StorIllegal(c) \/ StorEof(c) \/ NoFunction(c) \/ ReadOver(c)
           \/ LoopEof(c)
  BY <1>5, ZenonT(60) DEF StorFails, StorIllegal, StorEof, NoFunction, ReadOver, LoopEof, End,
                          Goto, Request
<1> QED
  BY <1>1, <1>2, <1>3, <1>4, <1>5 DEF ChildStep

(* A child that answers takes nothing more.                                *)
LEMMA DrainedChild ==
  ASSUME FtpInv, NEW c \in Client \ Split, Joined(c), Agreed(c), Drained(c), ChildStep(c),
         UNCHANGED clientVars
  PROVE  Drained(c)'
<1> USE DEF FtpInv
<1>1. SUFFICES ASSUME Hears(c)'
               PROVE  up'[c] = <<>> /\ (child'[c] = "sput" => doing'[c] = "put")
  BY DEF Drained
<1>2. doing' = doing /\ doing[c] \in Asks \cup {"dirData", "getData"}
  BY <1>1 DEF Hears, clientVars
<1>3. conn[c] = "open" /\ Together(c)
  BY <1>2 DEF Joined, WireOK, Agreed, Asks
<1>4. CASE Hears(c)
  <2>1. up[c] = <<>> /\ (child[c] = "sput" => doing[c] = "put")
    BY <1>4 DEF Drained
  <2>2. CASE Supply(c)
    <3>1. up' = up
      BY <2>2 DEF Supply, ListEntry, ListCrash, RetrMore, RetrEnd, RetrFails, wireVars
    <3>2. child'[c] # "sput"
      <4>1. ~Stor(c) /\ ~StorData(c)
        BY <2>1 DEF Stor, StorData, DataHeard, Request, Take
      <4> QED
        BY <4>1, ChildStores
    <3> QED
      BY <2>1, <3>1, <3>2
  <2>3. CASE ~Supply(c)
    BY <1>3, <2>1, <2>3, ZenonT(60) DEF ChildStep, Supply, Pwd, Cwd, Quit, List, Retr, Stor, StorData,
       StorFails, DataHeard, StorIllegal, StorEof, NoFunction, ReadOver, LoopEof, Request, Take
  <2> QED
    BY <2>2, <2>3
<1>5. CASE ~Hears(c)
  <2>1. doing[c] \in Asks /\ down[c] = <<>> /\ down'[c] # down[c]
    BY <1>1, <1>2, <1>5 DEF Hears
  <2>2. ~Sending(c)
    BY <2>1 DEF Sending
  <2>3. ~Supply(c)
    <3>1. Supply(c) => child[c] \in {"list", "listFile", "sget"}
      BY DEF Supply, ListEntry, ListCrash, RetrMore, RetrEnd, RetrFails
    <3> QED
      BY <1>3, <2>2, <3>1 DEF Together, Quiet, Pending, Ended
  <2>4. ~Digest(c)
    BY <2>1 DEF Digest, StorData, StorFails, StorEof, NoFunction, LoopEof, wireVars
  <2>5. Demand(c)
    <3>1. ~StorIllegal(c) /\ ~ReadOver(c)
      BY <1>3, NeverIllegal
    <3> QED
      BY <2>3, <2>4, <3>1 DEF ChildStep, Demand, Supply, Digest
  <2>6. PICK type : Request(c, type) /\ type = Requests[doing[c]] /\ up'[c] = <<>>
    BY <1>3, <2>5, DemandTaken
  <2>7. ASSUME child'[c] = "sput" PROVE doing[c] = "put"
    <3>1. Stor(c)
      BY <1>3, <2>4, <2>7, ChildStores DEF Digest
    <3>2. Head(up[c]).type = "STOR" /\ Head(up[c]).type = type
      BY <2>6, <3>1 DEF Stor, Request, Take
    <3>3. Requests[doing[c]] = "STOR"
      BY <2>6, <3>2
    <3> QED
      BY <2>1, <3>3 DEF Asks, Requests
  <2> QED
    BY <1>2, <2>6, <2>7
<1> QED
  BY <1>4, <1>5

(* A child takes the request of a put when nothing is behind it.           *)
LEMMA StorTaken ==
  ASSUME FtpInv, NEW c \in Client, Asked(c), Stor(c)
  PROVE  /\ up'[c] = <<>> /\ lpos[c] = 0 /\ doing[c] \in {"put", "ended"}
<1> USE DEF FtpInv
<1>1. /\ up[c] # <<>> /\ Head(up[c]).type = "STOR" /\ up'[c] = Tail(up[c])
      /\ up[c] \in Seq(ToServer)
  BY DEF Stor, Request, Take, UpOK
<1>2. /\ Left(up[c], Tail(up[c])) /\ up[c][1].type = "STOR" /\ Tail(up[c]) \in Seq(ToServer)
      /\ Len(up[c]) \in Nat /\ Len(up[c]) >= 1
  BY <1>1, TailLeft, FirstTaken
<1>3. HasStor(up[c])
  <2>1. 1 \in 1 .. Len(up[c])
    BY <1>2
  <2> QED
    BY <1>2, <2>1 DEF HasStor
<1>4. Len(Tail(up[c])) = 0
  BY <1>2, LeftFacts DEF Asked
<1>5. Tail(up[c]) = <<>>
  BY <1>2, <1>4, EmptySeq
<1> QED
  BY <1>1, <1>3, <1>5 DEF Asked

LEMMA AskedChild ==
  ASSUME FtpInv, NEW c \in Client \ Split, Asked(c), ChildStep(c), UNCHANGED clientVars
  PROVE  Asked(c)'
<1>1. doing' = doing /\ lpos' = lpos
  BY DEF clientVars
<1>2. Rest(up[c], up'[c])
  BY ChildTakes
<1>3. StorLast(up'[c]) /\ (HasStor(up'[c]) => HasStor(up[c]))
  BY <1>2, RestFacts DEF Asked
<1> QED
  BY <1>1, <1>3 DEF Asked

(* A put begins.                                                           *)
LEMMA PutBegins ==
  ASSUME FtpInv, NEW c \in Client, Asked(c), Stor(c), UNCHANGED clientVars
  PROVE  Delivers(c)' /\ Ending(c)'
<1> USE DEF FtpInv
<1>1. up'[c] = <<>> /\ lpos'[c] = 0
  BY StorTaken DEF clientVars
<1>2. Ending(c)'
  BY <1>1, EmptyFacts DEF Ending
<1>3. Arrived(c)'
  <2> DEFINE at == [i \in Nat |-> 0]
  <2>1. at \in [Nat -> Nat] /\ at[1] = 0
    OBVIOUS
  <2>2. Len(<<>>) + 1 = 1
    OBVIOUS
  <2> HIDE DEF at
  <2>3. Stored(putting'[c], 0, files'[path'[c]], pos'[c])
    BY StoredNone
  <2>4. Carries(<<>>, putting'[c], 0, at)
    BY EmptyFacts
  <2>5. at[1] <= 0 /\ at[Len(<<>>) + 1] = 0
    BY <2>1, <2>2
  <2>6. StoredBy(c, at)'
    BY <1>1, <2>1, <2>3, <2>4, <2>5 DEF StoredBy
  <2> QED
    BY <2>1, <2>6 DEF Arrived
<1> QED
  BY <1>2, <1>3 DEF Delivers

(* One more piece is stored.                                               *)
LEMMA PieceStored ==
  ASSUME FtpInv, NEW c \in Client \ Split, Delivers(c), Ending(c), StorData(c), UNCHANGED path,
         UNCHANGED clientVars
  PROVE  Delivers(c)' /\ Ending(c)'
<1> USE DEF FtpInv
<1>1. /\ child[c] = "sput" /\ up[c] # <<>> /\ Head(up[c]).type \in {"DATA", "STRAY"}
      /\ up'[c] = Tail(up[c]) /\ UNCHANGED pos
      /\ files' = [files EXCEPT ![path[c]] = @ \o Head(up[c]).data]
  BY DataWhole DEF StorData, UpOK
<1>2. PICK s \in Seq(Message) : s = up[c]
  BY UpTyped
<1>3. /\ Left(s, Tail(s)) /\ Tail(s) \in Seq(Message) /\ Head(s) = s[1] /\ Len(s) \in Nat
      /\ Len(s) >= 1 /\ Head(s) \in Message /\ s # <<>>
  BY <1>1, <1>2, TailLeft, FirstTaken
<1>4. /\ doing' = doing /\ lpos' = lpos /\ putting' = putting /\ up'[c] = Tail(s)
      /\ s[1].type # "STOR" /\ files' = [files EXCEPT ![path[c]] = @ \o s[1].data]
  BY <1>1, <1>2, <1>3 DEF clientVars
<1>5. HasStor(s) => HasStor(Tail(s))
  BY <1>3, <1>4, LeftFacts
<1>6. Stores(c)' => Stores(c)
  BY <1>1, <1>2, <1>4, <1>5 DEF Stores
<1>7. Ending(c)'
  <2>1. Unended(s) => Unended(Tail(s))
    BY <1>3, LeftFacts
  <2> QED
    BY <1>2, <1>4, <1>6, <2>1 DEF Ending
<1>8. ASSUME Stores(c)', Legible(c)' PROVE Arrived(c)'
  <2>1. PICK at \in [Nat -> Nat] : StoredBy(c, at)
    BY <1>4, <1>6, <1>8 DEF Delivers, Legible, Arrived
  <2>2. PICK f \in Text : f = files[path[c]] /\ path[c] \in Path
    BY <1>1 DEF ChildrenOK, FileInv
  <2>3. PICK p \in Nat : p = pos[c] /\ p <= Len(f)
    BY <1>1, <2>2 DEF ChildrenOK, FileInv
  <2>4. PICK h \in Text : h = s[1].data
    BY <1>3 DEF Message
  <2>5. PICK t : t = putting[c]
    OBVIOUS
  <2>6. PICK n \in Nat : n = lpos[c]
    BY DEF ClientOK, ClientTypeOK
  <2>7. PICK a \in Nat : a = at[1]
    BY <2>1
  <2>8. PICK d \in Nat : d = Len(h)
    BY LenProperties DEF Text
  <2>9. Carries(s, t, n, at)
    BY <1>2, <2>1, <2>5, <2>6 DEF StoredBy
  <2>10. at[1 + 1] = a + d /\ at[1 + 1] <= n /\ \A k \in 1 .. d : h[k] = t[a + k]
    <3>1. 1 \in 1 .. Len(s)
      BY <1>3
    <3> QED
      BY <2>4, <2>7, <2>8, <2>9, <3>1 DEF Carries
  <2>11. Stored(t, a + d, f \o h, p)
    <3>1. Stored(t, a, f, p)
      BY <2>1, <2>2, <2>3, <2>5, <2>7 DEF StoredBy
    <3>2. \A k \in 1 .. Len(h) : h[k] = t[a + k]
      BY <2>8, <2>10
    <3>3. Stored(t, a + Len(h), f \o h, p)
      BY <2>3, <3>1, <3>2, StoredMore
    <3> QED
      BY <2>8, <3>3
  <2>12. files'[path[c]] = f \o h
    BY <1>4, <2>2, <2>4 DEF ChildrenOK
  <2> DEFINE to == [i \in Nat |-> at[i + 1]]
  <2>13. Carries(Tail(s), t, n, to)
    BY <1>3, <2>9, CarriesTail
  <2>14. to \in [Nat -> Nat] /\ \A i \in Nat : to[i] = at[i + 1]
    <3>1. \A i \in Nat : i + 1 \in Nat
      OBVIOUS
    <3>2. \A i \in Nat : at[i + 1] \in Nat
      BY <2>1, <3>1, Zenon
    <3> QED
      BY <3>2, SMTT(30)
  <2> HIDE DEF to
  <2>15. to[1] = at[1 + 1] /\ to[Len(Tail(s)) + 1] = at[Len(s) + 1]
    <3>1. PICK l \in Nat : l = Len(Tail(s)) /\ Len(s) = l + 1
      BY <1>3, Zenon DEF Left
    <3>2. 1 \in Nat /\ l + 1 \in Nat
      OBVIOUS
    <3>3. to[1] = at[1 + 1] /\ to[l + 1] = at[(l + 1) + 1]
      BY <2>14, <3>2, Zenon
    <3> QED
      BY <3>1, <3>3, Zenon
  <2>16. doing[c] # "ended" => at[Len(s) + 1] = n
    BY <1>2, <2>1, <2>6 DEF StoredBy
  <2>17. Stored(t, to[1], f \o h, p) /\ to[1] <= n
    BY <2>10, <2>11, <2>15
  <2>18. /\ Carries(up'[c], putting'[c], lpos'[c], to) /\ to[1] <= lpos'[c]
         /\ doing'[c] # "ended" => to[Len(up'[c]) + 1] = lpos'[c]
    BY <1>4, <2>5, <2>6, <2>13, <2>15, <2>16, <2>17
  <2>19. Stored(putting'[c], to[1], files'[path'[c]], pos'[c])
    BY <1>1, <1>4, <2>3, <2>5, <2>12, <2>17
  <2>20. StoredBy(c, to)'
    BY <2>18, <2>19 DEF StoredBy
  <2> QED
    BY <2>14, <2>20 DEF Arrived
<1> QED
  BY <1>7, <1>8 DEF Delivers

(* A step of the child of c.                                               *)
LEMMA ChildPuts ==
  ASSUME FtpInv, NEW c \in Client \ Split, Joined(c), Agreed(c), Putting(c), ChildStep(c),
         UNCHANGED clientVars
  PROVE  Putting(c)'
<1>1. Drained(c)'
  BY DrainedChild DEF Putting
<1>2. Asked(c)'
  BY AskedChild DEF Putting
<1>3. Delivers(c)' /\ Ending(c)'
  <2>1. CASE child'[c] # "sput"
    BY <2>1 DEF Delivers, Ending, Stores
  <2>2. CASE Stor(c)
    BY <2>2, PutBegins DEF Putting
  <2>3. CASE StorData(c) /\ UNCHANGED path
    BY <2>3, PieceStored DEF Putting
  <2> QED
    BY <2>1, <2>2, <2>3, ChildStores
<1> QED
  BY <1>1, <1>2, <1>3 DEF Putting

(* Steps of the client. *)

Requires(c) == AskQuit(c) \/ AskPwd(c) \/ AskCd(c) \/ AskDir(c) \/ AskGet(c) \/ AskPut(c)
Supplies(c) == PutMore(c) \/ PutEnd(c) \/ PutFails(c)

LEMMA RequestFacts ==
  ASSUME FtpInv, NEW c \in Client, Requires(c)
  PROVE  \E m \in ToServer, what \in Asks :
           /\ Ask(c, m, what) /\ m.type = Requests[what] /\ m.data = <<>>
           /\ what # "put" => UNCHANGED <<lpos, putting>>
           /\ what = "put" => lpos'[c] = 0
<1>1. /\ Msg("QUIT", 0) \in ToServer /\ Msg("QUIT", 0).type = "QUIT" /\ Msg("QUIT", 0).data = <<>>
      /\ Msg("PWD", 0) \in ToServer /\ Msg("PWD", 0).type = "PWD" /\ Msg("PWD", 0).data = <<>>
  BY MsgTyped DEF Msg
<1>2. \A type, arg : Named(type, arg).type = type /\ Named(type, arg).data = <<>>
  BY DEF Named, Msg
<1>3. CASE AskQuit(c)
  <2>1. Ask(c, Msg("QUIT", 0), "quit") /\ UNCHANGED <<lpos, putting>>
    BY <1>3 DEF AskQuit, transferVars
  <2> QED
    BY <1>1, <2>1 DEF Asks, Requests
<1>4. CASE AskPwd(c)
  <2>1. Ask(c, Msg("PWD", 0), "pwd") /\ UNCHANGED <<lpos, putting>>
    BY <1>4 DEF AskPwd, transferVars
  <2> QED
    BY <1>1, <2>1 DEF Asks, Requests
<1>5. CASE AskCd(c)
  <2>1. PICK d \in Dir \cup {Tilde} : Ask(c, Named("CWD", d), "cd")
    BY <1>5 DEF AskCd
  <2>2. UNCHANGED <<lpos, putting>> /\ Named("CWD", d) \in ToServer
    BY <1>5, NamedTyped DEF AskCd, transferVars
  <2> QED
    BY <1>2, <2>1, <2>2 DEF Asks, Requests
<1>6. CASE AskDir(c)
  <2>1. PICK d \in Dir \cup {NoArg} : Ask(c, Named("LIST", d), "dir")
    BY <1>6 DEF AskDir
  <2>2. UNCHANGED <<lpos, putting>> /\ Named("LIST", d) \in ToServer
    BY <1>6, NamedTyped DEF AskDir, transferVars
  <2> QED
    BY <1>2, <2>1, <2>2 DEF Asks, Requests
<1>7. CASE AskGet(c)
  <2>1. PICK from \in Typed : Ask(c, Named("RETR", from), "get") /\ UNCHANGED <<lpos, putting>>
    BY <1>7 DEF AskGet
  <2>2. Named("RETR", from) \in ToServer
    BY ClientAssumption, NamedTyped
  <2> QED
    BY <1>2, <2>1, <2>2 DEF Asks, Requests
<1>8. CASE AskPut(c)
  <2>1. PICK from \in Typed : \E to \in Typed \cup {ExtractFilename(from)} :
          Ask(c, Named("STOR", to), "put") /\ lpos' = [lpos EXCEPT ![c] = 0]
    BY <1>8 DEF AskPut
  <2>2. PICK to \in Typed \cup {ExtractFilename(from)} :
          Ask(c, Named("STOR", to), "put") /\ lpos' = [lpos EXCEPT ![c] = 0]
    BY <2>1
  <2>3. Named("STOR", to) \in ToServer
    <3>1. to \in Arg
      BY ArgTyped, ClientAssumption
    <3> QED
      BY <3>1, NamedTyped
  <2>4. lpos'[c] = 0
    BY <2>2 DEF FtpInv, ClientOK, ClientTypeOK
  <2> QED
    BY <1>2, <2>2, <2>3, <2>4 DEF Asks, Requests
<1> QED
  BY <1>3, <1>4, <1>5, <1>6, <1>7, <1>8 DEF Requires

LEMMA EmittedMore ==
  ASSUME FtpInv, NEW c \in Client, NEW m \in ToServer, serverUp,
         up' = IF serverUp THEN [up EXCEPT ![c] = Append(@, m)] ELSE up
  PROVE  More(up[c], up'[c], m) /\ up'[c] = up[c] \o <<m>>
<1>1. up'[c] = Append(up[c], m) /\ up[c] \in Seq(ToServer)
  BY DEF FtpInv, UpOK
<1> QED
  BY <1>1, AppendMore

(* What a request leaves.                                                  *)
LEMMA AfterRequest ==
  ASSUME FtpInv, NEW c \in Client, Requires(c), serverUp
  PROVE  \E m \in ToServer, what \in Asks :
           /\ doing[c] = "prompt" /\ doing'[c] = what /\ down' = down
           /\ m.type = Requests[what] /\ m.data = <<>>
           /\ More(up[c], up'[c], m) /\ up'[c] = up[c] \o <<m>>
           /\ what # "put" => UNCHANGED <<lpos, putting>>
           /\ what = "put" => lpos'[c] = 0
<1>1. PICK m \in ToServer, what \in Asks :
           /\ Ask(c, m, what) /\ m.type = Requests[what] /\ m.data = <<>>
           /\ what # "put" => UNCHANGED <<lpos, putting>>
           /\ what = "put" => lpos'[c] = 0
  BY RequestFacts
<1>2. /\ doing[c] = "prompt" /\ doing'[c] = what /\ down' = down
      /\ up' = IF serverUp THEN [up EXCEPT ![c] = Append(@, m)] ELSE up
  BY <1>1 DEF Ask, Emit, Do, FtpInv, ClientOK, ClientTypeOK
<1>3. More(up[c], up'[c], m) /\ up'[c] = up[c] \o <<m>>
  BY <1>2, EmittedMore
<1> QED
  BY <1>1, <1>2, <1>3

(* What put sends.                                                         *)
LEMMA AfterPiece ==
  ASSUME FtpInv, NEW c \in Client, Supplies(c), serverUp
  PROVE  \E m \in ToServer :
           /\ doing[c] = "putData" /\ m.type = "DATA" /\ down' = down
           /\ More(up[c], up'[c], m) /\ up'[c] = up[c] \o <<m>>
           /\ PutMore(c) => m = Data(PutPiece(c)) /\ doing' = doing
           /\ ~PutMore(c) => m = DataEnd /\ doing'[c] = "prompt"
<1> USE DEF FtpInv
<1>1. CASE PutMore(c)
  <2>1. PutPiece(c) \in Text
    <3>1. local[c][lpath[c]] \in Text /\ lpos[c] \in Nat /\ lpos[c] <= Len(local[c][lpath[c]])
      BY <1>1 DEF PutMore, ClientOK, LocalInv, ClientTypeOK
    <3> QED
      BY <3>1, PieceFacts DEF PutPiece
  <2>2. PICK m \in ToServer : m = Data(PutPiece(c)) /\ m.type = "DATA"
    BY <2>1, DataTyped DEF Data, Msg
  <2>3. /\ up' = IF serverUp THEN [up EXCEPT ![c] = Append(@, m)] ELSE up
        /\ doing[c] = "putData" /\ down' = down /\ doing' = doing
    BY <1>1, <2>2 DEF PutMore, Emit
  <2> QED
    BY <1>1, <2>2, <2>3, EmittedMore
<1>2. CASE ~PutMore(c)
  <2>1. PICK m \in ToServer : m = DataEnd /\ m.type = "DATA"
    BY RepliesTyped DEF DataEnd, Msg
  <2>2. /\ up' = IF serverUp THEN [up EXCEPT ![c] = Append(@, m)] ELSE up
        /\ doing[c] = "putData" /\ down' = down /\ doing'[c] = "prompt"
    BY <1>2, <2>1 DEF Supplies, PutEnd, PutFails, Emit, Do, ClientOK, ClientTypeOK
  <2> QED
    BY <1>2, <2>1, <2>2, EmittedMore
<1> QED
  BY <1>1, <1>2

(* The other steps of a client send nothing.                               *)
LEMMA ClientKinds ==
  ASSUME FtpInv, NEW c \in Client, ClientNext(c), ~Requires(c), ~Supplies(c), ~ClientEnds(c),
         ~PutReply(c)
  PROVE  /\ up' = up /\ UNCHANGED <<lpos, putting>>
         /\ doing[c] \notin {"put", "putData", "astray", "ended"}
         /\ doing'[c] \notin {"put", "putData"} \cup (Asks \ {"put"})
         /\ doing'[c] \in {"dirData", "getData"} =>
              DirReply(c) \/ GetReply(c) \/ DirData(c) \/ GetData(c)
<1> USE DEF FtpInv
<1>1. CASE Connect(c)
  BY <1>1 DEF Connect, Do, transferVars, ClientOK, ClientTypeOK, Asks
<1>2. CASE Lcd(c)
  BY <1>2 DEF Lcd, wireVars, Asks
<1>3. CASE QuitReply(c) \/ CdReply(c)
  <2>1. \/ Reply(c, "quit", "prompt", "ended")
        \/ Reply(c, "cd", "prompt", "prompt")
    BY <1>3 DEF QuitReply, CdReply
  <2>2. /\ doing[c] \in {"quit", "cd"}
        /\ \E next \in {"astray", "prompt", "ended"} : doing' = [doing EXCEPT ![c] = next]
    BY <2>1, ReplyTyped
  <2>3. up' = up /\ UNCHANGED <<lpos, putting>>
    BY <1>3 DEF QuitReply, CdReply, Reply, After, transferVars
  <2> QED
    BY <2>2, <2>3 DEF ClientOK, ClientTypeOK, Asks
<1>4. CASE DirReply(c) \/ GetReply(c)
  <2>1. \/ Reply(c, "dir", "prompt", "dirData") \/ Reply(c, "dir", "prompt", "prompt")
        \/ Reply(c, "get", "prompt", "getData")
    BY <1>4 DEF DirReply, GetReply
  <2>2. /\ doing[c] \in {"dir", "get"}
        /\ \E next \in {"astray", "prompt", "dirData", "getData"} :
             doing' = [doing EXCEPT ![c] = next]
    BY <2>1, ReplyTyped
  <2>3. up' = up /\ UNCHANGED <<lpos, putting>>
    BY <1>4 DEF DirReply, GetReply, Reply, After, transferVars
  <2> QED
    BY <1>4, <2>2, <2>3 DEF ClientOK, ClientTypeOK, Asks
<1>5. CASE PwdReply(c)
  BY <1>5, AfterTyped DEF PwdReply, After, Do, transferVars, ClientOK, ClientTypeOK, Asks
<1>6. CASE DirData(c) \/ GetData(c)
  <2>1. /\ doing[c] \in {"dirData", "getData"} /\ up' = up /\ UNCHANGED <<lpos, putting>>
        /\ \E next \in {"astray", "prompt", "dirData", "getData"} :
             doing' = [doing EXCEPT ![c] = next]
    BY <1>6 DEF DirData, GetData, After, Do, transferVars
  <2> QED
    BY <1>6, <2>1 DEF ClientOK, ClientTypeOK, Asks
<1>7. CASE GetFails(c)
  <2>1. /\ doing[c] = "getData" /\ up' = up /\ UNCHANGED <<lpos, putting>>
        /\ \E next \in {"astray", "prompt"} : doing' = [doing EXCEPT ![c] = next]
    BY <1>7 DEF GetFails, After, Do, transferVars
  <2> QED
    BY <2>1 DEF ClientOK, ClientTypeOK, Asks
<1> QED
  BY <1>1, <1>2, <1>3, <1>4, <1>5, <1>6, <1>7, Zenon DEF ClientNext, Requires, Supplies

(* A client waits while the stream is empty and the server runs.           *)
LEMMA WaitsForData ==
  ASSUME FtpInv, NEW c \in Client, serverUp,
         \/ PwdReply(c) \/ DirReply(c) \/ GetReply(c) \/ DirData(c) \/ GetData(c) \/ PutReply(c)
  PROVE  down[c] # <<>>
<1>1. \E r : r \in HeaderOf(c) \cup MessageOf(c)
  BY DEF PwdReply, DirReply, GetReply, DirData, GetData, PutReply, Reply
<1> QED
  BY <1>1, WholeTaken DEF FtpInv

(* put hears whether it may begin: nothing is on its way then.             *)
LEMMA PutHears ==
  ASSUME FtpInv, NEW c \in Client, PutReply(c), serverUp, Drained(c)
  PROVE  /\ doing[c] = "put" /\ up' = up /\ UNCHANGED <<lpos, putting>>
         /\ up[c] = <<>> /\ doing'[c] \in {"astray", "prompt", "putData"}
<1> USE DEF FtpInv
<1>1. /\ doing[c] = "put" /\ up' = up /\ UNCHANGED <<lpos, putting>>
      /\ down[c] # <<>>
  BY WaitsForData DEF PutReply, Reply, After, transferVars
<1>2. up[c] = <<>>
  BY <1>1 DEF Drained, Hears, Asks
<1>3. PICK r \in HeaderOf(c) : After(c, r, IF ErrCheck(r.msg) THEN "prompt" ELSE "putData")
  BY DEF PutReply, Reply
<1>4. doing'[c] \in {"astray", "prompt", "putData"}
  BY <1>3 DEF After, Do, ClientOK, ClientTypeOK
<1> QED
  BY <1>1, <1>2, <1>4

(* What is left behind a client that has ended.                            *)
LEMMA AfterEnd ==
  ASSUME FtpInv, NEW c \in Client, ClientEnds(c)
  PROVE  /\ doing[c] # "ended" /\ doing'[c] = "ended" /\ UNCHANGED <<lpos, putting>>
         /\ down'[c] = <<>> /\ Front(up[c], up'[c]) /\ up'[c] \in Seq(ToServer)
         /\ down[c] = <<>> => up'[c] = up[c]
<1> USE DEF FtpInv
<1>1. /\ doing[c] # "ended" /\ doing'[c] = "ended" /\ UNCHANGED <<lpos, putting>>
      /\ down'[c] = <<>>
  BY DEF ClientEnds, Do, transferVars, ClientOK, ClientTypeOK, DownOK
<1>2. PICK k \in IF down[c] = <<>> THEN {Len(up[c])} ELSE 0 .. Len(up[c]) :
         up' = [up EXCEPT ![c] = SubSeq(@, 1, k)]
  BY DEF ClientEnds
<1>3. up[c] \in Seq(ToServer) /\ Len(up[c]) \in Nat
  BY UpTyped
<1>4. k \in 0 .. Len(up[c]) /\ (down[c] = <<>> => k = Len(up[c]))
  BY <1>2, <1>3
<1>5. up'[c] = SubSeq(up[c], 1, k)
  BY <1>2 DEF UpOK
<1>6. Front(up[c], up'[c]) /\ up'[c] \in Seq(ToServer)
  BY <1>3, <1>4, <1>5, PrefixFront, PrefixTyped
<1>7. down[c] = <<>> => up'[c] = up[c]
  BY <1>3, <1>4, <1>5, SubSeqFull
<1> QED
  BY <1>1, <1>6, <1>7

LEMMA DrainedClient ==
  ASSUME FtpInv, NEW c \in Client, Agreed(c), Drained(c), ClientNext(c),
         UNCHANGED serverVars, serverUp
  PROVE  Drained(c)'
<1> USE DEF FtpInv
<1>1. SUFFICES ASSUME Hears(c)'
               PROVE  up'[c] = <<>> /\ (child'[c] = "sput" => doing'[c] = "put")
  BY DEF Drained
<1>2. ~Requires(c)
  <2>1. SUFFICES ASSUME Requires(c) PROVE FALSE
    OBVIOUS
  <2>2. doing[c] = "prompt" /\ doing'[c] \in Asks /\ down' = down
    BY <2>1, AfterRequest
  <2>3. down[c] = <<>>
    BY <2>2 DEF Agreed, Fits
  <2> QED
    BY <1>1, <2>2, <2>3 DEF Hears, Asks
<1>3. ~Supplies(c)
  <2>1. SUFFICES ASSUME Supplies(c) PROVE FALSE
    OBVIOUS
  <2>2. doing'[c] \in {"putData", "prompt"}
    BY <2>1, AfterPiece
  <2> QED
    BY <1>1, <2>2 DEF Hears, Asks
<1>4. ~ClientEnds(c) /\ ~PutReply(c)
  <2>1. ClientEnds(c) => doing'[c] = "ended"
    BY AfterEnd
  <2>2. PutReply(c) => doing'[c] \in {"astray", "prompt", "putData"}
    BY PutHears
  <2> QED
    BY <1>1, <2>1, <2>2 DEF Hears, Asks
<1>5. /\ up' = up /\ doing'[c] \notin {"put"} \cup (Asks \ {"put"})
      /\ doing'[c] \in {"dirData", "getData"} =>
           DirReply(c) \/ GetReply(c) \/ DirData(c) \/ GetData(c)
  BY <1>2, <1>3, <1>4, ClientKinds
<1>6. DirReply(c) \/ GetReply(c) \/ DirData(c) \/ GetData(c)
  BY <1>1, <1>5 DEF Hears
<1>7. down[c] # <<>> /\ doing[c] \in {"dir", "get", "dirData", "getData"}
  <2>1. doing[c] \in {"dir", "get", "dirData", "getData"}
    BY <1>6 DEF DirReply, GetReply, DirData, GetData, Reply
  <2> QED
    BY <1>6, <2>1, WaitsForData
<1>8. Hears(c)
  BY <1>7 DEF Hears, Asks
<1>9. child' = child
  BY DEF serverVars
<1> QED
  BY <1>5, <1>7, <1>8, <1>9 DEF Drained

LEMMA NoStorHere ==
  ASSUME NEW c \in Client, Asked(c), doing[c] \notin {"put", "ended"}
  PROVE  ~HasStor(up[c])
BY DEF Asked

LEMMA AskedClient ==
  ASSUME FtpInv, NEW c \in Client, Asked(c), Drained(c), ClientNext(c), serverUp
  PROVE  Asked(c)'
<1> USE DEF FtpInv
<1>1. CASE Requires(c)
  <2>1. PICK m \in ToServer, what \in Asks :
           /\ doing[c] = "prompt" /\ doing'[c] = what /\ m.type = Requests[what]
           /\ More(up[c], up'[c], m)
           /\ what = "put" => lpos'[c] = 0
    BY <1>1, AfterRequest
  <2>2. StorLast(up'[c]) /\ (HasStor(up'[c]) => m.type = "STOR")
    BY <2>1, NoStorHere, MoreFacts
  <2>3. m.type = "STOR" => what = "put"
    BY <2>1 DEF Asks, Requests
  <2> QED
    BY <2>1, <2>2, <2>3 DEF Asked
<1>2. CASE Supplies(c)
  <2>1. PICK m \in ToServer :
           doing[c] = "putData" /\ m.type = "DATA" /\ More(up[c], up'[c], m)
    BY <1>2, AfterPiece
  <2>2. ~HasStor(up[c])
    BY <2>1, NoStorHere
  <2>3. StorLast(up'[c]) /\ ~HasStor(up'[c])
    BY <2>1, <2>2, MoreFacts
  <2> QED
    BY <2>3 DEF Asked
<1>3. CASE ClientEnds(c)
  <2>1. doing'[c] = "ended" /\ lpos' = lpos /\ Front(up[c], up'[c])
    BY <1>3, AfterEnd
  <2>2. StorLast(up'[c]) /\ (HasStor(up'[c]) => HasStor(up[c]))
    BY <2>1, FrontFacts DEF Asked
  <2> QED
    BY <2>1, <2>2 DEF Asked
<1>4. CASE PutReply(c)
  <2>1. up' = up /\ up[c] = <<>>
    BY <1>4, PutHears
  <2>2. ~HasStor(up[c])
    BY <2>1, EmptyFacts
  <2> QED
    BY <2>1, <2>2 DEF Asked
<1>5. CASE ~Requires(c) /\ ~Supplies(c) /\ ~ClientEnds(c) /\ ~PutReply(c)
  <2>1. up' = up /\ doing[c] \notin {"put", "putData", "astray", "ended"}
    BY <1>5, ClientKinds
  <2>2. ~HasStor(up[c])
    BY <2>1, NoStorHere
  <2> QED
    BY <2>1, <2>2 DEF Asked
<1> QED
  BY <1>1, <1>2, <1>3, <1>4, <1>5

(* What the client has begun is what its child stores, before as after.    *)
LEMMA StoresBefore ==
  ASSUME FtpInv, NEW c \in Client, Putting(c), ClientNext(c), UNCHANGED serverVars, serverUp,
         Stores(c)'
  PROVE  Stores(c)
<1> USE DEF FtpInv
<1>1. child[c] = "sput" /\ ~HasStor(up'[c])
  BY DEF Stores, serverVars
<1>2. CASE Requires(c)
  <2>1. PICK m \in ToServer : More(up[c], up'[c], m)
    BY <1>2, AfterRequest
  <2> QED
    BY <1>1, <2>1, MoreFacts DEF Stores
<1>3. CASE Supplies(c)
  <2>1. PICK m \in ToServer : More(up[c], up'[c], m)
    BY <1>3, AfterPiece
  <2> QED
    BY <1>1, <2>1, MoreFacts DEF Stores
<1>4. CASE ClientEnds(c)
  <2>1. SUFFICES ASSUME HasStor(up[c]) PROVE FALSE
    BY <1>1 DEF Stores
  <2>2. doing[c] # "ended" /\ (down[c] = <<>> => up'[c] = up[c])
    BY <1>4, AfterEnd
  <2>3. up[c] # <<>>
    BY <2>1, EmptyFacts
  <2>4. doing[c] = "put"
    BY <2>1, <2>2 DEF Putting, Asked
  <2>5. down[c] = <<>>
    BY <2>3, <2>4 DEF Putting, Drained, Hears, Asks
  <2> QED
    BY <1>1, <2>1, <2>2, <2>5
<1>5. CASE PutReply(c)
  <2>1. up' = up
    BY <1>5, PutHears DEF Putting
  <2> QED
    BY <1>1, <2>1 DEF Stores
<1>6. CASE ~Requires(c) /\ ~Supplies(c) /\ ~ClientEnds(c) /\ ~PutReply(c)
  <2>1. up' = up
    BY <1>6, ClientKinds
  <2> QED
    BY <1>1, <2>1 DEF Stores
<1> QED
  BY <1>2, <1>3, <1>4, <1>5, <1>6

(* One more message behind those that are on their way.                    *)
Advances(c, m) == /\ lpos'[c] = lpos[c] + Len(m.data)
                  /\ \A k \in 1 .. lpos[c] : putting'[c][k] = putting[c][k]
                  /\ m.data # <<>> => putting' = putting

LEMMA SentArrives ==
  ASSUME FtpInv, NEW c \in Client, child[c] = "sput", Arrived(c), doing[c] # "ended",
         NEW m \in ToServer, up'[c] = up[c] \o <<m>>, Bears(m, putting[c], lpos[c]),
         Open(up[c], m), Advances(c, m), UNCHANGED serverVars
  PROVE  Arrived(c)'
<1> USE DEF FtpInv
<1>1. PICK at \in [Nat -> Nat] : StoredBy(c, at)
  BY DEF Arrived
<1>2. PICK s \in Seq(Message) : s = up[c]
  BY UpTyped
<1>3. PICK t : t = putting[c]
  OBVIOUS
<1>4. PICK n \in Nat : n = lpos[c]
  BY DEF ClientOK, ClientTypeOK
<1>5. PICK a \in Nat : a = at[1]
  BY <1>1
<1>6. m \in Message
  BY DEF ToServer
<1>7. PICK d \in Nat : d = Len(m.data)
  BY <1>6, LenProperties DEF Message, Text
<1>8. Follows(s, t, n, at) /\ a <= n
  BY <1>1, <1>2, <1>3, <1>4, <1>5 DEF StoredBy, Follows
<1>9. Continued(s \o <<m>>, t, n + Len(m.data), at[1])
  <2>1. Bears(m, t, n) /\ Open(s, m)
    BY <1>2, <1>3, <1>4, Zenon
  <2> QED
    BY <1>6, <1>8, <2>1, CarriesMore, Zenon
<1>10. PICK to \in [Nat -> Nat] : Follows(s \o <<m>>, t, n + d, to) /\ to[1] = a
  BY <1>5, <1>7, <1>9 DEF Continued
<1>11. s \o <<m>> \in Seq(Message)
  <2>1. <<m>> \in Seq(Message)
    BY <1>6
  <2> QED
    BY <2>1, ConcatProperties
<1>12. PICK r : r = putting'[c] /\ \A k \in 1 .. n + d : r[k] = t[k]
  <2>1. CASE m.data = <<>>
    <3>1. d = 0
      BY <1>7, <2>1, EmptySeq
    <3>2. n + d = n
      BY <3>1
    <3> QED
      BY <1>3, <1>4, <3>2 DEF Advances
  <2>2. CASE m.data # <<>>
    BY <1>3, <2>2 DEF Advances
  <2> QED
    BY <2>1, <2>2
<1>13. Carries(s \o <<m>>, r, n + d, to) /\ to[Len(s \o <<m>>) + 1] = n + d
  <2>1. PICK u \in Seq(Message) : u = s \o <<m>>
    BY <1>11
  <2>2. PICK e \in Nat : e = n + d
    OBVIOUS
  <2>3. Carries(u, t, e, to) /\ to[Len(u) + 1] = e
    BY <1>10, <2>1, <2>2 DEF Follows
  <2>4. Carries(u, r, e, to)
    BY <1>12, <2>2, <2>3, CarriesGrown
  <2> QED
    BY <2>1, <2>2, <2>3, <2>4
<1>14. a <= n + d
  BY <1>8
<1>15. Stored(r, a, files[path[c]], pos[c])
  <2>1. PICK f \in Text : f = files[path[c]]
    BY DEF ChildrenOK, FileInv
  <2>2. PICK p \in Nat : p = pos[c]
    BY DEF ChildrenOK
  <2>3. Stored(t, a, f, p)
    BY <1>1, <1>3, <1>5, <2>1, <2>2 DEF StoredBy
  <2>4. PICK l \in Nat : l = Len(f)
    BY LenProperties DEF Text
  <2>5. \A k \in 1 .. a : r[k] = t[k]
    <3>1. \A k \in 1 .. a : k \in 1 .. n + d
      BY <1>14
    <3> QED
      BY <1>12, <3>1
  <2>6. Len(f) \in Nat /\ Len(f) <= Len(f) /\ \A k \in 1 .. Len(f) : f[k] = f[k]
    <3>1. l <= l
      OBVIOUS
    <3> QED
      BY <2>4, <3>1
  <2>7. Stored(r, a, f, p)
    BY <2>3, <2>5, <2>6, StoredGrown
  <2> QED
    BY <2>1, <2>2, <2>7
<1>16. /\ lpos'[c] = n + d /\ up'[c] = s \o <<m>> /\ putting'[c] = r
       /\ UNCHANGED <<files, path, pos>>
  BY <1>2, <1>4, <1>7, <1>12 DEF Advances, serverVars
<1>17. StoredBy(c, to)'
  BY <1>10, <1>13, <1>14, <1>15, <1>16 DEF StoredBy
<1> QED
  BY <1>17 DEF Arrived

(* A message without data.                                                 *)
LEMMA EmptyBears ==
  ASSUME NEW m, m.data = <<>>, NEW t, NEW n, NEW s
  PROVE  Bears(m, t, n) /\ Open(s, m)
<1>1. Len(m.data) = 0 /\ \A k \in 1 .. 0 : FALSE
  OBVIOUS
<1> QED
  BY <1>1 DEF Bears, Open

(* Another request while the child still stores.                           *)
LEMMA RequestArrives ==
  ASSUME FtpInv, NEW c \in Client, Putting(c), Requires(c), UNCHANGED serverVars, serverUp,
         Stores(c), Stores(c)'
  PROVE  Delivers(c)' /\ Ending(c)'
<1> USE DEF FtpInv
<1>1. PICK m \in ToServer, what \in Asks :
           /\ doing[c] = "prompt" /\ doing'[c] = what
           /\ m.type = Requests[what] /\ m.data = <<>>
           /\ More(up[c], up'[c], m) /\ up'[c] = up[c] \o <<m>>
           /\ what # "put" => UNCHANGED <<lpos, putting>>
  BY AfterRequest
<1>2. what # "put"
  <2>1. what = "put" => m.type = "STOR"
    BY <1>1 DEF Asks, Requests
  <2>2. m.type # "STOR"
    BY <1>1, MoreFacts DEF Stores
  <2> QED
    BY <2>1, <2>2
<1>3. m.type # "DATA" /\ doing'[c] \notin {"put", "putData"}
  BY <1>1, <1>2 DEF Asks, Requests
<1>4. UNCHANGED <<lpos, putting>>
  BY <1>1, <1>2
<1>5. Ending(c)'
  <2>1. Unended(up[c]) => Unended(up'[c])
    BY <1>1, <1>3, MoreFacts
  <2> QED
    BY <1>3, <1>4, <2>1 DEF Putting, Ending
<1>6. ASSUME Legible(c)' PROVE Arrived(c)'
  <2>1. Arrived(c)
    BY <1>4, <1>6 DEF Putting, Delivers, Legible
  <2>2. Bears(m, putting[c], lpos[c]) /\ Open(up[c], m)
    BY <1>1, EmptyBears
  <2>3. Advances(c, m)
    <3>1. PICK n \in Nat : n = lpos[c]
      BY DEF ClientOK, ClientTypeOK
    <3>2. Len(m.data) = 0
      BY <1>1, EmptySeq
    <3>3. n = n + 0
      OBVIOUS
    <3> QED
      BY <1>1, <1>4, <3>1, <3>2, <3>3 DEF Advances
  <2> QED
    BY <1>1, <2>1, <2>2, <2>3, SentArrives DEF Stores
<1> QED
  BY <1>5, <1>6 DEF Delivers

(* A piece of the client's file.                                           *)
LEMMA PieceArrives ==
  ASSUME FtpInv, NEW c \in Client, Putting(c), PutMore(c), UNCHANGED serverVars, serverUp,
         Stores(c)
  PROVE  Delivers(c)' /\ Ending(c)'
<1> USE DEF FtpInv
<1>1. PICK m \in ToServer :
           /\ doing[c] = "putData" /\ m.type = "DATA"
           /\ More(up[c], up'[c], m) /\ up'[c] = up[c] \o <<m>>
           /\ m = Data(PutPiece(c)) /\ doing' = doing
  BY AfterPiece DEF Supplies
<1>2. m.code = 1
  BY <1>1 DEF Data, Msg
<1>3. Unended(up[c])
  BY <1>1 DEF Putting, Ending
<1>4. Unended(up'[c])
  BY <1>1, <1>2, <1>3, MoreFacts
<1>5. Ending(c)'
  BY <1>4 DEF Ending
<1>6. PICK t \in Text : t = putting[c] /\ t = local[c][lpath[c]]
  BY <1>1 DEF ClientOK, LocalInv
<1>7. PICK n \in Nat : n = lpos[c] /\ n <= Len(t)
  BY <1>1, <1>6 DEF ClientOK, ClientTypeOK, LocalInv
<1>8. PICK h \in Text : h = PutPiece(c) /\ h = Piece(t, n)
  BY <1>6, <1>7, PieceFacts DEF PutPiece
<1>9. PICK d \in Nat : d = Len(h)
  BY LenProperties DEF Text
<1>10. lpos'[c] = n + d /\ putting' = putting
  BY <1>7, <1>8, <1>9 DEF PutMore, ClientOK, ClientTypeOK
<1>11. ASSUME Legible(c)' PROVE Arrived(c)'
  <2>1. \A k \in 1 .. n + d : t[k] # Nul
    BY <1>6, <1>10, <1>11 DEF Legible
  <2>2. Legible(c)
    <3>1. \A k \in 1 .. n : k \in 1 .. n + d
      OBVIOUS
    <3> QED
      BY <1>6, <1>7, <2>1, <3>1 DEF Legible
  <2>3. Arrived(c)
    BY <2>2 DEF Putting, Delivers
  <2>4. m.data = h /\ \A k \in 1 .. d : h[k] = t[n + k]
    BY <1>1, <1>7, <1>8, <1>9, <2>1, PieceSent
  <2>5. Bears(m, putting[c], lpos[c])
    <3>1. 1 # 0
      OBVIOUS
    <3>2. m.code # 0
      BY <1>2, <3>1, Zenon
    <3> QED
      BY <1>6, <1>7, <1>9, <2>4, <3>2 DEF Bears
  <2>6. Open(up[c], m) /\ Advances(c, m)
    BY <1>3, <1>7, <1>9, <1>10, <2>4 DEF Open, Advances
  <2> QED
    BY <1>1, <2>3, <2>5, <2>6, SentArrives DEF Stores
<1> QED
  BY <1>5, <1>11 DEF Delivers

(* The end of the data, after all of the file or after a read error.       *)
LEMMA EndArrives ==
  ASSUME FtpInv, NEW c \in Client, Putting(c), PutEnd(c) \/ PutFails(c), UNCHANGED serverVars,
         serverUp, Stores(c)
  PROVE  Delivers(c)' /\ Ending(c)'
<1> USE DEF FtpInv
<1>1. PICK m \in ToServer :
           /\ doing[c] = "putData" /\ m.type = "DATA"
           /\ up'[c] = up[c] \o <<m>>
           /\ m = DataEnd /\ doing'[c] = "prompt"
  <2>1. ~PutMore(c)
    <3>1. PutMore(c) => doing' = doing
      BY DEF PutMore
    <3>2. doing[c] = "putData" /\ doing'[c] = "prompt"
      BY DEF PutEnd, PutFails, Do, ClientOK, ClientTypeOK
    <3> QED
      BY <3>1, <3>2
  <2> QED
    BY <2>1, AfterPiece DEF Supplies
<1>2. m.data = <<>>
  BY <1>1 DEF DataEnd, Msg
<1>3. PICK t \in Text : t = putting[c] /\ t = local[c][lpath[c]]
  BY <1>1 DEF ClientOK, LocalInv
<1>4. PICK n \in Nat : n = lpos[c] /\ n <= Len(t)
  BY <1>1, <1>3 DEF ClientOK, ClientTypeOK, LocalInv
<1>5. PICK r \in Text : r = putting'[c] /\ n = Len(r) /\ \A k \in 1 .. n : r[k] = t[k]
  <2>1. CASE PutEnd(c)
    <3>1. n = Len(t)
      <4>1. Piece(t, n) = <<>>
        BY <1>3, <1>4, <2>1 DEF PutEnd, PutPiece
      <4> QED
        BY <1>4, <4>1, PieceFacts
    <3> QED
      BY <1>3, <2>1, <3>1 DEF PutEnd, transferVars
  <2>2. CASE PutFails(c)
    <3>1. putting'[c] = SubSeq(t, 1, n)
      BY <1>3, <1>4, <2>2 DEF PutFails, ClientOK, ClientTypeOK
    <3>2. Len(t) \in Nat /\ \A i \in 1 .. Len(t) : t[i] \in Byte
      BY LenProperties, ElementOfSeq DEF Text
    <3>3. \A i \in 1 .. n : t[i] \in Byte
      BY <1>4, <3>2
    <3> DEFINE u == SubSeq(t, 1, n)
    <3>4. /\ u \in Seq(Byte) /\ Len(u) = IF 1 <= n THEN n - 1 + 1 ELSE 0
          /\ \A i \in 1 .. n - 1 + 1 : u[i] = t[1 + i - 1]
      BY <3>3, SubSeqProperties
    <3> HIDE DEF u
    <3>5. Len(u) = n
      BY <3>4
    <3>6. \A k \in 1 .. n : k \in 1 .. n - 1 + 1 /\ 1 + k - 1 = k
      OBVIOUS
    <3>7. u \in Text /\ \A k \in 1 .. n : u[k] = t[k]
      BY <3>4, <3>6 DEF Text
    <3> QED
      BY <3>1, <3>5, <3>7 DEF u
  <2> QED
    BY <2>1, <2>2
<1>6. lpos' = lpos
  BY DEF PutEnd, PutFails, transferVars
<1>7. Ending(c)'
  BY <1>1, <1>4, <1>5, <1>6 DEF Ending
<1>8. ASSUME Legible(c)' PROVE Arrived(c)'
  <2>1. Legible(c)
    BY <1>3, <1>4, <1>5, <1>6, <1>8 DEF Legible
  <2>2. Arrived(c)
    BY <2>1 DEF Putting, Delivers
  <2>3. Bears(m, putting[c], lpos[c]) /\ Open(up[c], m)
    BY <1>2, EmptyBears
  <2>4. Advances(c, m)
    <3>1. Len(m.data) = 0
      BY <1>2, EmptySeq
    <3>2. n = n + 0
      OBVIOUS
    <3> QED
      BY <1>2, <1>3, <1>4, <1>5, <1>6, <3>1, <3>2 DEF Advances
  <2> QED
    BY <1>1, <2>2, <2>3, <2>4, SentArrives DEF Stores
<1> QED
  BY <1>7, <1>8 DEF Delivers

(* A client that ends: some of what was on its way may get lost.           *)
LEMMA EndedArrives ==
  ASSUME FtpInv, NEW c \in Client, Putting(c), ClientEnds(c), UNCHANGED serverVars, Stores(c)
  PROVE  Delivers(c)' /\ Ending(c)'
<1>1. /\ doing'[c] = "ended" /\ UNCHANGED <<lpos, putting, files, path, pos>>
      /\ Front(up[c], up'[c])
  BY AfterEnd DEF serverVars
<1>2. Ending(c)'
  <2>1. Unended(up[c]) => Unended(up'[c])
    BY <1>1, FrontFacts
  <2> QED
    BY <1>1, <2>1 DEF Putting, Ending
<1>3. ASSUME Legible(c)' PROVE Arrived(c)'
  <2>1. PICK at \in [Nat -> Nat] : StoredBy(c, at)
    BY <1>1, <1>3 DEF Putting, Delivers, Legible, Arrived
  <2>2. Carries(up'[c], putting[c], lpos[c], at)
    BY <1>1, <2>1, FrontCarries DEF StoredBy
  <2>3. StoredBy(c, at)'
    BY <1>1, <2>1, <2>2 DEF StoredBy
  <2> QED
    BY <2>3 DEF Arrived
<1> QED
  BY <1>2, <1>3 DEF Delivers

LEMMA DeliversClient ==
  ASSUME FtpInv, NEW c \in Client, Putting(c), ClientNext(c), UNCHANGED serverVars, serverUp
  PROVE  Delivers(c)' /\ Ending(c)'
<1>1. SUFFICES ASSUME Stores(c)' PROVE Delivers(c)' /\ Ending(c)'
  BY DEF Delivers, Ending
<1>2. Stores(c)
  BY <1>1, StoresBefore
<1>3. ASSUME up' = up, UNCHANGED <<lpos, putting>>, doing[c] # "ended",
             doing'[c] \in {"put", "putData"} => doing[c] \in {"put", "putData"}
      PROVE  Delivers(c)' /\ Ending(c)'
  <2>1. Ending(c)'
    BY <1>2, <1>3 DEF Putting, Ending
  <2>2. ASSUME Legible(c)' PROVE Arrived(c)'
    <3>1. PICK at \in [Nat -> Nat] : StoredBy(c, at)
      BY <1>2, <1>3, <2>2 DEF Putting, Delivers, Legible, Arrived
    <3>2. StoredBy(c, at)'
      BY <1>3, <3>1 DEF StoredBy, serverVars
    <3> QED
      BY <3>2 DEF Arrived
  <2> QED
    BY <2>1, <2>2 DEF Delivers
<1>4. CASE Requires(c)
  BY <1>1, <1>2, <1>4, RequestArrives
<1>5. CASE Supplies(c)
  BY <1>2, <1>5, PieceArrives, EndArrives DEF Supplies
<1>6. CASE ClientEnds(c)
  BY <1>2, <1>6, EndedArrives
<1>7. CASE PutReply(c)
  <2>1. doing[c] = "put" /\ up' = up /\ UNCHANGED <<lpos, putting>>
    BY <1>7, PutHears DEF Putting
  <2> QED
    BY <1>3, <2>1
<1>8. CASE ~Requires(c) /\ ~Supplies(c) /\ ~ClientEnds(c) /\ ~PutReply(c)
  <2>1. /\ up' = up /\ UNCHANGED <<lpos, putting>> /\ doing[c] # "ended"
        /\ doing'[c] \notin {"put", "putData"}
    BY <1>8, ClientKinds
  <2> QED
    BY <1>3, <2>1
<1> QED
  BY <1>4, <1>5, <1>6, <1>7, <1>8

(* A step of the client of c.                                              *)
LEMMA ClientPuts ==
  ASSUME FtpInv, NEW c \in Client, Agreed(c), Putting(c), ClientNext(c), UNCHANGED serverVars,
         serverUp
  PROVE  Putting(c)'
<1>1. Drained(c)'
  BY DrainedClient DEF Putting
<1>2. Asked(c)'
  BY AskedClient DEF Putting
<1>3. Delivers(c)' /\ Ending(c)'
  BY DeliversClient
<1> QED
  BY <1>1, <1>2, <1>3 DEF Putting

LEMMA OthersPut ==
  ASSUME FtpInv, NEW c \in Client, NEW d \in Client, c # d, ClientNext(d)
  PROVE  UNCHANGED <<lpos[c], putting[c]>>
<1> USE DEF FtpInv, ClientOK, ClientTypeOK
<1>1. /\ UNCHANGED lpos \/ \E x : lpos' = [lpos EXCEPT ![d] = x]
      /\ UNCHANGED putting \/ \E x : putting' = [putting EXCEPT ![d] = x]
  <2>1. CASE AskPut(d)
    BY <2>1 DEF AskPut
  <2>2. CASE PutMore(d)
    BY <2>2 DEF PutMore
  <2>3. CASE PutFails(d)
    BY <2>3 DEF PutFails
  <2>4. CASE ~AskPut(d) /\ ~PutMore(d) /\ ~PutFails(d)
    BY <2>4 DEF ClientNext, Connect, AskQuit, AskPwd, AskCd, AskDir, AskGet, Lcd,
         QuitReply, PwdReply, CdReply, DirReply, GetReply, PutReply, DirData, GetData,
         GetFails, PutEnd, ClientEnds, transferVars
  <2> QED
    BY <2>1, <2>2, <2>3, <2>4
<1> QED
  BY <1>1

LEMMA PuttingStep ==
  ASSUME FtpInv, NEW c \in Client \ Split, Joined(c), Agreed(c), Putting(c), [Next]_vars, serverUp
  PROVE  Putting(c)'
<1> USE DEF FtpInv
<1>1. BytesStay /\ FilesLast
  BY BytesStayAlways, FilesLastAlways
<1>2. ASSUME NEW d \in Client, ChildStep(d) \/ Accept(d), UNCHANGED clientVars
      PROVE  Putting(c)'
  <2>1. CASE c # d
    <3>1. UNCHANGED <<up[c], down[c], child[c], path[c], pos[c]>>
      BY <1>2, <2>1, OthersApart, ChildrenApart, OthersReading
    <3> QED
      BY <1>1, <1>2, <3>1, PuttingKept DEF clientVars
  <2>2. CASE c = d /\ ChildStep(c)
    BY <1>2, <2>2, ChildPuts
  <2>3. CASE c = d /\ Accept(c)
    <3>1. /\ child'[c] # "sput" /\ UNCHANGED <<up, down, path, pos>>
      BY <2>3 DEF Accept, Goto, wireVars, ChildrenOK
    <3> QED
      BY <1>1, <1>2, <3>1, PuttingKept DEF clientVars
  <2> QED
    BY <1>2, <2>1, <2>2, <2>3
<1>3. CASE (SigChld \/ Wait \/ ServerKilled) /\ UNCHANGED clientVars
  <2>1. UNCHANGED <<up, down, path, pos>> /\ (child'[c] = child[c] \/ child'[c] # "sput")
    BY <1>3 DEF SigChld, Wait, ServerKilled, wireVars
  <2> QED
    BY <1>1, <1>3, <2>1, PuttingKept DEF clientVars
<1>4. ASSUME NEW d \in Client, ClientNext(d), UNCHANGED serverVars
      PROVE  Putting(c)'
  <2>1. CASE c # d
    <3>1. UNCHANGED <<up[c], down[c], doing[c], lpos[c], putting[c]>>
      BY <1>4, <2>1, OthersApart, ClientsApart, OthersPut
    <3> QED
      BY <1>1, <1>4, <3>1, PuttingKept DEF serverVars
  <2>2. CASE c = d
    BY <1>4, <2>2, ClientPuts
  <2> QED
    BY <2>1, <2>2
<1>5. ASSUME NEW d \in Client, LoseTail(d) PROVE FALSE
  BY <1>5 DEF LoseTail
<1>6. CASE UNCHANGED vars
  BY <1>1, <1>6, PuttingKept DEF vars, wireVars, serverVars, clientVars
<1> QED
  BY <1>2, <1>3, <1>4, <1>5, <1>6 DEF Next, ServerStep

LEMMA PutInvStep == FtpInv /\ StepInv /\ PutInv /\ [Next]_vars => PutInv'
<1> SUFFICES ASSUME FtpInv, StepInv, PutInv, [Next]_vars, NEW c \in Client \ Split,
                    ~lost'[c], serverUp'
             PROVE  Putting(c)'
  BY DEF PutInv
<1>1. ~lost[c] /\ serverUp
  BY LostStays, UpBefore
<1>2. Joined(c) /\ Agreed(c) /\ Putting(c)
  BY <1>1 DEF StepInv, PutInv, Whole
<1> QED
  BY <1>1, <1>2, PuttingStep

LEMMA PutInvInit == Init => PutInv
<1> SUFFICES ASSUME Init, NEW c \in Client PROVE Putting(c)
  BY DEF PutInv
<1>1. doing[c] = "off" /\ up[c] = <<>> /\ child[c] = "none"
  BY DEF Init, WireInit, ServerInit, ClientInit
<1>2. Drained(c) /\ Asked(c) /\ Delivers(c) /\ Ending(c)
  BY <1>1, EmptyFacts DEF Drained, Asked, Delivers, Ending, Stores, Hears, Asks
<1> QED
  BY <1>2 DEF Putting

(* Where the end of the data is next, all that was sent is stored.         *)
LEMMA PutEndsRight ==
  ASSUME FtpInv, StepInv, PutInv, NEW c \in Client \ Split, PutEnds(c), ~NextAsked(c), ~lost[c],
         Plain(putting[c])
  PROVE  IsWithin(putting[c], SubSeq(files[path[c]], pos[c] + 1, Len(files[path[c]])))
<1> USE DEF FtpInv
<1>1. child[c] = "sput" /\ up[c] # <<>> /\ Head(up[c]) = DataEnd
  BY DEF PutEnds
<1>2. DataEnd.type = "DATA" /\ DataEnd.code = 0
  BY DEF DataEnd, Msg
<1>3. PICK s \in Seq(Message) : s = up[c] /\ s # <<>> /\ DOMAIN s = 1 .. Len(s)
  BY <1>1, UpTyped, LenProperties
<1>4. 1 \in 1 .. Len(s) /\ s[1].type = "DATA" /\ s[1].code = 0
  <2>1. Head(s) = s[1] /\ Len(s) \in Nat /\ Len(s) >= 1
    BY <1>3, FirstTaken
  <2>2. 1 \in 1 .. Len(s)
    BY <2>1
  <2> QED
    BY <1>1, <1>2, <1>3, <2>1, <2>2
<1>5. Stores(c)
  BY <1>1, <1>3 DEF NextAsked, Stores, HasStor
<1>6. Putting(c)
  <2>1. serverUp
    BY <1>1 DEF StepInv, Joined
  <2> QED
    BY <2>1 DEF PutInv
<1>7. PICK t \in Text : t = putting[c]
  BY DEF ClientOK, ClientTypeOK
<1>8. PICK n \in Nat : n = Len(t) /\ DOMAIN t = 1 .. n
  BY LenProperties DEF Text
<1>9. lpos[c] = n
  <2>1. ~Unended(s)
    <3>1. 1 # 0
      OBVIOUS
    <3> QED
      BY <1>4, <3>1, Zenon DEF Unended
  <2> QED
    BY <1>3, <1>5, <1>6, <1>7, <1>8, <2>1 DEF Putting, Ending
<1>10. Legible(c)
  BY <1>7, <1>8, <1>9 DEF Legible, Plain
<1>11. PICK at \in [Nat -> Nat] : StoredBy(c, at)
  BY <1>5, <1>6, <1>10 DEF Putting, Delivers, Arrived
<1>12. at[1] = n
  BY <1>3, <1>4, <1>9, <1>11 DEF StoredBy, Carries
<1>13. PICK f \in Text : f = files[path[c]]
  BY <1>1 DEF ChildrenOK, FileInv
<1>14. PICK p \in Nat : p = pos[c]
  BY DEF ChildrenOK
<1>15. Stored(t, Len(t), f, p)
  BY <1>7, <1>8, <1>11, <1>12, <1>13, <1>14 DEF StoredBy
<1> QED
  BY <1>7, <1>13, <1>14, <1>15, StoredSeen

(* A put whose child has seen the end of its data has stored all of the    *)
(* client's file, in its order and behind what the server's file held,     *)
(* whatever other connections have written between the pieces, as long as  *)
(* recv() gets what was sent whole (PutStores).                            *)
THEOREM PutsStore == Spec => PutStores
<1>1. StepInv /\ PutInv /\ FtpInv /\ [Next]_vars =>
        [\A c \in Client \ Split :
           PutEnds(c) /\ ~NextAsked(c) /\ ~lost[c] /\ Plain(putting[c])
           => LET now == files[path[c]]
              IN IsWithin(putting[c], SubSeq(now, pos[c] + 1, Len(now)))]_vars
  BY PutEndsRight
<1>2. Init => StepInv /\ PutInv
  BY StepInvInit, PutInvInit
<1>3. FtpInv /\ StepInv /\ PutInv /\ [Next]_vars => StepInv' /\ PutInv'
  BY StepInvStep, PutInvStep
<1> QED
  BY <1>1, <1>2, <1>3, InvAlways, PTL DEF Spec, PutStores
=============================================================================
