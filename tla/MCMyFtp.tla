------------------------------ MODULE MCMyFtp ------------------------------
(* MyFtp with small files.                                                 *)
EXTENDS MyFtp, TLC
CONSTANTS c1, c2, d1, d2, f
(* The server has a file of two pieces in d1, and none in d2.              *)
OneFile == [p \in Path |-> IF p = <<d1, f>> THEN <<"a", "b", "c">> ELSE NoFile]

(* One client has a file of two pieces in d1 and another, of one, in d2;   *)
(* the other has files that are not plain, their first piece of two bytes. *)
MyFiles == [c \in Client |-> [p \in Path |-> IF c # c1 THEN <<"x", "z", Nul>>
                                             ELSE IF p = <<d1, f>> THEN <<"x", "y", "z">>
                                             ELSE <<"z", "x">>]]

OnlyHere == {<<Here, f>>}

(* One client gives three commands, or both give one.                      *)
ManyOrTogether == {[c \in Client |-> IF c = c1 THEN 3 ELSE 0],
                   [c \in Client |-> 1]}

(* The client whose network splits messages gives two commands, or both    *)
(* give one.                                                               *)
TwoOrTogether == {[c \in Client |-> IF c = c2 THEN 2 ELSE 0],
                  [c \in Client |-> 1]}
=============================================================================
