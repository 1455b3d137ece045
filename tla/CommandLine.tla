---------------------------- MODULE CommandLine ----------------------------
(***************************************************************************)
(* How the programs take a line apart: gettoken() and the loops of main()  *)
(* over its tokens (ex-3), and getargs() (ex-2, ex-4, ex-5bq), against     *)
(* what the line means.  The line is typed one character after the other,  *)
(* so that every line up to MaxLine characters is looked at.               *)
(***************************************************************************)
EXTENDS Naturals, Sequences, FiniteSets, SequencesExt

CONSTANTS MaxLine,  \* bound: characters of a line
          TokenLen, \* TOKENLEN
          MaxCom,   \* MAXCOM
          MaxChar   \* MAXCHAR

ASSUME LineAssumption == /\ MaxLine \in Nat /\ TokenLen \in Nat \ {0, 1, 2}
                         /\ MaxCom \in Nat \ {0, 1} /\ MaxChar \in Nat \ {0}

VARIABLE line

(* A printable character, one that is not (an umlaut, a control code), a   *)
(* blank, and those with a meaning in ex-3.                                *)
Char  == {"w", "x", " ", "|", "<", ">", "&"}
NewLine == "nl"

Init == line = <<>>
Type == /\ Len(line) < MaxLine
        /\ \E c \in Char : line' = Append(line, c)
Spec == Init /\ [][Type]_line

Input == Append(line, NewLine)

-----------------------------------------------------------------------------
(* gettoken(): the type, the text of a NORMAL token, and what is left of   *)
(* standard input.  The whole line is there when the first character is.   *)
Special(c)  == c \in {"|", "<", ">", "&", NewLine}
Ordinary(c) == ~Special(c) /\ c # " "

TypeOf == [c \in {"|", "<", ">", "&", NewLine} |->
            CASE c = "|" -> "PIPE" [] c = "<" -> "REDIR_IN" [] c = ">" -> "REDIR_OUT"
              [] c = "&" -> "BG" [] OTHER -> "EOL"]

Token(type, text, rest) == [type |-> type, text |-> text, rest |-> rest]
From(s, k) == SubSeq(s, k, Len(s))

(* Mutant of AfterOut: the character that is no second > is not put back.  *)
AfterOutLost(s) == From(s, 3)
AfterOut(s) == From(s, 2)

(* A word from the start of s.  The loop ends before TokenLen characters.  *)
(* ungetc() puts the last character read back: the one that ends the word, *)
(* or, when the loop has ended by its count, the last one of the word.     *)
Word(s) ==
  LET stop == SelectInSeq(s, LAMBDA c : ~Ordinary(c))
      n    == IF stop - 1 < TokenLen - 1 THEN stop - 1 ELSE TokenLen - 1
  IN Token("NORMAL", SubSeq(s, 1, n), From(s, IF n = TokenLen - 1 THEN n ELSE stop))

Gettoken(stdin) ==
  LET first == SelectInSeq(stdin, LAMBDA c : c # " ")
      s     == IF first = 0 THEN <<>> ELSE From(stdin, first)
  IN CASE s = <<>> -> Token("EOF", <<>>, <<>>)
       [] s[1] = ">" /\ s[2] = ">" -> Token("REDIR_APPEND", <<>>, From(s, 3))
       [] s[1] = ">" /\ s[2] # ">" -> Token("REDIR_OUT", <<>>, AfterOut(s))
       [] Special(s[1]) /\ s[1] # ">" -> Token(TypeOf[s[1]], <<>>, From(s, 2))
       [] OTHER -> Word(s)

(* The loop of main() over the tokens up to the end of the line.  A line   *)
(* for which it has no room is not looked at.  Every round takes something *)
(* off the line, so that it has no more rounds than characters.            *)
TokenRound(acc) ==
  LET t == Gettoken(acc.rest)
  IN IF t.type \in {"EOL", "EOF"} THEN acc
     ELSE [rest   |-> t.rest,
           tokens |-> Append(acc.tokens, [type |-> t.type, text |-> t.text])]

Tokens(stdin) ==
  LET acc[n \in 0 .. Len(stdin)] ==
        IF n = 0 THEN [rest |-> stdin, tokens |-> <<>>] ELSE TokenRound(acc[n - 1])
  IN acc[Len(stdin)].tokens

-----------------------------------------------------------------------------
(* main() over the tokens T: the arguments of command i, from 0, and the   *)
(* files its standard input and output are redirected to.                  *)
Of(T, types) == {j \in DOMAIN T : T[j].type \in types}

(* The numbers of S upwards: the n-th is the one with n of them up to it.  *)
Ups(S) == [n \in 1 .. Cardinality(S) |->
             CHOOSE i \in S : Cardinality({j \in S : j <= i}) = n]

PipeCnt(T) == Cardinality(Of(T, {"PIPE"}))
PipeFind(T, i) == IF i = 0 THEN 0 ELSE Ups(Of(T, {"PIPE"}))[i]

(* The redirections a child looks at are those of the whole line, input in *)
(* the first command and output in the last.  The last one counts.         *)
Looked(T, i) ==
  (IF i = 0 THEN {"REDIR_IN"} ELSE {})
    \cup (IF i = PipeCnt(T) THEN {"REDIR_OUT", "REDIR_APPEND"} ELSE {})

(* Mutant of LastOf: the loop ends with the first redirection.             *)
FirstOf(T, S) == IF S = {} THEN <<>> ELSE <<T[Ups(S)[1] + 1].text>>
LastOf(T, S)  == IF S = {} THEN <<>> ELSE <<T[Last(Ups(S)) + 1].text>>

(* argv ends with the first token that was replaced by NULL; tokens that   *)
(* are left and are no words are empty strings.                            *)
Argv(T, i) ==
  LET from  == PipeFind(T, i) + 1
      nulls == {j \in Of(T, {"PIPE", "BG"} \cup Looked(T, i)) : j >= from}
      to    == IF nulls = {} THEN Len(T) ELSE Ups(nulls)[1] - 1
  IN [k \in 1 .. to - from + 1 |-> T[from + k - 1].text]

Parsed(T) ==
  [i \in 0 .. PipeCnt(T) |->
     [argv |-> Argv(T, i),
      in   |-> LastOf(T, Of(T, {"REDIR_IN"} \cap Looked(T, i))),
      out  |-> LastOf(T, Of(T, {"REDIR_OUT", "REDIR_APPEND"} \cap Looked(T, i)))]]

-----------------------------------------------------------------------------
(* getargs(): one round of its loop.                                       *)
Printable(c) == c \notin {"x", " ", NewLine}

(* Mutant of EndsWord: prev is not looked at.                              *)
EndsAnyWord(c, word) == c \in {" ", NewLine}
EndsWord(c, word) == c \in {" ", NewLine} /\ word # <<>>

Round(acc, c) ==
  IF acc.done THEN acc
  ELSE IF acc.read = MaxChar - 1 \/ Len(acc.words) > MaxCom - 2
       THEN [acc EXCEPT !.read = @ + 1, !.done = TRUE]
  ELSE [read  |-> acc.read + 1,
        done  |-> c = NewLine,
        words |-> IF EndsWord(c, acc.word) THEN Append(acc.words, acc.word) ELSE acc.words,
        word  |-> IF Printable(c) THEN Append(acc.word, c)
                  ELSE IF EndsWord(c, acc.word) THEN <<>> ELSE acc.word]

Getargs(s) ==
  LET acc[n \in 0 .. Len(s)] ==
        IF n = 0 THEN [read |-> 0, done |-> FALSE, words |-> <<>>, word |-> <<>>]
        ELSE Round(acc[n - 1], s[n])
  IN acc[Len(s)]

-----------------------------------------------------------------------------
(* What a sequence has at the positions of S.                              *)
Picked(s, S) == LET at == Ups(S) IN [n \in DOMAIN at |-> s[at[n]]]

(* Reference: a token begins at an ordinary character after none, at a     *)
(* special one, and at every second > of a row.                            *)
Row(s, i) == i - 1 - Max({0} \cup {j \in 1 .. i - 1 : s[j] # ">"})
Begins(s, i) == \/ Ordinary(s[i]) /\ (i = 1 \/ ~Ordinary(s[i - 1]))
                \/ Special(s[i]) /\ s[i] # ">"
                \/ s[i] = ">" /\ Row(s, i) % 2 = 0
WordEnd(s, i) == Max({j \in i .. Len(s) : \A k \in i .. j : Ordinary(s[k])})
TokensMeant(s) ==
  LET at == Ups({i \in DOMAIN s : Begins(s, i)})
  IN [n \in DOMAIN at |->
       LET i == at[n] IN
       IF Ordinary(s[i]) THEN [type |-> "NORMAL", text |-> SubSeq(s, i, WordEnd(s, i))]
       ELSE [type |-> IF s[i] = ">" /\ Append(s, NewLine)[i + 1] = ">" THEN "REDIR_APPEND"
                      ELSE TypeOf[s[i]],
             text |-> <<>>]]

(* Words of TOKENLEN - 1 characters and more are cut in two, and the       *)
(* character at the cut is in both; all shorter ones are found.            *)
Short(s) == \A i \in DOMAIN s : Ordinary(s[i]) => WordEnd(s, i) - i < TokenLen - 2
TokensRight == Short(line) => Tokens(Input) = TokensMeant(line)

(* Reference: the commands between the bars.                               *)
Commands(T) ==
  LET bars == <<0>> \o Ups(Of(T, {"PIPE"})) \o <<Len(T) + 1>>
  IN [i \in 0 .. Len(bars) - 2 |-> SubSeq(T, bars[i + 1] + 1, bars[i + 2] - 1)]

Redirs == {"REDIR_IN", "REDIR_OUT", "REDIR_APPEND"}
Words(C) == Picked(C, Of(C, {"NORMAL"}))
Texts(C) == [k \in DOMAIN C |-> C[k].text]
Target(C, types) ==
  LET S == Of(C, types) IN IF S = {} THEN <<>> ELSE <<C[Max(S) + 1].text>>

(* A command as the shell expects it: words, then redirections each with a *)
(* word, of input in the first command and of output in the last; then &.  *)
Plain(T) ==
  LET C == Commands(T)
      n == Cardinality(DOMAIN C) - 1
      Operands(i) == {j + 1 : j \in Of(C[i], Redirs)}
      Arguments(i) == Of(C[i], {"NORMAL"}) \ Operands(i)
  IN \A i \in DOMAIN C :
       /\ Arguments(i) # {}
       /\ Operands(i) \subseteq Of(C[i], {"NORMAL"})
       /\ \A j \in Arguments(i) : \A k \in Of(C[i], Redirs) : j < k
       /\ \A j \in Of(C[i], {"BG"}) : i = n /\ j = Len(C[i])
       /\ \A j \in Of(C[i], {"REDIR_IN"}) : i = 0
       /\ \A j \in Of(C[i], {"REDIR_OUT", "REDIR_APPEND"}) : i = n

(* Each command of a line gets its own words and its own redirections,     *)
(* although every child looks through the whole line.                      *)
ParsedAsMeant ==
  LET T == Tokens(Input)
      C == Commands(T)
  IN Plain(T) =>
       Parsed(T) =
         [i \in DOMAIN C |->
           [argv |-> SubSeq(Texts(Words(C[i])), 1,
                            Len(Words(C[i])) - Cardinality(Of(C[i], Redirs))),
            in   |-> Target(C[i], {"REDIR_IN"}),
            out  |-> Target(C[i], {"REDIR_OUT", "REDIR_APPEND"})]]

(* Reference: the words between blanks, without what is not printable.     *)
Seen(s) == Picked(s, {i \in DOMAIN s : s[i] # "x"})
WordsMeant(s) ==
  LET t  == Seen(s)
      at == Ups({i \in DOMAIN t : t[i] # " " /\ (i = 1 \/ t[i - 1] = " ")})
      EndOf(i) == Max({j \in i .. Len(t) : \A k \in i .. j : t[k] # " "})
  IN [n \in DOMAIN at |-> SubSeq(t, at[n], EndOf(at[n]))]

(* Those behind which a blank has come.                                    *)
WordsEnded(s) ==
  LET t == Seen(s)
  IN IF t = <<>> \/ t[Len(t)] = " " THEN WordsMeant(s) ELSE Front(WordsMeant(s))

(* getargs() finds the words of a line, up to MAXCOM - 1 of them.  Of a    *)
(* line that has no room in MAXCHAR - 1 characters with its newline it     *)
(* finds those that a blank ends within them: the word at the cut is lost. *)
(* With fewer words than MAXCOM - 1 it has read to the end of the line or, *)
(* of a longer one, MAXCHAR characters: in ex-2, where it reads standard   *)
(* input, what is left is taken for the next command.                      *)
ArgsAreWords ==
  LET got  == Getargs(Input)
      kept == IF Len(Input) < MaxChar THEN WordsMeant(line)
              ELSE WordsEnded(SubSeq(line, 1, MaxChar - 1))
  IN /\ got.words = SubSeq(kept, 1, Min({Len(kept), MaxCom - 1}))
     /\ Len(kept) < MaxCom - 1 => got.read = Min({Len(Input), MaxChar})
=============================================================================
