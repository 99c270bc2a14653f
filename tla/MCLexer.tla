------------------------------ MODULE MCLexer ------------------------------
(***************************************************************************)
(* Texts for module Lexer, and its properties, which are stated with what  *)
(* a lexeme, a blank and a comment of the language are.                    *)
(***************************************************************************)
EXTENDS Lexer, SequencesExt

MCLetters  == {"i", "f", "n", "t", "a"}
MCDigits   == {"1", "2"}
MCTypes    == {<<"i", "n", "t">>}
MCKeywords == {<<"i", "f">>}
MCMaxPeek  == 3         \* the longest look-ahead of parser.cc

Signs == {"+", "-", "*", "/", "^", "=", "(", ";", ":", ")", ">", "<", ",", "{", "}", "[", "]", ".", "%", "!", "'"}
Tab   == "\t"           \* a character the lexer does not know

(* Every text of up to two characters; and longer ones of the characters   *)
(* that make operators, comments, strings, numbers or words.               *)
MCTexts ==
    SeqOf(Signs \cup {"i", "_", "1", " ", "\n", Tab, "#", Quote, Slash}, 2)
      \cup SeqOf({"+", "-", ">", "=", "!", ".", "<"}, 3)
      \cup SeqOf({"/", "*", "\n", "a"}, 5) \cup SeqOf({"/", " ", "\n", "#", "a"}, 4)
      \cup SeqOf({Quote, Slash, "a"}, 6)
      \cup SeqOf({"1", "2", ".", "a"}, 4)
      \cup SeqOf({"i", "f", "n", "t"}, 4)

-----------------------------------------------------------------------------
(* The language.  A word w is a lexeme of some kind; Lexemes gives the     *)
(* kinds of what stands between two positions.                             *)
Spelled == {w \in SeqOf({"+", "-", ">", "=", "!", "<", "*", "/", "."}, 2) :
              \/ Len(w) = 1
              \/ Len(w) = 2 /\ w[2] = "=" /\ w[1] \in {"+", "-", "*", "/", "=", ">", "<", "!"}
              \/ w \in {<<"+", "+">>, <<"-", "-">>, <<"-", ">">>, <<".", ".">>}}
             \cup {<<c>> : c \in Signs}

AllIn(w, S)  == \A i \in DOMAIN w : w[i] \in S
IsNumber(w)  == w # <<>> /\ AllIn(w, Digits)
IsAFloat(w)  == \E i \in DOMAIN w : /\ w[i] = "." /\ IsNumber(SubSeq(w, 1, i - 1))
                                    /\ AllIn(SubSeq(w, i + 1, Len(w)), Digits)
IsWord(w)    == w # <<>> /\ w[1] \notin Digits /\ AllIn(w, Letters \cup Digits \cup {"_"})
IsString(w)  == /\ Len(w) >= 2 /\ w[1] = Quote /\ w[Len(w)] = Quote
                /\ \A i \in 2..Len(w) : w[i] = Quote => (i = Len(w)) # (w[i - 1] = Slash)

Lexeme(w)    == w = <<"\n">> \/ w \in Spelled \/ IsNumber(w) \/ IsAFloat(w) \/ IsWord(w) \/ IsString(w)

(* The point before another point is not a number's.                       *)
LexemesAt(p) == {q \in (p + 1)..Len(text) :
                   LET w == Between(p, q)
                   IN  Lexeme(w) /\ ~(IsAFloat(w) /\ Last(w) = "." /\ At(q) = ".")}

(* What is written between quotes.                                         *)
Content(w)   == FoldLeft(LAMBDA out, c : IF c = Quote /\ out # <<>> /\ Last(out) = Slash
                                        THEN Append(Front(out), c) ELSE Append(out, c), <<>>, w)

KindIs(kind, w) == CASE IsNumber(w)        -> kind = "NUMBER"
                     [] IsAFloat(w)        -> kind = "FLOAT"
                     [] IsString(w)        -> kind = "STRING"
                     [] w = <<"\n">>       -> kind = "NEWLINE"
                     [] w \in Types        -> kind = "TYPE"
                     [] w \in Keywords     -> kind = "KEYWORD"
                     [] IsWord(w)          -> kind = "NAME"
                     [] OTHER              -> kind \in {s.kind : s \in Operators}

(* A string without a character between its quotes: the lexer does not     *)
(* see where it ends.                                                      *)
EmptyString  == \E p \in 0..Len(text) : At(p) = Quote /\ At(p + 1) = Quote

-----------------------------------------------------------------------------
(* Each token is the longest lexeme where it starts, of its kind, with its *)
(* text; the end comes only where there is none, and what was opened and   *)
(* is not closed is all that runs over the end of the text.  (Texts with   *)
(* an empty string aside.)                                                 *)
Scanned == IF saved = <<>> THEN cur_token' ELSE promise'[1].token
TokenIsRight ==
    LET p == lexer.pos
        w == Between(p, Max(LexemesAt(p)))
    IN  IF phase' = "overrun" THEN At(p) = Quote /\ LexemesAt(p) = {}
        ELSE IF LexemesAt(p) = {} THEN Scanned.kind = "END"
        ELSE /\ KindIs(Scanned.kind, w)
             /\ Scanned.value = CASE IsString(w) -> Content(SubSeq(w, 2, Len(w) - 1))
                                  [] w = <<"\n">> -> <<>>
                                  [] OTHER -> w
             /\ saved = <<>> => lexer'.pos = Max(LexemesAt(p))
TokensAreLexemes == [][phase = "token" /\ want = 1 /\ ~EmptyString => TokenIsRight]_vars

=============================================================================
