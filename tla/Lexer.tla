------------------------------- MODULE Lexer -------------------------------
(***************************************************************************)
(* The lexer (src/src/lexer.cc): donsus_lexer_next, which makes a token of *)
(* what is under the cursor, and donsus_peek (src/src/parser.cc), which    *)
(* makes up to three of them and then puts the cursor back.                *)
(*                                                                         *)
(* A text is a sequence of characters, numbered from 0 as the program does *)
(* it; a NUL stands after the last one.  Every move is eat's, a character  *)
(* at a time, and the loops of the code are told by the position they stop *)
(* at.  What is after the NUL is not the program's: a read there is the    *)
(* phase "overrun", and nothing is said of what comes of it.               *)
(***************************************************************************)
EXTENDS Integers, Sequences, FiniteSetsExt

CONSTANTS
    Texts,              \* the texts there are
    Letters, Digits,    \* isalpha and isdigit
    Types, Keywords,    \* DONSUS_TYPES_LEXER and DONSUS_KEYWORDS, as sets of words
    MaxPeek             \* how far the parser looks ahead

ASSUME LexerAssumption ==
    /\ \A t \in Texts : t \in Seq(STRING)
    /\ Types \cap Keywords = {}
    /\ Letters \cap Digits = {}
    /\ MaxPeek \in Nat \ {0}

VARIABLES
    text,       \* lexer.string
    lexer,      \* the rest of donsus_lexer: pos, char, column, line
    phase,      \* "ready", inside donsus_lexer_next, "ended" or "overrun"
    want,       \* the tokens the call still has to make
    saved,      \* donsus_peek's copies of the lexer: none, or one
    cur_token,  \* the parser's current token
    promise     \* what the last peek said, and for how many tokens from here

vars == <<text, lexer, phase, want, saved, cur_token, promise>>

-----------------------------------------------------------------------------
NUL   == "NUL"
Quote == "\""
Slash == "\\"

At(p)       == IF p < Len(text) THEN text[p + 1] ELSE NUL
Beyond      == Len(text) + 1
Between(p, q) == SubSeq(text, p + 1, q)              \* get_text_between_pos
FirstOf(p, Stops(_)) == Min({q \in p..Len(text) : Stops(q)} \cup {Beyond})

(* The start of a name, and the inside of one.                             *)
(* (A slip: a name may start with an underscore but not go on with it.)    *)
Starts            == Letters \cup {"_"}
Continues_letters == Letters \cup Digits
Continues         == Starts \cup Digits

(* eat, until position p is reached.                                       *)
(* (A slip: a move that does not count the columns.)                       *)
EatTo_still(l, p) == [l EXCEPT !.pos = p, !.char = At(p)]
EatTo(l, p)       == IF p = l.pos THEN l
                     ELSE [l EXCEPT !.pos = p, !.char = At(p), !.column = @ + p - l.pos]

Token(kind, value, line, column) == [kind |-> kind, value |-> value, line |-> line, column |-> column]
NoToken == Token("NONE", <<>>, 0, 0)

-----------------------------------------------------------------------------
(* consume_spaces: where it stops when it starts at p.  A comment from #   *)
(* goes to the end of its line.  Another ends at the first star, and takes *)
(* a slash after it; without a star the loop runs over the end.            *)
(* (A slip: a comment from # that takes the end of its line.)              *)
LineEnd_taken(p) == Min({Len(text), FirstOf(p, LAMBDA q : At(q) \in {"\n", NUL}) + 1})
LineEnd(p) == FirstOf(p, LAMBDA q : At(q) \in {"\n", NUL})
Star(p)    == FirstOf(p + 2, LAMBDA q : At(q) = "*")

CommentEnd(p) == CASE Star(p) = Beyond        -> Beyond
                   [] At(Star(p) + 1) = "/"   -> Star(p) + 2
                   [] OTHER                   -> Star(p)

Blank(p) == At(p) \in {" ", "#"} \/ (At(p) = "/" /\ At(p + 1) = "*")
Over(p)  == CASE At(p) = " " -> p + 1
              [] At(p) = "#" -> LineEnd(p)
              [] At(p) = "/" -> CommentEnd(p)

AfterSpaces[p \in 0..Beyond] == IF Blank(p) THEN AfterSpaces[Over(p)] ELSE p

ConsumeSpaces ==
    /\ phase = "spaces"
    /\ LET p == AfterSpaces[lexer.pos]
       IN  IF p = Beyond
           THEN phase' = "overrun" /\ UNCHANGED lexer
           ELSE phase' = "token" /\ lexer' = EatTo(lexer, p)
    /\ UNCHANGED <<text, want, saved, cur_token, promise>>

-----------------------------------------------------------------------------
(* The calls.  donsus_parser_next keeps the token; the parsing loops stop  *)
(* asking at the end.  donsus_peek(n) copies the lexer, makes n tokens,    *)
(* and puts the copy back.                                                 *)
ParserNext ==
    /\ phase = "ready"
    /\ phase' = "spaces" /\ want' = 1
    /\ UNCHANGED <<text, lexer, saved, cur_token, promise>>

Peek(n) ==
    /\ phase = "ready" /\ promise = <<>>        \* one look-ahead at a time
    /\ phase' = "spaces" /\ want' = n /\ saved' = <<lexer>>
    /\ promise' = <<[left |-> n, token |-> NoToken]>>
    /\ UNCHANGED <<text, lexer, cur_token>>

(* The end of donsus_lexer_next, with the token made and the lexer after.  *)
(* (Slips: the character, or line and column, are not put back.)           *)
Restored_char  == [saved[1] EXCEPT !.char = lexer.char]
Restored_place == [lexer EXCEPT !.pos = saved[1].pos, !.char = saved[1].char]
Restored       == saved[1]

Kept(token, after) ==
    /\ cur_token' = token /\ lexer' = after
    /\ phase' = IF token.kind = "END" THEN "ended" ELSE "ready"
    /\ promise' = IF promise = <<>> \/ promise[1].left = 1 THEN <<>> ELSE <<[promise[1] EXCEPT !.left = @ - 1]>>
    /\ UNCHANGED saved

Peeked(token) ==
    /\ promise' = <<[promise[1] EXCEPT !.token = token]>>
    /\ lexer' = Restored /\ saved' = <<>>
    /\ phase' = "ready"
    /\ UNCHANGED cur_token

Produce(token, after) ==
    /\ \/ want > 1 /\ lexer' = after /\ phase' = "spaces" /\ UNCHANGED <<saved, cur_token, promise>>
       \/ want = 1 /\ saved = <<>> /\ Kept(token, after)
       \/ want = 1 /\ saved # <<>> /\ Peeked(token)
    /\ want' = want - 1
    /\ UNCHANGED text

-----------------------------------------------------------------------------
(* donsus_lexer_next, a case of its switch at a time.                      *)
(* A new line's own token carries the number of the line it begins.        *)
Newline ==
    /\ phase = "token" /\ lexer.char = "\n"
    /\ Produce(Token("NEWLINE", <<>>, lexer.line + 1, 1),
               [pos |-> lexer.pos + 1, char |-> At(lexer.pos + 1), column |-> 2, line |-> lexer.line + 1])

(* What is spelled with one character or two; the two are tried first.     *)
(* (A slip: no increment.)                                                 *)
Sign(word, kind) == [word |-> word, kind |-> kind]

PlusSigns_once == {Sign(<<"+">>, "PLUS"), Sign(<<"+", "=">>, "PLUS_EQUAL")}
PlusSigns   == {Sign(<<"+">>, "PLUS"), Sign(<<"+", "=">>, "PLUS_EQUAL"), Sign(<<"+", "+">>, "INCREMENT")}
MinusSigns  == {Sign(<<"-">>, "MINUS"), Sign(<<"-", "=">>, "MINUS_EQUAL"), Sign(<<"-", "-">>, "DECREMENT"),
                Sign(<<"-", ">">>, "ARROW")}
Products    == {Sign(<<"*">>, "STAR"), Sign(<<"*", "=">>, "STAR_EQUAL"),
                Sign(<<"/">>, "SLASH"), Sign(<<"/", "=">>, "SLASH_EQUAL")}
Equals      == {Sign(<<"^">>, "CIRCUMFLEX"), Sign(<<"=">>, "EQUAL"), Sign(<<"=", "=">>, "DOUBLE_EQUAL")}
Separators  == {Sign(<<"(">>, "LPAR"), Sign(<<";">>, "SEMICOLON"), Sign(<<":">>, "COLO"), Sign(<<")">>, "RPAR")}
Comparisons == {Sign(<<">">>, "GREATER"), Sign(<<">", "=">>, "GREATER_EQUAL"),
                Sign(<<"<">>, "LESS"), Sign(<<"<", "=">>, "LESS_EQUAL")}
Brackets    == {Sign(<<",">>, "COMM"), Sign(<<"{">>, "LBRACE"), Sign(<<"}">>, "RBRACE"),
                Sign(<<"[">>, "LSQB"), Sign(<<"]">>, "RSQB")}
Dots        == {Sign(<<".">>, "DOT"), Sign(<<".", ".">>, "TWO_DOTS")}    \* "..." is tested for too late
Marks       == {Sign(<<"%">>, "PERCENT"), Sign(<<"!">>, "EXCLAMATION"), Sign(<<"!", "=">>, "NOT_EQUAL")}
Apostrophe  == {Sign(<<"'">>, "SINGLE_QUOTE")}

Operators == PlusSigns \cup MinusSigns \cup Products \cup Equals \cup Separators \cup Comparisons
               \cup Brackets \cup Dots \cup Marks \cup Apostrophe

Spellings    == {s.word : s \in Operators}
KindOf(word) == (CHOOSE s \in Operators : s.word = word).kind

(* Letters and digits are none of the characters the switch has cases for. *)
ASSUME AlnumAssumption ==
    \A c \in Letters \cup Digits : c \notin {NUL, "\n", "_", Quote} /\ <<c>> \notin Spellings

SignAt(l) == LET two == Between(l.pos, l.pos + 2)
             IN  IF At(l.pos + 1) # NUL /\ two \in Spellings THEN two ELSE <<l.char>>

(* ".." is not given a column.                                             *)
Operator ==
    /\ phase = "token"
    /\ <<lexer.char>> \in Spellings
    /\ LET word == SignAt(lexer)
       IN  Produce(Token(KindOf(word), word, lexer.line, IF word = <<".", ".">> THEN 0 ELSE lexer.column),
                   EatTo(lexer, lexer.pos + Len(word)))

(* next_string stops before a quote that no backslash precedes, the first  *)
(* character of the string excepted, or at the end; what follows is eaten  *)
(* untested.  get_rid_of_esc_seq takes the backslashes before quotes away. *)
(* (A slip: the backslash is not looked at.)                               *)
StopsBefore_any(q) == At(q) = NUL \/ At(q + 1) = Quote
StopsBefore(q)     == At(q) = NUL \/ (At(q + 1) = Quote /\ At(q) # Slash)

StringEnd(p) == LET q == FirstOf(p + 1, StopsBefore)
                IN  IF At(q) = NUL THEN Beyond ELSE q + 2

Unescaped(w) == LET Kept_(i) == ~(w[i] = Slash /\ i < Len(w) /\ w[i + 1] = Quote)
                    kept[i \in 0..Len(w)] == IF i = 0 THEN <<>>
                                             ELSE kept[i - 1] \o (IF Kept_(i) THEN <<w[i]>> ELSE <<>>)
                IN  kept[Len(w)]

String ==
    /\ phase = "token" /\ lexer.char = Quote
    /\ LET e == StringEnd(lexer.pos)
       IN  IF e = Beyond
           THEN phase' = "overrun" /\ UNCHANGED <<text, lexer, want, saved, cur_token, promise>>
           ELSE Produce(Token("STRING", Unescaped(Between(lexer.pos + 1, e - 1)), lexer.line, EatTo(lexer, e).column), EatTo(lexer, e))

(* next_number and donsus_float: a point is the number's own unless there  *)
(* is another one after it.  Numbers and names have the column after them. *)
DigitsEnd(p) == FirstOf(p, LAMBDA q : At(q) \notin Digits)

(* (A slip: the second point is not looked at.)                            *)
IsFloat_any(d) == At(d) = "."
IsFloat(d)     == At(d) = "." /\ At(d + 1) # "."

NumberEnd(d) == IF IsFloat(d) THEN DigitsEnd(d + 1) ELSE d

Number ==
    /\ phase = "token" /\ lexer.char \in Digits
    /\ LET d == DigitsEnd(lexer.pos)
       IN  Produce(Token(IF IsFloat(d) THEN "FLOAT" ELSE "NUMBER", Between(lexer.pos, NumberEnd(d)),
                         lexer.line, EatTo(lexer, d).column), EatTo(lexer, NumberEnd(d)))

(* A type, a keyword or a name; make_type and make_keyword.                *)
WordKind(w) == CASE w \in Types -> "TYPE" [] w \in Keywords -> "KEYWORD" [] OTHER -> "NAME"
NameEnd(p)  == FirstOf(p, LAMBDA q : At(q) \notin Continues)
WordToken(w, after) == Token(WordKind(w), w, after.line, after.column)

Name ==
    /\ phase = "token" /\ lexer.char \in Starts
    /\ LET e == NameEnd(lexer.pos)
       IN  Produce(WordToken(Between(lexer.pos, e), EatTo(lexer, e)), EatTo(lexer, e))

(* Anything else ends the program, be it the end of the text or not.       *)
End ==
    /\ phase = "token"
    /\ lexer.char \notin {"\n", Quote} \cup Digits \cup Starts
    /\ <<lexer.char>> \notin Spellings
    /\ Produce(Token("END", <<>>, lexer.line, 0), lexer)

-----------------------------------------------------------------------------
Init ==
    /\ text \in Texts
    /\ lexer = [pos |-> 0, char |-> At(0), column |-> 0, line |-> 1]
    /\ phase = "ready" /\ want = 0 /\ saved = <<>>
    /\ cur_token = NoToken /\ promise = <<>>

Next ==
    \/ ParserNext
    \/ \E n \in 1..MaxPeek : Peek(n)
    \/ ConsumeSpaces
    \/ Newline \/ Operator \/ String \/ Number \/ Name \/ End

(* The parser goes on asking: its loops run until the end.                 *)
LexerSpec == Init /\ [][Next]_vars /\ WF_vars(Next)

-----------------------------------------------------------------------------
(* The lexer is somewhere in its text, and, except in the middle of a      *)
(* call, its cur_char is what is there.                                    *)
LexerTypeOK ==
    /\ text \in Texts
    /\ lexer.pos \in 0..Len(text) /\ lexer.char = At(lexer.pos)
    /\ lexer.line \in 1..(Len(text) + 1) /\ lexer.column \in 0..(Len(text) + 2)
    /\ phase \in {"ready", "spaces", "token", "ended", "overrun"}
    /\ want \in 0..MaxPeek
    /\ Len(saved) <= 1 /\ Len(promise) <= 1

(* Line and column are where the lexer is, in a text without a string or a *)
(* comment of more than one line.  (The first line's columns count from 0, *)
(* the others' from 2.)                                                    *)
LineStart(p) == Max({q \in 0..p : q = 0 \/ At(q - 1) = "\n"})
Placed(l) ==
    /\ l.line = 1 + Cardinality({q \in 0..(l.pos - 1) : At(q) = "\n"})
    /\ l.column = l.pos - LineStart(l.pos) + (IF l.line = 1 THEN 0 ELSE 2)
OneLined == \A p \in 0..Len(text) : At(p) # Quote /\ ~(At(p) = "/" /\ At(p + 1) = "*")
PositionsAreTrue == OneLined => Placed(lexer)

(* Comments, as the readme has them: what is between the two ends is       *)
(* ignored.  BlankAt is the end of the blank or comment at p, p if there   *)
(* is none, Beyond if it is not closed.                                    *)
Closing(p) == FirstOf(p + 2, LAMBDA q : At(q) = "*" /\ At(q + 1) = "/")
BlankAt(p) ==
    CASE At(p) = " "                     -> p + 1
      [] At(p) = "#"                     -> Min({q \in p..Len(text) : At(q) \in {"\n", NUL}})
      [] At(p) = "/" /\ At(p + 1) = "*"  -> IF Closing(p) = Beyond THEN Beyond ELSE Closing(p) + 2
      [] OTHER                           -> p

(* A comment that has a star of its own: the lexer does not see its end.   *)
StarComment  == \E p \in 0..Len(text) : /\ At(p) = "/" /\ At(p + 1) = "*"
                                        /\ Star(p) # Beyond /\ At(Star(p) + 1) # "/"

BlanksEnd[p \in 0..Beyond] == IF p = Beyond \/ BlankAt(p) = p THEN p ELSE BlanksEnd[BlankAt(p)]

(* What is skipped between two tokens is blanks and whole comments, and    *)
(* all of them; only a comment that is not closed runs over the end of the *)
(* text.  (Texts with a star in a comment aside.)                          *)
BlanksAreSkipped ==
    [][phase = "spaces" /\ ~StarComment =>
         IF phase' = "overrun" THEN BlanksEnd[lexer.pos] = Beyond ELSE lexer'.pos = BlanksEnd[lexer.pos]]_vars

(* What a look-ahead said of the n-th token from here is what the n-th     *)
(* call of donsus_parser_next then gives.                                  *)
PeeksAreKept ==
    [][phase = "token" /\ saved = <<>> /\ phase' # "overrun" /\ promise # <<>> /\ promise[1].left = 1
         => cur_token' = promise[1].token]_vars

(* The end of every text is reached, or run over.                          *)
EveryTextEnds == <>(phase \in {"ended", "overrun"})

=============================================================================
