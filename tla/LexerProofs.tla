---------------------------- MODULE LexerProofs ----------------------------
(***************************************************************************)
(* For any texts, letters, digits and keywords: the lexer stays inside its *)
(* text and keeps its line and column true; what it skips is blanks and    *)
(* whole comments; and what a look-ahead said comes true.                  *)
(*                                                                         *)
(* Each loop of the code stops at the first place of some sort, so the     *)
(* first part says where that is (lemmas ...Is), and that consume_spaces,  *)
(* which goes from one such place to the next, ends (SpacesEquation).  The *)
(* second says that the cases of the switch exclude each other: the token  *)
(* made, and the lexer after it, are functions of the lexer before         *)
(* (ScansOneToken).  That makes a look-ahead repeatable, and the rest is   *)
(* an invariant for each property: LexerInv, for the type; PlacesInv, that *)
(* a copy of the lexer is as true of its line as the lexer is; PeekInv,    *)
(* that a promise is what the calls from here will make.                   *)
(***************************************************************************)
EXTENDS Lexer, Least, SequenceTheorems, FiniteSetTheorems

Text == text \in Seq(STRING)

(* Only NUL stands at and after the end.                                   *)
LEMMA Characters ==
    ASSUME Text
    PROVE  /\ Len(text) \in Nat /\ Beyond = Len(text) + 1
           /\ \A p \in Nat : At(p) # NUL => p < Len(text)
           /\ \A p \in Nat : At(p + 1) # NUL => p + 1 < Len(text)
BY DEF Text, At, NUL, Beyond

(* NUL, a new line and a quote are neither letters nor digits.             *)
LEMMA NotAlnum == \A c \in {NUL, "\n", Quote} : c \notin Digits /\ c \notin Starts /\ c \notin Continues
BY AlnumAssumption DEF Continues, Starts, NUL, Quote

(* Where the loop over a comment from # stops: the end of its line.       *)
LEMMA LineEndIs ==
    ASSUME Text, NEW p \in 0..Len(text)
    PROVE  /\ LineEnd(p) \in p..Len(text) /\ At(LineEnd(p)) \in {"\n", NUL}
           /\ \A q \in p..(LineEnd(p) - 1) : At(q) \notin {"\n", NUL}
<1> DEFINE S == {q \in p..Len(text) : At(q) \in {"\n", NUL}}
<1>1. PICK n \in Nat : n = Len(text) /\ Beyond = n + 1
  BY Characters
<1>2. PICK m : m = LineEnd(p)
  OBVIOUS
<1>3. m = Min(S \cup {n + 1})
  BY <1>1, <1>2 DEF LineEnd, FirstOf
<1>4. At(n) = NUL
  BY <1>1, Characters
<1>5. p \in Nat /\ n \in S /\ S \subseteq p..n
  BY <1>1, <1>4
<1>6. \A q \in p..n : q \in S <=> At(q) \in {"\n", NUL}
  BY <1>1
<1> HIDE DEF S
<1>7. m \in S /\ m \in p..n /\ \A q \in p..(m - 1) : q \notin S
  BY <1>3, <1>5, FirstIn
<1>8. QED
  BY <1>1, <1>2, <1>6, <1>7

(* Where the loop of next_number stops.                                   *)
LEMMA DigitsEndIs ==
    ASSUME Text, NEW p \in 0..Len(text)
    PROVE  /\ DigitsEnd(p) \in p..Len(text)
           /\ \A q \in p..(DigitsEnd(p) - 1) : At(q) \in Digits
<1> DEFINE S == {q \in p..Len(text) : At(q) \notin Digits}
<1>1. PICK n \in Nat : n = Len(text) /\ Beyond = n + 1
  BY Characters
<1>2. PICK m : m = DigitsEnd(p)
  OBVIOUS
<1>3. m = Min(S \cup {n + 1})
  BY <1>1, <1>2 DEF DigitsEnd, FirstOf
<1>4. At(n) = NUL
  BY <1>1, Characters
<1>5. p \in Nat /\ n \in S /\ S \subseteq p..n
  BY <1>1, <1>4, NotAlnum
<1>6. \A q \in p..n : q \in S <=> At(q) \notin Digits
  BY <1>1
<1> HIDE DEF S
<1>7. m \in S /\ m \in p..n /\ \A q \in p..(m - 1) : q \notin S
  BY <1>3, <1>5, FirstIn
<1>8. QED
  BY <1>1, <1>2, <1>6, <1>7

(* Where the loop of next_identifier stops.                               *)
LEMMA NameEndIs ==
    ASSUME Text, NEW p \in 0..Len(text)
    PROVE  /\ NameEnd(p) \in p..Len(text)
           /\ \A q \in p..(NameEnd(p) - 1) : At(q) \in Continues
<1> DEFINE S == {q \in p..Len(text) : At(q) \notin Continues}
<1>1. PICK n \in Nat : n = Len(text) /\ Beyond = n + 1
  BY Characters
<1>2. PICK m : m = NameEnd(p)
  OBVIOUS
<1>3. m = Min(S \cup {n + 1})
  BY <1>1, <1>2 DEF NameEnd, FirstOf
<1>4. At(n) = NUL
  BY <1>1, Characters
<1>5. p \in Nat /\ n \in S /\ S \subseteq p..n
  BY <1>1, <1>4, NotAlnum
<1>6. \A q \in p..n : q \in S <=> At(q) \notin Continues
  BY <1>1
<1> HIDE DEF S
<1>7. m \in S /\ m \in p..n /\ \A q \in p..(m - 1) : q \notin S
  BY <1>3, <1>5, FirstIn
<1>8. QED
  BY <1>1, <1>2, <1>6, <1>7

(* A string ends at least two characters on, or runs over the end.         *)
LEMMA StringEndIs ==
    ASSUME Text, NEW p \in 0..(Len(text) - 1)
    PROVE  StringEnd(p) = Beyond \/ StringEnd(p) \in (p + 2)..Len(text)
<1>1. PICK n \in Nat, r \in Nat : n = Len(text) /\ Beyond = n + 1 /\ r = p + 1
  BY Characters
<1> DEFINE S == {q \in r..n : StopsBefore(q)}
<1>2. PICK m : m = FirstOf(p + 1, StopsBefore)
  OBVIOUS
<1>3. m = Min(S \cup {n + 1})
  BY <1>1, <1>2 DEF FirstOf
<1>4. S \subseteq r..n /\ r <= n /\ \A q \in S : StopsBefore(q)
  BY <1>1
<1> HIDE DEF S
<1>5. m \in S \cup {n + 1} /\ m \in Nat /\ r <= m /\ m <= n + 1
  <2>1. m \in S \cup {n + 1} /\ m \in Nat
    BY <1>3, <1>4, FirstIn
  <2>2. QED
    BY <2>1, <1>4
<1>6. CASE At(m) = NUL
  BY <1>2, <1>6 DEF StringEnd
<1>7. CASE At(m) # NUL
  <2>1. m < n
    BY <1>1, <1>5, <1>7, Characters
  <2>2. StopsBefore(m)
    BY <1>4, <1>5, <2>1
  <2>3. At(m + 1) = Quote
    BY <2>2, <1>7 DEF StopsBefore
  <2>4. m + 1 < n
    BY <1>1, <1>5, <2>3, Characters DEF Quote, NUL
  <2>5. StringEnd(p) = m + 2
    BY <1>2, <1>7 DEF StringEnd
  <2>6. QED
    BY <1>1, <1>5, <2>4, <2>5
<1>8. QED
  BY <1>6, <1>7

(* A comment that opens at p ends at least two characters on.              *)
LEMMA CommentEndIs ==
    ASSUME Text, NEW p \in 0..Len(text), At(p) = "/", At(p + 1) = "*"
    PROVE  CommentEnd(p) \in (p + 2)..Beyond
<1>1. PICK n \in Nat, r \in Nat : n = Len(text) /\ Beyond = n + 1 /\ r = p + 2
  BY Characters
<1> DEFINE S == {q \in r..n : At(q) = "*"}
<1>2. PICK m : m = Star(p)
  OBVIOUS
<1>3. m = Min(S \cup {n + 1})
  BY <1>1, <1>2 DEF FirstOf, Star
<1>4. p + 1 < n
  BY <1>1, Characters DEF NUL
<1>5. S \subseteq r..n /\ r <= n
  BY <1>1, <1>4
<1> HIDE DEF S
<1>6. m \in S \cup {n + 1} /\ m \in Nat /\ r <= m
  <2>1. m \in S \cup {n + 1} /\ m \in Nat
    BY <1>3, <1>4, <1>5, FirstIn
  <2>2. QED
    BY <2>1, <1>5
<1>7. At(m + 1) = "/" => m + 1 < n
  BY <1>1, <1>6, Characters DEF NUL
<1>8. m <= n + 1
  BY <1>1, <1>5, <1>6
<1>9. CommentEnd(p) = Beyond \/ CommentEnd(p) = Star(p)
        \/ (At(Star(p) + 1) = "/" /\ CommentEnd(p) = Star(p) + 2)
  <2>1. CASE Star(p) = Beyond
    <3>1. At(Star(p) + 1) # "/"
      BY <1>1, <2>1, Characters DEF NUL
    <3>2. QED
      BY <2>1, <3>1, Zenon DEF CommentEnd
  <2>2. CASE Star(p) # Beyond /\ At(Star(p) + 1) = "/"
    BY <2>2, Zenon DEF CommentEnd
  <2>3. CASE Star(p) # Beyond /\ At(Star(p) + 1) # "/"
    BY <2>3, Zenon DEF CommentEnd
  <2>4. QED
    BY <2>1, <2>2, <2>3
<1>10. QED
  BY <1>1, <1>2, <1>4, <1>6, <1>7, <1>8, <1>9
-----------------------------------------------------------------------------
(* What consume_spaces takes at a time moves it on.                        *)
LEMMA OverIs ==
    ASSUME Text, NEW p \in 0..Beyond, Blank(p)
    PROVE  p < Len(text) /\ Over(p) \in (p + 1)..Beyond
<1>1. PICK n \in Nat : n = Len(text) /\ Beyond = n + 1
  BY Characters
<1>2. p < n
  <2>1. p \in Nat
    BY <1>1
  <2>2. At(p) # NUL
    BY DEF Blank, NUL
  <2>3. QED
    BY <1>1, <2>1, <2>2, Characters
<1>3. p \in 0..n
  BY <1>1, <1>2
<1>4. CASE At(p) = " "
  <2>1. Over(p) = p + 1
    <3>1. At(p) # "#" /\ At(p) # "/"
      BY <1>4
    <3>2. QED
      BY <1>4, <3>1, Zenon DEF Over
  <2>2. QED
    BY <1>1, <1>2, <1>3, <2>1
<1>5. CASE At(p) = "#"
  <2>1. Over(p) = LineEnd(p)
    <3>1. At(p) # " " /\ At(p) # "/"
      BY <1>5
    <3>2. QED
      BY <1>5, <3>1, Zenon DEF Over
  <2>2. PICK m : m = LineEnd(p)
    OBVIOUS
  <2>3. m \in p..n /\ At(m) \in {"\n", NUL}
    BY <1>1, <1>3, <2>2, LineEndIs
  <2>4. m # p
    BY <1>5, <2>3 DEF NUL
  <2>5. QED
    BY <1>1, <1>2, <2>1, <2>2, <2>3, <2>4
<1>6. CASE At(p) = "/" /\ At(p + 1) = "*"
  <2>1. Over(p) = CommentEnd(p)
    <3>1. At(p) # " " /\ At(p) # "#"
      BY <1>6
    <3>2. QED
      BY <1>6, <3>1, Zenon DEF Over
  <2>2. PICK m : m = CommentEnd(p)
    OBVIOUS
  <2>3. m \in (p + 2)..Beyond
    BY <1>1, <1>3, <1>6, <2>2, CommentEndIs
  <2>4. QED
    BY <1>1, <1>2, <2>1, <2>2, <2>3
<1>7. QED
  BY <1>4, <1>5, <1>6 DEF Blank

(* AfterSpaces is the function its equation asks for.                      *)
LEMMA SpacesEquation ==
    ASSUME Text
    PROVE  \A p \in 0..Beyond : AfterSpaces[p] = IF Blank(p) THEN AfterSpaces[Over(p)] ELSE p
<1>1. PICK n \in Nat : n = Len(text) + 1 /\ Beyond = n
  BY Characters
<1> DEFINE next  == [p \in 0..n |-> Over(p)]
           stops == {p \in 0..n : ~Blank(p)}
           E(f)  == f = [p \in 0..Beyond |-> IF Blank(p) THEN f[Over(p)] ELSE p]
<1>2. \A p \in 0..n : p \notin stops => next[p] \in (p + 1)..n
  BY <1>1, OverIs
<1>3. \E f : Reaches(f, n, next, stops)
  <2> HIDE DEF next, stops
  <2>1. QED
    BY <1>1, <1>2, WhereItStops
<1>4. PICK f : E(f)
  <2>1. PICK f : Reaches(f, n, next, stops)
    BY <1>3
  <2>2. [p \in 0..n |-> f[p]] = [p \in 0..Beyond |-> IF Blank(p) THEN f[Over(p)] ELSE p]
    BY <1>1, <2>1 DEF Reaches
  <2>3. QED
    BY <2>1, <2>2 DEF Reaches
<1>5. AfterSpaces = CHOOSE g : E(g)
  BY Zenon DEF AfterSpaces
<1>6. E(CHOOSE g : E(g))
  <2> HIDE DEF E
  <2>1. QED
    BY <1>4, Zenon
<1>7. E(AfterSpaces)
  <2> HIDE DEF E
  <2>1. QED
    BY <1>5, <1>6, Zenon
<1>8. QED
  BY <1>7
(* Where the blanks end; from there on none are taken.                     *)
LEMMA SpacesEnd ==
    ASSUME Text, NEW p \in 0..Beyond
    PROVE  /\ AfterSpaces[p] \in p..Beyond
           /\ AfterSpaces[AfterSpaces[p]] = AfterSpaces[p]
<1>1. PICK n \in Nat : n = Len(text) + 1 /\ Beyond = n
  BY Characters
<1> DEFINE next  == [q \in 0..n |-> Over(q)]
           stops == {q \in 0..n : ~Blank(q)}
           P     == {q \in 0..n : AfterSpaces[q] \in q..n /\ ~Blank(AfterSpaces[q])}
<1>2. \A q \in 0..n : q \notin stops => next[q] \in (q + 1)..n /\ AfterSpaces[q] = AfterSpaces[next[q]]
  BY <1>1, OverIs, SpacesEquation
<1>3. \A q \in 0..n : q \in stops => q \in P
  BY <1>1, SpacesEquation
<1>4. ASSUME NEW q \in 0..n, q \notin stops, next[q] \in P PROVE q \in P
  <2>1. next[q] \in (q + 1)..n /\ AfterSpaces[q] = AfterSpaces[next[q]]
    BY <1>2, <1>4
  <2> HIDE DEF next, stops
  <2>2. AfterSpaces[q] \in next[q]..n /\ ~Blank(AfterSpaces[q])
    BY <1>4, <2>1
  <2>3. QED
    BY <2>1, <2>2
<1>5. 0..n \subseteq P
  <2> HIDE DEF next, stops, P
  <2>1. QED
    BY <1>1, <1>2, <1>3, <1>4, Onwards
<1>6. p \in P
  BY <1>1, <1>5
<1>7. QED
  BY <1>1, <1>6, SpacesEquation

(* What is spelled: one or two of these characters.                        *)
SignCharacters == {"+", "-", ">", "*", "/", "^", "=", "(", ";", ":", ")", "<", ",", "{", "}", "[", "]", ".", "%", "!", "'"}

(* None of them is a character the switch has another case for.           *)
LEMMA SignCharactersAre == \A c \in SignCharacters : c \notin {NUL, "\n", "_", Quote}
BY Zenon DEF SignCharacters, NUL, Quote

(* A spelling is one or two of them.                                      *)
LEMMA SignsAre ==
    \A w \in Spellings : /\ Len(w) \in 1..2
                         /\ w[1] \notin {NUL, "\n", "_", Quote}
                         /\ Len(w) = 2 => w[2] \notin {NUL, "\n", "_", Quote}
<1> DEFINE Plain(w) == Len(w) \in 1..2 /\ w[1] \in SignCharacters /\ (Len(w) = 2 => w[2] \in SignCharacters)
<1>1. \A k : \A c \in SignCharacters : Plain(Sign(<<c>>, k).word)
  BY DEF Sign
<1>2. \A k : \A c, d \in SignCharacters : Plain(Sign(<<c, d>>, k).word)
  BY DEF Sign
<1>3. \A c \in {"+", "-", ">", "*", "/", "^", "=", "(", ";", ":", ")", "<", ",", "{", "}", "[", "]", ".", "%", "!", "'"} :
         c \in SignCharacters
  BY DEF SignCharacters
<1> HIDE DEF Plain
<1>4. \A s \in PlusSigns : Plain(s.word)
  BY <1>1, <1>2, <1>3 DEF PlusSigns
<1>5. \A s \in MinusSigns : Plain(s.word)
  BY <1>1, <1>2, <1>3 DEF MinusSigns
<1>6. \A s \in Products : Plain(s.word)
  BY <1>1, <1>2, <1>3 DEF Products
<1>7. \A s \in Equals : Plain(s.word)
  BY <1>1, <1>2, <1>3 DEF Equals
<1>8. \A s \in Separators : Plain(s.word)
  BY <1>1, <1>2, <1>3 DEF Separators
<1>9. \A s \in Comparisons : Plain(s.word)
  BY <1>1, <1>2, <1>3 DEF Comparisons
<1>10. \A s \in Brackets : Plain(s.word)
  BY <1>1, <1>2, <1>3 DEF Brackets
<1>11. \A s \in Dots : Plain(s.word)
  BY <1>1, <1>2, <1>3 DEF Dots
<1>12. \A s \in Marks : Plain(s.word)
  BY <1>1, <1>2, <1>3 DEF Marks
<1>13. \A s \in Apostrophe : Plain(s.word)
  BY <1>1, <1>2, <1>3 DEF Apostrophe
<1>14. \A s \in Operators : Plain(s.word)
  BY <1>4, <1>5, <1>6, <1>7, <1>8, <1>9, <1>10, <1>11, <1>12, <1>13 DEF Operators
<1>15. \A w \in Spellings : Plain(w)
  BY <1>14 DEF Spellings
<1>16. QED
  BY <1>15, SignCharactersAre DEF Plain

(* So is its first character, which the switch looks at.                   *)
LEMMA OneSign == \A c : <<c>> \in Spellings => c \notin {NUL, "\n", "_", Quote}
<1>1. SUFFICES ASSUME NEW c, <<c>> \in Spellings PROVE c \notin {NUL, "\n", "_", Quote}
  OBVIOUS
<1>2. <<c>>[1] \notin {NUL, "\n", "_", Quote}
  BY <1>1, SignsAre
<1>3. QED
  BY <1>2

-----------------------------------------------------------------------------
(* A lexer that is somewhere in the text: eat counts columns from the line *)
(* and lines from the first, so neither is ahead of the position.          *)
InText(l) ==
    /\ l = [pos |-> l.pos, char |-> At(l.pos), column |-> l.column, line |-> l.line]
    /\ l.pos \in 0..Len(text) /\ l.line \in 1..(l.pos + 1) /\ l.column \in 0..(l.pos + 1)

(* What eat does to it.                                                    *)
LEMMA EatToIs ==
    ASSUME Text, NEW l, InText(l), NEW p \in (l.pos)..Len(text)
    PROVE  /\ InText(EatTo(l, p))
           /\ EatTo(l, p) = [pos |-> p, char |-> At(p), column |-> l.column + p - l.pos, line |-> l.line]
<1>1. PICK n \in Nat : n = Len(text)
  BY Characters
<1>2. l.pos \in 0..n /\ p \in (l.pos)..n /\ l.column \in Nat
  BY <1>1 DEF InText
<1>3. EatTo(l, p) = [pos |-> p, char |-> At(p), column |-> l.column + p - l.pos, line |-> l.line]
  <2>1. CASE p = l.pos
    <3>1. EatTo(l, p) = [pos |-> p, char |-> At(p), column |-> l.column, line |-> l.line]
      BY <2>1 DEF EatTo, InText
    <3>2. l.column + p - l.pos = l.column
      BY <1>2, <2>1
    <3>3. QED
      BY <3>1, <3>2
  <2>2. CASE p # l.pos
    BY <2>2 DEF EatTo, InText
  <2>3. QED
    BY <2>1, <2>2
<1>4. p \in 0..n /\ l.line \in 1..(p + 1) /\ l.column + p - l.pos \in 0..(p + 1)
  BY <1>1, <1>2 DEF InText
<1>5. InText(EatTo(l, p))
  BY <1>1, <1>3, <1>4 DEF InText
<1>6. QED
  BY <1>3, <1>5

(* The sign under the cursor is in the text, all of it.                    *)
LEMMA SignIsHere ==
    ASSUME Text, NEW l, InText(l), <<l.char>> \in Spellings
    PROVE  /\ l.pos + Len(SignAt(l)) \in (l.pos + 1)..Len(text)
           /\ \A q \in (l.pos)..(l.pos + Len(SignAt(l)) - 1) : At(q) # "\n"
<1>1. PICK n \in Nat, p \in Nat : n = Len(text) /\ p = l.pos
  BY Characters DEF InText
<1>2. At(p) = l.char /\ At(p) # NUL /\ At(p) # "\n"
  <2>1. At(p) = l.char
    BY <1>1 DEF InText
  <2>2. QED
    BY <2>1, OneSign
<1>3. p < n
  BY <1>1, <1>2, Characters
<1>4. CASE SignAt(l) = <<l.char>>
  <2>1. Len(SignAt(l)) = 1
    BY <1>4
  <2>2. QED
    BY <1>1, <1>2, <1>3, <2>1
<1>5. CASE SignAt(l) # <<l.char>>
  <2>1. At(p + 1) # NUL /\ SignAt(l) = SubSeq(text, p + 1, p + 2) /\ SignAt(l) \in Spellings
    BY <1>1, <1>5 DEF SignAt, Between
  <2>2. p + 1 < n
    BY <1>1, <2>1, Characters
  <2>3. Len(SignAt(l)) = 2 /\ SignAt(l)[2] = text[p + 2]
    <3>1. PICK a \in Int, b \in Int : a = p + 1 /\ b = p + 2
      OBVIOUS
    <3>2. \A i \in a..b : text[i] \in STRING
      BY <1>1, <2>2, <3>1 DEF Text
    <3>3. Len(SubSeq(text, a, b)) = 2 /\ \A i \in 1..2 : SubSeq(text, a, b)[i] = text[a + i - 1]
      BY <3>1, <3>2, SubSeqProperties
    <3>4. QED
      BY <2>1, <3>1, <3>3
  <2>4. At(p + 1) = text[p + 2]
    BY <1>1, <2>2 DEF At
  <2>5. At(p + 1) # "\n"
    BY <2>1, <2>3, <2>4, SignsAre
  <2>6. QED
    BY <1>1, <1>2, <2>2, <2>3, <2>5
<1>6. QED
  BY <1>4, <1>5

(* Where a number ends.                                                    *)
LEMMA NumberEndIs ==
    ASSUME Text, NEW p \in 0..Len(text)
    PROVE  /\ NumberEnd(DigitsEnd(p)) \in p..Len(text)
           /\ \A q \in p..(NumberEnd(DigitsEnd(p)) - 1) : At(q) # "\n"
<1>1. PICK n \in Nat, d \in Nat : n = Len(text) /\ d = DigitsEnd(p)
  BY Characters, DigitsEndIs
<1>2. d \in p..n /\ \A q \in p..(d - 1) : At(q) # "\n"
  BY <1>1, DigitsEndIs, NotAlnum
<1>3. CASE IsFloat(d)
  <2>1. At(d) = "."
    BY <1>3 DEF IsFloat
  <2>2. d < n
    BY <1>1, <2>1, Characters DEF NUL
  <2>3. PICK r, e : r \in 0..n /\ r = d + 1 /\ e = DigitsEnd(r)
    BY <2>2
  <2>4. e \in r..n /\ \A q \in r..(e - 1) : At(q) # "\n"
    BY <1>1, <2>3, DigitsEndIs, NotAlnum
  <2>5. NumberEnd(d) = e
    BY <1>3, <2>3 DEF NumberEnd
  <2>6. QED
    BY <1>1, <1>2, <2>1, <2>3, <2>4, <2>5
<1>4. CASE ~IsFloat(d)
  BY <1>1, <1>2, <1>4 DEF NumberEnd
<1>5. QED
  BY <1>3, <1>4
-----------------------------------------------------------------------------
(* What the call makes of a lexer behind the blanks: the token, and the    *)
(* lexer after it, a case of the switch at a time.                         *)
After(l) ==
    IF l.char = "\n"
    THEN [pos |-> l.pos + 1, char |-> At(l.pos + 1), column |-> 2, line |-> l.line + 1]
    ELSE IF <<l.char>> \in Spellings THEN EatTo(l, l.pos + Len(SignAt(l)))
    ELSE IF l.char = Quote           THEN EatTo(l, StringEnd(l.pos))
    ELSE IF l.char \in Digits        THEN EatTo(l, NumberEnd(DigitsEnd(l.pos)))
    ELSE IF l.char \in Starts        THEN EatTo(l, NameEnd(l.pos))
    ELSE l

TokenAt(l) ==
    IF l.char = "\n" THEN Token("NEWLINE", <<>>, l.line + 1, 1)
    ELSE IF <<l.char>> \in Spellings
    THEN Token(KindOf(SignAt(l)), SignAt(l), l.line, IF SignAt(l) = <<".", ".">> THEN 0 ELSE l.column)
    ELSE IF l.char = Quote
    THEN Token("STRING", Unescaped(Between(l.pos + 1, StringEnd(l.pos) - 1)), l.line, After(l).column)
    ELSE IF l.char \in Digits
    THEN Token(IF IsFloat(DigitsEnd(l.pos)) THEN "FLOAT" ELSE "NUMBER",
               Between(l.pos, NumberEnd(DigitsEnd(l.pos))), l.line, EatTo(l, DigitsEnd(l.pos)).column)
    ELSE IF l.char \in Starts THEN WordToken(Between(l.pos, NameEnd(l.pos)), After(l))
    ELSE Token("END", <<>>, l.line, 0)

Overruns(l) == l.char = Quote /\ StringEnd(l.pos) = Beyond

Scans == Newline \/ Operator \/ String \/ Number \/ Name \/ End

(* No two cases of the switch apply: a call makes this token and no other. *)
LEMMA ScansOneToken ==
    ASSUME Scans
    PROVE  /\ phase = "token"
           /\ \/ Overruns(lexer) /\ phase' = "overrun" /\ UNCHANGED <<text, lexer, want, saved, cur_token, promise>>
              \/ ~Overruns(lexer) /\ Produce(TokenAt(lexer), After(lexer))
<1>1. lexer.char \in Digits => lexer.char \notin {"\n", Quote} /\ <<lexer.char>> \notin Spellings
  BY AlnumAssumption
<1>2. lexer.char \in Starts => /\ lexer.char \notin {"\n", Quote} /\ <<lexer.char>> \notin Spellings
                               /\ lexer.char \notin Digits
  <2>1. "_" \notin {"\n", Quote} /\ <<"_">> \notin Spellings
    <3>1. "_" # "\n" /\ "_" # Quote
      BY Zenon DEF Quote
    <3>2. QED
      BY <3>1, OneSign
  <2>2. QED
    BY <2>1, AlnumAssumption, LexerAssumption DEF Starts
<1>3. <<lexer.char>> \in Spellings => lexer.char \notin {"\n", Quote}
  BY OneSign
<1>4. "\n" # Quote
  BY DEF Quote
<1>5. CASE Newline
  BY <1>4, <1>5 DEF Newline, After, TokenAt, Overruns
<1>6. CASE Operator
  BY <1>3, <1>6 DEF Operator, After, TokenAt, Overruns
<1>7. CASE String
  BY <1>3, <1>4, <1>7 DEF String, After, TokenAt, Overruns
<1>8. CASE Number
  BY <1>1, <1>8 DEF Number, After, TokenAt, Overruns
<1>9. CASE Name
  BY <1>2, <1>9 DEF Name, After, TokenAt, Overruns
<1>10. CASE End
  BY <1>10 DEF End, After, TokenAt, Overruns
<1>11. QED
  BY <1>5, <1>6, <1>7, <1>8, <1>9, <1>10 DEF Scans

(* It leaves the lexer in the text, and further on unless it is the end.   *)
LEMMA AfterInText ==
    ASSUME Text, NEW l, InText(l), ~Overruns(l)
    PROVE  InText(After(l))
<1>1. PICK n \in Nat, p \in Nat : n = Len(text) /\ p = l.pos /\ p <= n
  BY Characters DEF InText
<1>2. l.char = At(p)
  BY <1>1 DEF InText
<1>3. CASE l.char = "\n"
  <2>1. p < n
    BY <1>1, <1>2, <1>3, Characters DEF NUL
  <2>2. l.line + 1 \in 1..(p + 2)
    BY <1>1 DEF InText
  <2>3. After(l) = [pos |-> p + 1, char |-> At(p + 1), column |-> 2, line |-> l.line + 1]
    BY <1>1, <1>3 DEF After
  <2>4. QED
    BY <1>1, <2>1, <2>2, <2>3 DEF InText
<1>4. CASE l.char # "\n" /\ <<l.char>> \in Spellings
  <2>1. PICK e : e = l.pos + Len(SignAt(l))
    OBVIOUS
  <2>2. e \in (l.pos)..Len(text)
    BY <1>1, <1>4, <2>1, SignIsHere
  <2>3. After(l) = EatTo(l, e)
    BY <1>4, <2>1 DEF After
  <2>4. QED
    BY <2>2, <2>3, EatToIs
<1>5. CASE l.char # "\n" /\ <<l.char>> \notin Spellings /\ l.char = Quote
  <2>1. p \in 0..(n - 1)
    <3>1. p < n
      BY <1>1, <1>2, <1>5, Characters DEF Quote, NUL
    <3>2. QED
      BY <1>1, <3>1
  <2>2. PICK e : e = StringEnd(p)
    OBVIOUS
  <2>3. e \in (p + 2)..n
    BY <1>1, <1>5, <2>1, <2>2, StringEndIs DEF Overruns
  <2>4. After(l) = EatTo(l, e)
    BY <1>1, <1>5, <2>2 DEF After
  <2>5. e \in (l.pos)..Len(text)
    BY <1>1, <2>1, <2>3
  <2>6. QED
    BY <2>4, <2>5, EatToIs
<1>6. CASE l.char # "\n" /\ <<l.char>> \notin Spellings /\ l.char # Quote /\ l.char \in Digits
  BY <1>1, <1>6, NumberEndIs, EatToIs DEF After
<1>7. CASE l.char # "\n" /\ <<l.char>> \notin Spellings /\ l.char # Quote /\ l.char \notin Digits /\ l.char \in Starts
  BY <1>1, <1>7, NameEndIs, EatToIs DEF After
<1>8. CASE l.char # "\n" /\ <<l.char>> \notin Spellings /\ l.char # Quote /\ l.char \notin Digits /\ l.char \notin Starts
  BY <1>8 DEF After
<1>9. QED
  BY <1>3, <1>4, <1>5, <1>6, <1>7, <1>8

-----------------------------------------------------------------------------
(* Where a call stands: what it still has to make, and for whom.           *)
Calls ==
    /\ phase \in {"ready", "spaces", "token", "ended", "overrun"}
    /\ want \in 0..MaxPeek
    /\ phase \in {"spaces", "token"} => want >= 1
    /\ phase \in {"ready", "ended"} => saved = <<>>
    /\ saved = <<>> => want <= 1
    /\ saved # <<>> => saved = <<saved[1]>> /\ promise # <<>>
    /\ promise # <<>> => /\ promise = <<[left |-> promise[1].left, token |-> promise[1].token]>>
                         /\ promise[1].left \in 1..MaxPeek

LexerInv ==
    /\ text \in Texts
    /\ InText(lexer)
    /\ saved # <<>> => InText(saved[1])
    /\ Calls

(* The text is a sequence of characters.                                   *)
LEMMA InvGivesText == LexerInv => Text
BY LexerAssumption DEF LexerInv, Text

(* A token made leaves its call, or the next one, standing as it should.   *)
LEMMA CallsGoOn ==
    ASSUME Calls, phase = "token", NEW t, NEW a, Produce(t, a)
    PROVE  Calls'
<1> USE LexerAssumption DEF Calls
<1>1. CASE want > 1 /\ lexer' = a /\ phase' = "spaces" /\ UNCHANGED <<saved, cur_token, promise>>
  BY <1>1 DEF Produce
<1>2. CASE want = 1 /\ saved = <<>> /\ Kept(t, a)
  BY <1>2 DEF Produce, Kept
<1>3. CASE want = 1 /\ saved # <<>> /\ Peeked(t)
  BY <1>3 DEF Produce, Peeked
<1>4. QED
  BY <1>1, <1>2, <1>3 DEF Produce
(* The lexer after a token is made: after it, or back where the look-ahead *)
(* began.                                                                  *)
LEMMA ProduceMoves ==
    ASSUME NEW t, NEW a, Produce(t, a)
    PROVE  /\ text' = text
           /\ \/ lexer' = a /\ saved' = saved
              \/ lexer' = saved[1] /\ saved # <<>> /\ saved' = <<>>
<1>1. CASE lexer' = a /\ UNCHANGED <<saved, cur_token, promise>>
  BY <1>1 DEF Produce
<1>2. CASE Kept(t, a)
  <2>1. lexer' = a /\ saved' = saved
    BY <1>2, Zenon DEF Kept
  <2>2. QED
    BY <2>1 DEF Produce
<1>3. CASE saved # <<>> /\ Peeked(t)
  <2>1. lexer' = saved[1] /\ saved' = <<>>
    BY <1>3, Zenon DEF Peeked, Restored
  <2>2. QED
    BY <1>3, <2>1 DEF Produce
<1>4. QED
  BY <1>1, <1>2, <1>3 DEF Produce

(* LexerInv holds at the start.                                            *)
LEMMA InitLexer == Init => LexerInv
<1>1. SUFFICES ASSUME Init PROVE LexerInv
  OBVIOUS
<1>2. Text /\ Len(text) \in Nat
  BY <1>1, LexerAssumption, Characters DEF Init, Text
<1>3. InText(lexer)
  BY <1>1, <1>2 DEF Init, InText
<1>4. Calls
  BY <1>1, LexerAssumption DEF Init, Calls
<1>5. QED
  BY <1>1, <1>3, <1>4 DEF Init, LexerInv

(* And every step keeps it.                                                *)
LEMMA NextLexer == LexerInv /\ [Next]_vars => LexerInv'
<1> SUFFICES ASSUME LexerInv, [Next]_vars PROVE LexerInv'
  OBVIOUS
<1>1. Text
  BY InvGivesText
<1>2. ASSUME NEW l, InText(l), text' = text, lexer' = l PROVE InText(lexer)'
  BY <1>2 DEF InText, At
<1>3. ASSUME text' = text, saved' = saved PROVE (saved # <<>> => InText(saved[1]))'
  BY <1>3 DEF LexerInv, InText, At
<1>4. CASE ParserNext
  <2>1. Calls'
    BY <1>4, LexerAssumption DEF ParserNext, LexerInv, Calls
  <2>2. QED
    BY <1>2, <1>3, <1>4, <2>1 DEF ParserNext, LexerInv
<1>5. ASSUME NEW n \in 1..MaxPeek, Peek(n) PROVE LexerInv'
  <2>1. Calls'
    BY <1>5, LexerAssumption DEF Peek, LexerInv, Calls
  <2>2. (saved # <<>> => InText(saved[1]))'
    BY <1>5 DEF Peek, LexerInv, InText, At
  <2>3. QED
    BY <1>2, <1>5, <2>1, <2>2 DEF Peek, LexerInv
<1>6. CASE ConsumeSpaces
  <2>1. Calls'
    BY <1>6 DEF ConsumeSpaces, LexerInv, Calls
  <2>2. CASE AfterSpaces[lexer.pos] = Beyond
    BY <1>2, <1>3, <1>6, <2>1, <2>2 DEF ConsumeSpaces, LexerInv
  <2>3. CASE AfterSpaces[lexer.pos] # Beyond
    <3>1. PICK p : p = AfterSpaces[lexer.pos]
      OBVIOUS
    <3>2. p \in (lexer.pos)..Len(text)
      <4>1. PICK n \in Nat : n = Len(text) /\ Beyond = n + 1
        BY <1>1, Characters
      <4>2. lexer.pos \in 0..n
        BY <4>1 DEF LexerInv, InText
      <4>3. p \in (lexer.pos)..Beyond
        BY <1>1, <3>1, <4>1, <4>2, SpacesEnd
      <4>4. QED
        BY <2>3, <3>1, <4>1, <4>2, <4>3
    <3>3. InText(EatTo(lexer, p))
      BY <1>1, <3>2, EatToIs DEF LexerInv
    <3>4. lexer' = EatTo(lexer, p)
      BY <1>6, <2>3, <3>1 DEF ConsumeSpaces
    <3>5. QED
      BY <1>2, <1>3, <1>6, <2>1, <3>3, <3>4 DEF ConsumeSpaces, LexerInv
  <2>4. QED
    BY <2>2, <2>3
<1>7. CASE Scans
  <2>1. CASE Overruns(lexer)
    <3>1. phase' = "overrun" /\ UNCHANGED <<text, lexer, want, saved, cur_token, promise>>
      BY <1>7, <2>1, ScansOneToken
    <3>2. Calls'
      BY <3>1 DEF Calls, LexerInv
    <3>3. QED
      BY <1>2, <1>3, <3>1, <3>2 DEF LexerInv
  <2>2. CASE ~Overruns(lexer)
    <3>1. PICK t, a : t = TokenAt(lexer) /\ a = After(lexer)
      OBVIOUS
    <3>2. phase = "token" /\ Produce(t, a) /\ InText(a)
      BY <1>1, <1>7, <2>2, <3>1, ScansOneToken, AfterInText DEF LexerInv
    <3>3. Calls'
      BY <3>2, CallsGoOn DEF LexerInv
    <3>4. /\ text' = text
          /\ \/ lexer' = a /\ saved' = saved
             \/ lexer' = saved[1] /\ saved # <<>> /\ saved' = <<>>
      BY <3>2, ProduceMoves
    <3>5. QED
      BY <1>2, <1>3, <3>2, <3>3, <3>4 DEF LexerInv
  <2>3. QED
    BY <2>1, <2>2
<1>8. CASE UNCHANGED vars
  BY <1>2, <1>3, <1>8 DEF vars, LexerInv, Calls
<1>9. QED
  BY <1>4, <1>5, <1>6, <1>7, <1>8 DEF Next, Scans

(* The inductive invariant of the lexer.                                   *)
THEOREM LexerInvariance == LexerSpec => []LexerInv
BY InitLexer, NextLexer, PTL DEF LexerSpec

(* The lexer is in its text, at a line and column of it, whatever is asked *)
(* of it: with what is under its cursor as its character.                  *)
THEOREM LexerTypeCorrect == LexerSpec => []LexerTypeOK
<1>1. LexerInv => LexerTypeOK
  <2> SUFFICES ASSUME LexerInv PROVE LexerTypeOK
    OBVIOUS
  <2>1. PICK n \in Nat : n = Len(text)
    BY InvGivesText, Characters
  <2>2. lexer.pos \in 0..n /\ lexer.char = At(lexer.pos) /\ lexer.line \in 1..(lexer.pos + 1) /\ lexer.column \in 0..(lexer.pos + 1)
    BY <2>1 DEF LexerInv, InText
  <2>3. Len(saved) <= 1 /\ Len(promise) <= 1
    <3>1. \A s : s = <<>> \/ s = <<s[1]>> => Len(s) <= 1
      <4>1. SUFFICES ASSUME NEW s, NEW x, s = <<>> \/ s = <<x>> PROVE Len(s) <= 1
        OBVIOUS
      <4>2. QED
        BY <4>1, SMTT(30)
    <3>2. (saved = <<>> \/ saved = <<saved[1]>>) /\ (promise = <<>> \/ \E x : promise = <<x>>)
      BY DEF LexerInv, Calls
    <3>3. QED
      BY <3>1, <3>2
  <2>4. QED
    BY <2>1, <2>2, <2>3 DEF LexerInv, Calls, LexerTypeOK
<1>2. QED
  BY <1>1, LexerInvariance, PTL
-----------------------------------------------------------------------------
(* In a text whose strings and comments are of one line, what is taken     *)
(* between two tokens has no end of line in it, nor the end of the text.   *)
LEMMA SpacesStayInLine ==
    ASSUME Text, OneLined, NEW p \in 0..Len(text)
    PROVE  /\ AfterSpaces[p] \in p..Len(text)
           /\ \A q \in p..(AfterSpaces[p] - 1) : At(q) # "\n"
<1>1. PICK n \in Nat : n = Len(text) /\ Beyond = n + 1
  BY Characters
<1> DEFINE next  == [q \in 0..n |-> Over(q)]
           stops == {q \in 0..n : ~Blank(q)}
           P     == {q \in 0..n : /\ AfterSpaces[q] \in q..n
                                  /\ \A r \in q..(AfterSpaces[q] - 1) : At(r) # "\n"}
<1>2. ASSUME NEW q \in 0..n, q \notin stops
      PROVE  /\ next[q] \in (q + 1)..n /\ AfterSpaces[q] = AfterSpaces[next[q]]
             /\ \A r \in q..(next[q] - 1) : At(r) # "\n"
  <2>1. Blank(q) /\ q \in 0..Beyond /\ next[q] = Over(q)
    BY <1>1, <1>2
  <2>2. q < n /\ Over(q) \in (q + 1)..(n + 1) /\ AfterSpaces[q] = AfterSpaces[Over(q)]
    BY <1>1, <2>1, OverIs, SpacesEquation
  <2>3. ~(At(q) = "/" /\ At(q + 1) = "*")
    BY <1>1 DEF OneLined
  <2>4. CASE At(q) = " "
    <3>1. At(q) # "#" /\ At(q) # "/" /\ At(q) # "\n"
      BY <2>4, Zenon
    <3>2. Over(q) = q + 1
      BY <2>4, <3>1, Zenon DEF Over
    <3>3. QED
      BY <2>1, <2>2, <3>1, <3>2
  <2>5. CASE At(q) = "#"
    <3>1. At(q) # " " /\ At(q) # "/"
      BY <2>5, Zenon
    <3>2. Over(q) = LineEnd(q)
      BY <2>5, <3>1, Zenon DEF Over
    <3>3. PICK m : m = LineEnd(q)
      OBVIOUS
    <3>4. m \in q..n /\ \A r \in q..(m - 1) : At(r) # "\n"
      BY <1>1, <3>3, LineEndIs
    <3>5. QED
      BY <2>1, <2>2, <3>2, <3>3, <3>4
  <2>6. QED
    BY <2>1, <2>3, <2>4, <2>5 DEF Blank
<1>3. \A q \in 0..n : q \in stops => q \in P
  BY <1>1, SpacesEquation
<1>4. ASSUME NEW q \in 0..n, q \notin stops, next[q] \in P PROVE q \in P
  <2>1. PICK m : m = next[q]
    OBVIOUS
  <2>2. m \in (q + 1)..n /\ AfterSpaces[q] = AfterSpaces[m] /\ \A r \in q..(m - 1) : At(r) # "\n"
    BY <1>2, <1>4, <2>1
  <2>3. PICK e : e = AfterSpaces[m]
    OBVIOUS
  <2>4. e \in m..n /\ \A r \in m..(e - 1) : At(r) # "\n"
    BY <1>4, <2>1, <2>3
  <2>5. \A r \in q..(e - 1) : At(r) # "\n"
    BY <2>2, <2>4
  <2>6. QED
    BY <2>2, <2>3, <2>4, <2>5
<1>5. 0..n \subseteq P
  <2>1. \A q \in 0..n : q \notin stops => next[q] \in (q + 1)..n
    BY <1>2
  <2>2. \A q \in 0..n : q \notin stops /\ next[q] \in P => q \in P
    BY <1>4
  <2> HIDE DEF next, stops, P
  <2>3. QED
    BY <1>1, <1>3, <2>1, <2>2, Onwards
<1>6. QED
  BY <1>1, <1>5

(* Moving on in a line keeps line and column true.                        *)
LEMMA InLinePlaced ==
    ASSUME Text, NEW l, InText(l), Placed(l), NEW p \in (l.pos)..Len(text),
           \A q \in (l.pos)..(p - 1) : At(q) # "\n"
    PROVE  Placed(EatTo(l, p))
<1>1. PICK n, o, m : n \in Nat /\ o \in Nat /\ n = Len(text) /\ o = l.pos /\ m = EatTo(l, p)
  BY Characters DEF InText
<1>2. m = [pos |-> p, char |-> At(p), column |-> l.column + p - o, line |-> l.line]
  BY <1>1, EatToIs
<1>3. p \in o..n /\ \A q \in o..(p - 1) : At(q) # "\n"
  BY <1>1
<1>4. {q \in 0..(p - 1) : At(q) = "\n"} = {q \in 0..(o - 1) : At(q) = "\n"}
  BY <1>1, <1>3
<1>5. LineStart(p) \in Nat /\ LineStart(o) = LineStart(p)
  <2> DEFINE S(e) == {q \in 0..e : q = 0 \/ At(q - 1) = "\n"}
  <2>1. S(p) = S(o)
    <3>1. ASSUME NEW q \in (o + 1)..p PROVE At(q - 1) # "\n" /\ q # 0
      <4>1. q - 1 \in o..(p - 1)
        BY <1>1, <1>3
      <4>2. QED
        BY <1>1, <1>3, <4>1
    <3>2. QED
      BY <1>1, <1>3, <3>1
  <2>2. LineStart(p) = Max(S(p)) /\ LineStart(o) = Max(S(o))
    BY DEF LineStart
  <2>3. S(p) \subseteq 0..p /\ S(p) # {} /\ p \in Nat
    BY <1>1, <1>3
  <2> HIDE DEF S
  <2>4. Max(S(p)) \in S(p)
    BY <2>3, MaxIsGreatest
  <2>5. QED
    BY <2>1, <2>2, <2>3, <2>4
<1>6. /\ l.line = 1 + Cardinality({q \in 0..(o - 1) : At(q) = "\n"})
      /\ l.column = o - LineStart(o) + (IF l.line = 1 THEN 0 ELSE 2)
  BY <1>1 DEF Placed
<1>7. l.column + p - o = p - LineStart(p) + (IF l.line = 1 THEN 0 ELSE 2)
  BY <1>1, <1>3, <1>5, <1>6 DEF InText
<1>8. m.pos = p /\ m.column = l.column + p - o /\ m.line = l.line
  BY <1>2
<1>9. Placed(m)
  BY <1>4, <1>6, <1>7, <1>8 DEF Placed
<1>10. QED
  BY <1>1, <1>9

(* A new line's token counts the line, and starts its columns again.      *)
LEMMA NewLinePlaced ==
    ASSUME Text, NEW l, InText(l), Placed(l), l.char = "\n"
    PROVE  Placed(After(l))
<1>1. PICK n, o, m : n \in Nat /\ o \in Nat /\ n = Len(text) /\ o = l.pos /\ m = After(l)
  BY Characters DEF InText
<1>2. m.pos = o + 1 /\ m.column = 2 /\ m.line = l.line + 1
  BY <1>1 DEF After
<1>3. At(o) = "\n"
  BY <1>1 DEF InText
<1> DEFINE L(e) == {q \in 0..(e - 1) : At(q) = "\n"}
<1>4. Cardinality(L(o + 1)) = Cardinality(L(o)) + 1 /\ Cardinality(L(o)) \in Nat
  <2>1. L(o + 1) = L(o) \cup {o} /\ o \notin L(o) /\ L(o) \subseteq 0..(o - 1)
    BY <1>1, <1>3
  <2>2. IsFiniteSet(L(o))
    <3>1. PICK k : k \in Int /\ k = o - 1
      BY <1>1
    <3>2. IsFiniteSet(0..k)
      BY <3>1, FS_Interval
    <3>3. L(o) \in SUBSET (0..k)
      BY <2>1, <3>1
    <3> HIDE DEF L
    <3>4. QED
      BY <3>2, <3>3, FS_Subset
  <2> HIDE DEF L
  <2>3. QED
    BY <2>1, <2>2, FS_AddElement, FS_CardinalityType
<1>5. LineStart(o + 1) = o + 1
  <2> DEFINE S == {q \in 0..(o + 1) : q = 0 \/ At(q - 1) = "\n"}
  <2>1. o + 1 \in S /\ S \subseteq 0..(o + 1) /\ o + 1 \in Nat
    BY <1>1, <1>3
  <2>2. LineStart(o + 1) = Max(S)
    BY DEF LineStart
  <2> HIDE DEF S
  <2>3. PICK k, x : k = o + 1 /\ x = Max(S)
    OBVIOUS
  <2>4. k \in Nat /\ k \in S /\ S \subseteq 0..k
    BY <2>1, <2>3
  <2>5. x \in S /\ x >= k
    BY <2>3, <2>4, MaxIsGreatest
  <2>6. x = k
    BY <2>4, <2>5
  <2>7. QED
    BY <2>2, <2>3, <2>6
<1>6. l.line = 1 + Cardinality(L(o)) /\ l.line \in Nat \ {0}
  BY <1>1 DEF Placed, InText
<1>7. m.line = 1 + Cardinality(L(m.pos)) /\ m.line # 1
  <2>1. PICK c : c = Cardinality(L(o))
    OBVIOUS
  <2> HIDE DEF L
  <2>2. c \in Nat /\ l.line = 1 + c
    BY <1>4, <1>6, <2>1
  <2>3. QED
    BY <1>2, <1>4, <2>1, <2>2
<1>8. m.column = m.pos - LineStart(m.pos) + 2
  BY <1>1, <1>2, <1>5
<1>9. Placed(m)
  BY <1>7, <1>8 DEF Placed
<1>10. QED
  BY <1>1, <1>9
-----------------------------------------------------------------------------
(* The text does not change, nor does what is said of its positions.       *)
LEMMA SameCharacters ==
    ASSUME text' = text
    PROVE  /\ Len(text)' = Len(text) /\ Beyond' = Beyond
           /\ \A p : At(p)' = At(p)
           /\ OneLined' <=> OneLined
           /\ \A l : Placed(l)' <=> Placed(l)
<1>1. Len(text)' = Len(text) /\ Beyond' = Beyond
  BY DEF Beyond
<1>2. \A p : At(p)' = At(p)
  BY DEF At
<1>3. OneLined' <=> OneLined
  BY <1>1, <1>2 DEF OneLined
<1>4. \A p : LineStart(p)' = LineStart(p)
  <2>1. ASSUME NEW p PROVE LineStart(p)' = LineStart(p)
    <3> DEFINE S == {q \in 0..p : q = 0 \/ At(q - 1) = "\n"}
    <3>1. S' = S
      BY <1>2
    <3>2. LineStart(p) = Max(S) /\ LineStart(p)' = Max(S')
      BY DEF LineStart
    <3>3. QED
      BY <3>1, <3>2
  <2>2. QED
    BY <2>1
<1>5. ASSUME NEW l PROVE Placed(l)' <=> Placed(l)
  <2> DEFINE S == {q \in 0..(l.pos - 1) : At(q) = "\n"}
  <2>1. S' = S
    BY <1>2
  <2>2. Placed(l) <=> /\ l.line = 1 + Cardinality(S)
                      /\ l.column = l.pos - LineStart(l.pos) + (IF l.line = 1 THEN 0 ELSE 2)
    BY DEF Placed
  <2>3. Placed(l)' <=> /\ l.line = 1 + Cardinality(S')
                       /\ l.column = l.pos - LineStart(l.pos)' + (IF l.line = 1 THEN 0 ELSE 2)
    BY DEF Placed
  <2>4. QED
    BY <1>4, <2>1, <2>2, <2>3
<1>6. QED
  BY <1>1, <1>2, <1>3, <1>5
-----------------------------------------------------------------------------
(* Every case of the switch keeps line and column true, where no string    *)
(* begins.                                                                 *)
LEMMA AfterPlaced ==
    ASSUME Text, OneLined, NEW l, InText(l), Placed(l)
    PROVE  Placed(After(l))
<1>1. PICK n \in Nat, p \in Nat : n = Len(text) /\ p = l.pos /\ p <= n
  BY Characters DEF InText
<1>2. l.char = At(p)
  BY <1>1 DEF InText
<1>3. CASE l.char = "\n"
  BY <1>3, NewLinePlaced
<1>4. CASE l.char # "\n" /\ <<l.char>> \in Spellings
  <2>1. PICK e : e = l.pos + Len(SignAt(l))
    OBVIOUS
  <2>2. e \in (l.pos + 1)..Len(text) /\ \A q \in (l.pos)..(e - 1) : At(q) # "\n"
    BY <1>1, <1>4, <2>1, SignIsHere
  <2>3. e \in (l.pos)..Len(text)
    BY <1>1, <2>2
  <2>4. After(l) = EatTo(l, e)
    BY <1>4, <2>1 DEF After
  <2>5. QED
    BY <2>2, <2>3, <2>4, InLinePlaced
<1>5. l.char # Quote
  <2>1. p \in 0..Len(text)
    BY <1>1
  <2>2. QED
    BY <1>2, <2>1 DEF OneLined
<1>6. CASE l.char # "\n" /\ <<l.char>> \notin Spellings /\ l.char \in Digits
  <2>1. PICK e : e = NumberEnd(DigitsEnd(p))
    OBVIOUS
  <2>2. e \in p..Len(text) /\ \A q \in p..(e - 1) : At(q) # "\n"
    BY <1>1, <2>1, NumberEndIs
  <2>3. After(l) = EatTo(l, e)
    BY <1>1, <1>5, <1>6, <2>1 DEF After
  <2>4. QED
    BY <1>1, <2>2, <2>3, InLinePlaced
<1>7. CASE l.char # "\n" /\ <<l.char>> \notin Spellings /\ l.char \notin Digits /\ l.char \in Starts
  <2>1. PICK e : e = NameEnd(p)
    OBVIOUS
  <2>2. e \in p..Len(text) /\ \A q \in p..(e - 1) : At(q) # "\n"
    BY <1>1, <2>1, NameEndIs, NotAlnum
  <2>3. After(l) = EatTo(l, e)
    BY <1>1, <1>5, <1>7, <2>1 DEF After
  <2>4. QED
    BY <1>1, <2>2, <2>3, InLinePlaced
<1>8. CASE l.char # "\n" /\ <<l.char>> \notin Spellings /\ l.char \notin Digits /\ l.char \notin Starts
  BY <1>5, <1>8 DEF After
<1>9. QED
  BY <1>3, <1>4, <1>6, <1>7, <1>8

(* Line and column are true of the lexer, and of the copy of it that a     *)
(* look-ahead will put back.                                               *)
PlacesInv == OneLined => Placed(lexer) /\ (saved # <<>> => Placed(saved[1]))

(* They are true of a lexer at the start of a text.                        *)
LEMMA InitPlaces == Init => PlacesInv
<1>1. SUFFICES ASSUME Init PROVE Placed(lexer) /\ saved = <<>>
  BY DEF PlacesInv
<1>2. lexer.pos = 0 /\ lexer.line = 1 /\ lexer.column = 0 /\ saved = <<>>
  BY <1>1 DEF Init
<1>3. Cardinality({q \in 0..(0 - 1) : At(q) = "\n"}) = 0
  <2> DEFINE L == {q \in 0..(0 - 1) : At(q) = "\n"}
  <2>1. L = {}
    OBVIOUS
  <2> HIDE DEF L
  <2>2. QED
    BY <2>1, FS_EmptySet
<1>4. LineStart(0) = 0
  <2> DEFINE S == {q \in 0..0 : q = 0 \/ At(q - 1) = "\n"}
  <2>1. 0 \in S /\ S \subseteq 0..0
    OBVIOUS
  <2>2. LineStart(0) = Max(S)
    BY DEF LineStart
  <2> HIDE DEF S
  <2>3. PICK x : x = Max(S)
    OBVIOUS
  <2>4. x \in S
    BY <2>1, <2>3, MaxIsGreatest
  <2>5. x = 0
    BY <2>1, <2>4
  <2>6. QED
    BY <2>2, <2>3, <2>5
<1>5. QED
  BY <1>2, <1>3, <1>4 DEF Placed

(* And every step keeps them true.                                         *)
LEMMA NextPlaces == LexerInv /\ PlacesInv /\ [Next]_vars => PlacesInv'
<1> SUFFICES ASSUME LexerInv, PlacesInv, [Next]_vars, OneLined'
             PROVE  (Placed(lexer) /\ (saved # <<>> => Placed(saved[1])))'
  BY DEF PlacesInv
<1>1. Text
  BY InvGivesText
<1>2. text' = text
  BY DEF Next, vars, ParserNext, Peek, ConsumeSpaces, Newline, Operator, String, Number, Name, End, Produce
<1>3. OneLined /\ Placed(lexer) /\ (saved # <<>> => Placed(saved[1])) /\ InText(lexer)
  BY <1>2, SameCharacters DEF PlacesInv, LexerInv
<1>4. ASSUME NEW l, Placed(l), lexer' = l PROVE Placed(lexer)'
  <2>1. Placed(l)'
    BY <1>2, <1>4, SameCharacters
  <2>2. QED
    BY <1>4, <2>1 DEF Placed
<1>5. ASSUME saved' = saved PROVE (saved # <<>> => Placed(saved[1]))'
  <2>1. SUFFICES ASSUME saved # <<>> PROVE Placed(saved[1])'
    BY <1>5
  <2>2. PICK l : l = saved[1]
    OBVIOUS
  <2>3. Placed(l)'
    BY <1>2, <1>3, <2>1, <2>2, SameCharacters
  <2>4. QED
    BY <1>5, <2>2, <2>3 DEF Placed
<1>6. CASE ParserNext
  BY <1>3, <1>4, <1>5, <1>6 DEF ParserNext
<1>7. ASSUME NEW n \in 1..MaxPeek, Peek(n)
      PROVE  (Placed(lexer) /\ (saved # <<>> => Placed(saved[1])))'
  <2>1. lexer' = lexer /\ saved'[1] = lexer
    BY <1>7 DEF Peek
  <2>2. Placed(lexer)'
    BY <1>3, <1>4, <2>1
  <2>3. QED
    BY <2>1, <2>2 DEF Placed
<1>8. CASE ConsumeSpaces
  <2>1. CASE AfterSpaces[lexer.pos] = Beyond
    BY <1>3, <1>4, <1>5, <1>8, <2>1 DEF ConsumeSpaces
  <2>2. CASE AfterSpaces[lexer.pos] # Beyond
    <3>1. PICK p, o : p = AfterSpaces[o] /\ o = lexer.pos
      OBVIOUS
    <3>2. o \in 0..Len(text)
      BY <1>3, <3>1 DEF InText
    <3>3. p \in o..Len(text) /\ \A q \in o..(p - 1) : At(q) # "\n"
      BY <1>1, <1>3, <3>1, <3>2, SpacesStayInLine
    <3>4. Placed(EatTo(lexer, p))
      BY <1>1, <1>3, <3>1, <3>3, InLinePlaced
    <3>5. lexer' = EatTo(lexer, p) /\ saved' = saved
      BY <1>8, <2>2, <3>1 DEF ConsumeSpaces
    <3>6. QED
      BY <1>4, <1>5, <3>4, <3>5
  <2>3. QED
    BY <2>1, <2>2
<1>9. CASE Scans
  <2>1. CASE Overruns(lexer)
    BY <1>3, <1>4, <1>5, <1>9, <2>1, ScansOneToken
  <2>2. CASE ~Overruns(lexer)
    <3>1. PICK t, a : t = TokenAt(lexer) /\ a = After(lexer)
      OBVIOUS
    <3>2. Produce(t, a) /\ Placed(a)
      BY <1>1, <1>3, <1>9, <2>2, <3>1, ScansOneToken, AfterPlaced
    <3>3. \/ lexer' = a /\ saved' = saved
          \/ lexer' = saved[1] /\ saved # <<>> /\ saved' = <<>>
      BY <3>2, ProduceMoves
    <3>4. QED
      BY <1>3, <1>4, <1>5, <3>2, <3>3
  <2>3. QED
    BY <2>1, <2>2
<1>10. CASE UNCHANGED vars
  BY <1>3, <1>4, <1>5, <1>10 DEF vars
<1>11. QED
  BY <1>6, <1>7, <1>8, <1>9, <1>10 DEF Next, Scans

(* Line and column are where the lexer is: no step between two tokens, in  *)
(* one, or back from a look-ahead loses count of them.                     *)
THEOREM LexerPositionsCorrect == LexerSpec => []PositionsAreTrue
<1>1. PlacesInv => PositionsAreTrue
  BY DEF PlacesInv, PositionsAreTrue
<1>2. QED
  BY <1>1, LexerInvariance, InitPlaces, NextPlaces, PTL DEF LexerSpec
-----------------------------------------------------------------------------
(* The text does not change, nor does what a call makes of a lexer.        *)
LEMMA SameEnds ==
    ASSUME text' = text
    PROVE  /\ Beyond' = Beyond
           /\ \A p : At(p)' = At(p)
           /\ \A p : DigitsEnd(p)' = DigitsEnd(p)
           /\ \A p : NameEnd(p)' = NameEnd(p)
           /\ \A p : StringEnd(p)' = StringEnd(p)
           /\ \A p : LineEnd(p)' = LineEnd(p)
           /\ \A p : Star(p)' = Star(p)
           /\ \A l, p : EatTo(l, p)' = EatTo(l, p)
           /\ \A p, q : Between(p, q)' = Between(p, q)
<1>1. Beyond' = Beyond
  BY DEF Beyond
<1>2. \A p : At(p)' = At(p)
  BY DEF At
<1>3. \A p : DigitsEnd(p)' = DigitsEnd(p)
  BY Zenon DEF DigitsEnd, FirstOf, At, Beyond
<1>4. \A p : NameEnd(p)' = NameEnd(p)
  BY Zenon DEF NameEnd, FirstOf, At, Beyond
<1>5. \A p : StringEnd(p)' = StringEnd(p)
  BY Zenon DEF StringEnd, FirstOf, At, Beyond, StopsBefore
<1>6. \A p : LineEnd(p)' = LineEnd(p)
  BY Zenon DEF LineEnd, FirstOf, At, Beyond
<1>7. \A p : Star(p)' = Star(p)
  BY Zenon DEF Star, FirstOf, At, Beyond
<1>8. \A l, p : EatTo(l, p)' = EatTo(l, p)
  BY <1>2 DEF EatTo
<1>9. \A p, q : Between(p, q)' = Between(p, q)
  BY DEF Between
<1>10. QED
  BY <1>1, <1>2, <1>3, <1>4, <1>5, <1>6, <1>7, <1>8, <1>9

(* The lexer where the blanks before its next token end.                   *)
Skip(l) == EatTo(l, AfterSpaces[l.pos])

(* Nor where the blanks of it end, or the token that follows.             *)
LEMMA SameTokens ==
    ASSUME text' = text
    PROVE  /\ AfterSpaces' = AfterSpaces
           /\ \A l : Skip(l)' = Skip(l) /\ After(l)' = After(l) /\ TokenAt(l)' = TokenAt(l)
<1>1. \A p : Blank(p)' <=> Blank(p)
  BY SameEnds DEF Blank
<1>2. \A p : CommentEnd(p)' = CommentEnd(p)
  BY SameEnds, Zenon DEF CommentEnd
<1>3. \A p : Over(p)' = Over(p)
  BY SameEnds, <1>2, Zenon DEF Over
<1>4. AfterSpaces' = AfterSpaces
  BY SameEnds, <1>1, <1>3, Zenon DEF AfterSpaces
<1>5. \A l : Skip(l)' = Skip(l)
  BY SameEnds, <1>4 DEF Skip
<1>6. \A d : IsFloat(d)' <=> IsFloat(d)
  BY SameEnds DEF IsFloat
<1>7. \A d : NumberEnd(d)' = NumberEnd(d)
  BY SameEnds, <1>6 DEF NumberEnd
<1>8. \A l : SignAt(l)' = SignAt(l)
  BY SameEnds DEF SignAt
<1>9. \A l : After(l)' = After(l)
  BY SameEnds, <1>7, <1>8 DEF After
<1>10. \A l : TokenAt(l)' = TokenAt(l)
  BY SameEnds, <1>6, <1>7, <1>8, <1>9 DEF TokenAt, WordToken, Token
<1>11. QED
  BY <1>4, <1>5, <1>9, <1>10

(* Where the blanks end there are none to take.                            *)
LEMMA SkipOnce ==
    ASSUME Text, NEW l, InText(l), AfterSpaces[l.pos] # Beyond
    PROVE  Skip(Skip(l)) = Skip(l) /\ AfterSpaces[Skip(l).pos] = Skip(l).pos
<1>1. PICK n, o, p : n \in Nat /\ n = Len(text) /\ Beyond = n + 1 /\ o = l.pos /\ p = AfterSpaces[o]
  BY Characters
<1>2. o \in 0..n
  BY <1>1 DEF InText
<1>3. p \in o..Beyond /\ AfterSpaces[p] = p
  BY <1>1, <1>2, SpacesEnd
<1>4. p \in o..n
  BY <1>1, <1>2, <1>3
<1>5. Skip(l) = EatTo(l, p) /\ EatTo(l, p).pos = p
  BY <1>1, <1>4, EatToIs DEF Skip
<1>6. \A k : k.pos = p => EatTo(k, p) = k
  BY DEF EatTo
<1>7. Skip(Skip(l)) = EatTo(Skip(l), p)
  BY <1>3, <1>5 DEF Skip
<1>8. QED
  BY <1>3, <1>5, <1>6, <1>7
-----------------------------------------------------------------------------
(* behind is where the lexer is, past the blanks, when n tokens have been  *)
(* made from l on: s has the places in between.  So k calls from l make    *)
(* the token Foretold.                                                     *)
Later(l, n, behind) ==
    \E s : s[0] = Skip(l) /\ s[n] = behind /\ \A i \in 0..(n - 1) : s[i + 1] = Skip(After(s[i]))
Foretold(l, k, token) == \E b : Later(l, k - 1, b) /\ TokenAt(b) = token

(* What is promised is what the calls from here will make.  Inside a       *)
(* look-ahead the lexer is where as many calls from the copy would have it.*)
PeekInv ==
    /\ phase = "token" => AfterSpaces[lexer.pos] = lexer.pos
    /\ saved = <<>> /\ promise # <<>> => Foretold(lexer, promise[1].left, promise[1].token)
    /\ saved # <<>> => /\ promise[1].left >= want
                       /\ Later(saved[1], promise[1].left - want, Skip(lexer))

(* No token: the lexer is behind the blanks.                              *)
LEMMA LaterNone == \A l, b : Later(l, 0, b) <=> b = Skip(l)
<1>1. ASSUME NEW l, NEW b, Later(l, 0, b) PROVE b = Skip(l)
  BY <1>1 DEF Later
<1>2. ASSUME NEW l PROVE Later(l, 0, Skip(l))
  <2> DEFINE s == [i \in {0} |-> Skip(l)]
  <2>1. s[0] = Skip(l) /\ \A i \in 0..(0 - 1) : s[i + 1] = Skip(After(s[i]))
    OBVIOUS
  <2> HIDE DEF s
  <2>2. QED
    BY <2>1 DEF Later
<1>3. QED
  BY <1>1, <1>2

(* One token more.                                                        *)
LEMMA LaterMore ==
    ASSUME NEW n \in Nat, NEW l, NEW b, Later(l, n, b)
    PROVE  Later(l, n + 1, Skip(After(b)))
<1>1. PICK s : s[0] = Skip(l) /\ s[n] = b /\ \A i \in 0..(n - 1) : s[i + 1] = Skip(After(s[i]))
  BY DEF Later
<1> DEFINE z == [i \in 0..(n + 1) |-> IF i = n + 1 THEN Skip(After(b)) ELSE s[i]]
<1>2. z[0] = Skip(l) /\ z[n + 1] = Skip(After(b))
  BY <1>1
<1>3. ASSUME NEW i \in 0..(n + 1 - 1) PROVE z[i + 1] = Skip(After(z[i]))
  <2>1. z[i] = s[i]
    OBVIOUS
  <2>2. CASE i = n
    BY <1>1, <2>1, <2>2
  <2>3. CASE i # n
    <3>1. i \in 0..(n - 1) /\ z[i + 1] = s[i + 1]
      BY <2>3
    <3>2. QED
      BY <1>1, <2>1, <3>1
  <2>4. QED
    BY <2>2, <2>3
<1> HIDE DEF z
<1>4. QED
  BY <1>2, <1>3 DEF Later

(* One token less: what is later than l is later than the lexer after it. *)
LEMMA LaterLess ==
    ASSUME NEW n \in Nat, NEW l, NEW b, Later(l, n + 1, b)
    PROVE  Later(After(Skip(l)), n, b)
<1>1. PICK s : s[0] = Skip(l) /\ s[n + 1] = b /\ \A i \in 0..n : s[i + 1] = Skip(After(s[i]))
  <2>1. n + 1 - 1 = n
    OBVIOUS
  <2>2. QED
    BY <2>1 DEF Later
<1> DEFINE z == [i \in 0..n |-> s[i + 1]]
<1>2. z[0] = Skip(After(Skip(l))) /\ z[n] = b
  BY <1>1
<1>3. \A i \in 0..(n - 1) : z[i + 1] = Skip(After(z[i]))
  BY <1>1
<1> HIDE DEF z
<1>4. QED
  BY <1>2, <1>3 DEF Later

(* The blanks before the first token make no difference.                   *)
LEMMA LaterSkips == \A l, m, n, b : Skip(l) = Skip(m) /\ Later(l, n, b) => Later(m, n, b)
BY DEF Later

(* Nor does a step, which leaves the text as it is.                        *)
LEMMA SameLater ==
    ASSUME text' = text
    PROVE  /\ \A l, n, b : Later(l, n, b)' <=> Later(l, n, b)
           /\ \A l, k, t : Foretold(l, k, t)' <=> Foretold(l, k, t)
<1>1. \A l, n, b : Later(l, n, b)' <=> Later(l, n, b)
  BY SameTokens DEF Later
<1>2. \A l, k, t : Foretold(l, k, t)' <=> Foretold(l, k, t)
  BY SameTokens, <1>1 DEF Foretold
<1>3. QED
  BY <1>1, <1>2
(* Nothing is promised at the start.                                       *)
LEMMA InitPeeks == Init => PeekInv
BY DEF Init, PeekInv

(* A promise goes on being true.                                          *)
LEMMA PromiseIsKept ==
    ASSUME text' = text, NEW l, NEW k, NEW t, Foretold(l, k, t),
           lexer' = l, promise'[1].left = k, promise'[1].token = t
    PROVE  Foretold(lexer, promise[1].left, promise[1].token)'
<1>1. Foretold(l, k, t)'
  BY SameLater
<1>2. QED
  BY <1>1

(* So does where a look-ahead has got to.                                 *)
LEMMA LookAheadGoesOn ==
    ASSUME text' = text, NEW l, NEW m, NEW n \in Nat, Later(l, n, Skip(m)),
           saved'[1] = l, lexer' = m,
           promise'[1].left \in Int, want' \in Int, promise'[1].left - want' = n
    PROVE  (promise[1].left >= want /\ Later(saved[1], promise[1].left - want, Skip(lexer)))'
<1>1. PICK b : b = Skip(m)
  OBVIOUS
<1>2. Later(l, n, b)' /\ Skip(m)' = b
  BY <1>1, SameLater, SameTokens
<1>3. promise'[1].left >= want'
  OBVIOUS
<1>4. QED
  BY <1>2, <1>3

(* Every step keeps promises and look-aheads right.                       *)
LEMMA NextPeeks == LexerInv /\ PeekInv /\ [Next]_vars => PeekInv'
<1> SUFFICES ASSUME LexerInv, PeekInv, [Next]_vars PROVE PeekInv'
  OBVIOUS
<1>1. Text /\ InText(lexer)
  BY InvGivesText DEF LexerInv
<1>2. text' = text
  BY DEF Next, vars, ParserNext, Peek, ConsumeSpaces, Newline, Operator, String, Number, Name, End, Produce
<1>3. PICK l : l = lexer
  OBVIOUS
<1>4. saved # <<>> => /\ promise[1].left - want \in Nat
                      /\ promise[1].left \in Int /\ want \in Int
  BY DEF LexerInv, Calls, PeekInv
<1>5. ASSUME NEW m, Skip(m) = Skip(l), lexer' = m, UNCHANGED <<saved, want, promise>>
      PROVE  /\ (saved = <<>> /\ promise # <<>> => Foretold(lexer, promise[1].left, promise[1].token))'
             /\ (saved # <<>> => /\ promise[1].left >= want
                                 /\ Later(saved[1], promise[1].left - want, Skip(lexer)))'
  <2>1. ASSUME saved = <<>>, promise # <<>>
        PROVE  Foretold(lexer, promise[1].left, promise[1].token)'
    <3>1. PICK k, t : k = promise[1].left /\ t = promise[1].token
      OBVIOUS
    <3>2. Foretold(m, k, t)
      BY <1>3, <1>5, <2>1, <3>1, LaterSkips DEF PeekInv, Foretold
    <3>3. QED
      BY <1>2, <1>5, <3>1, <3>2, PromiseIsKept
  <2>2. ASSUME saved # <<>>
        PROVE  (promise[1].left >= want /\ Later(saved[1], promise[1].left - want, Skip(lexer)))'
    <3>1. PICK c, n : c = saved[1] /\ n = promise[1].left - want
      OBVIOUS
    <3>2. n \in Nat /\ Later(c, n, Skip(m))
      BY <1>3, <1>4, <1>5, <2>2, <3>1 DEF PeekInv
    <3>3. QED
      BY <1>2, <1>4, <1>5, <2>2, <3>1, <3>2, LookAheadGoesOn
  <2>3. QED
    BY <1>5, <2>1, <2>2
<1>6. CASE ParserNext
  <2>1. saved = <<>> /\ saved' = <<>> /\ lexer' = lexer /\ promise' = promise /\ phase' # "token"
    BY <1>6 DEF ParserNext, LexerInv, Calls
  <2>2. ASSUME promise # <<>> PROVE Foretold(lexer, promise[1].left, promise[1].token)'
    <3>1. PICK k, t : k = promise[1].left /\ t = promise[1].token
      OBVIOUS
    <3>2. Foretold(l, k, t)
      BY <1>3, <2>1, <2>2, <3>1 DEF PeekInv
    <3>3. QED
      BY <1>2, <1>3, <2>1, <3>1, <3>2, PromiseIsKept
  <2>3. QED
    BY <2>1, <2>2 DEF PeekInv
<1>7. ASSUME NEW n \in 1..MaxPeek, Peek(n) PROVE PeekInv'
  <2>1. phase' # "token" /\ saved' # <<>>
    BY <1>7 DEF Peek
  <2>2. saved'[1] = l /\ lexer' = l /\ promise'[1].left = n /\ want' = n
    BY <1>3, <1>7 DEF Peek
  <2>3. Later(l, 0, Skip(l))
    BY LaterNone
  <2>4. n \in Int /\ n - n = 0
    BY LexerAssumption
  <2>5. (promise[1].left >= want /\ Later(saved[1], promise[1].left - want, Skip(lexer)))'
    BY <1>2, <2>2, <2>3, <2>4, LookAheadGoesOn
  <2>6. QED
    BY <2>1, <2>5 DEF PeekInv
<1>8. CASE ConsumeSpaces
  <2>1. CASE AfterSpaces[lexer.pos] = Beyond
    <3>1. phase' # "token" /\ lexer' = l /\ UNCHANGED <<saved, want, promise>>
      BY <1>3, <1>8, <2>1 DEF ConsumeSpaces
    <3>2. QED
      BY <1>5, <3>1 DEF PeekInv
  <2>2. CASE AfterSpaces[lexer.pos] # Beyond
    <3>1. PICK m : m = Skip(l)
      OBVIOUS
    <3>2. lexer' = m /\ UNCHANGED <<saved, want, promise>>
      BY <1>3, <1>8, <2>2, <3>1 DEF ConsumeSpaces, Skip
    <3>3. Skip(m) = Skip(l) /\ AfterSpaces[m.pos] = m.pos
      BY <1>1, <1>3, <2>2, <3>1, SkipOnce
    <3>4. AfterSpaces' = AfterSpaces
      BY <1>2, SameTokens
    <3>5. (phase = "token" => AfterSpaces[lexer.pos] = lexer.pos)'
      BY <3>2, <3>3, <3>4
    <3>6. QED
      BY <1>5, <3>2, <3>3, <3>5 DEF PeekInv
  <2>3. QED
    BY <2>1, <2>2
<1>9. CASE Scans
  <2>1. CASE Overruns(lexer)
    <3>1. phase' # "token" /\ lexer' = l /\ UNCHANGED <<saved, want, promise>>
      BY <1>3, <1>9, <2>1, ScansOneToken
    <3>2. QED
      BY <1>5, <3>1 DEF PeekInv
  <2>2. CASE ~Overruns(lexer)
    <3>1. PICK t, a : t = TokenAt(l) /\ a = After(l)
      OBVIOUS
    <3>2. phase = "token" /\ Produce(t, a) /\ Skip(l) = l
      <4>1. phase = "token" /\ Produce(t, a)
        BY <1>3, <1>9, <2>2, <3>1, ScansOneToken
      <4>2. QED
        BY <1>3, <4>1 DEF PeekInv, Skip, EatTo
    <3>3. CASE want > 1 /\ lexer' = a /\ phase' = "spaces" /\ UNCHANGED <<saved, cur_token, promise>>
      <4>1. saved # <<>> /\ saved' # <<>> /\ want' = want - 1 /\ phase' # "token"
        BY <3>2, <3>3 DEF Produce, LexerInv, Calls
      <4>2. PICK c, n : c = saved[1] /\ n = promise[1].left - want
        OBVIOUS
      <4>3. n \in Nat /\ Later(c, n, l)
        BY <1>3, <1>4, <3>2, <4>1, <4>2 DEF PeekInv
      <4>4. Later(c, n + 1, Skip(a))
        BY <3>1, <4>3, LaterMore
      <4>5. promise'[1].left \in Int /\ want' \in Int /\ promise'[1].left - want' = n + 1
        BY <1>4, <3>3, <4>1, <4>2
      <4>6. saved'[1] = c /\ lexer' = a
        BY <3>3, <4>2
      <4>7. (promise[1].left >= want /\ Later(saved[1], promise[1].left - want, Skip(lexer)))'
        BY <1>2, <4>3, <4>4, <4>5, <4>6, LookAheadGoesOn
      <4>8. QED
        BY <4>1, <4>7 DEF PeekInv
    <3>4. CASE want = 1 /\ saved = <<>> /\ Kept(t, a)
      <4>1. saved' = <<>> /\ lexer' = a /\ phase' # "token"
        BY <3>4 DEF Kept
      <4>2. CASE promise = <<>> \/ promise[1].left = 1
        BY <3>4, <4>1, <4>2 DEF Kept, PeekInv
      <4>3. CASE promise # <<>> /\ promise[1].left # 1
        <5>1. PICK k, u : /\ promise = <<[left |-> k, token |-> u]>> /\ k \in 1..MaxPeek
          BY <4>3 DEF LexerInv, Calls
        <5>2. k # 1 /\ promise' = <<[left |-> k - 1, token |-> u]>>
          <6>1. k # 1 /\ promise' = <<[promise[1] EXCEPT !.left = @ - 1]>>
            BY <3>4, <4>3, <5>1 DEF Kept
          <6>2. QED
            BY <5>1, <6>1
        <5>3. PICK n \in Nat : k = n + 2
          <6>1. k \in Nat /\ k >= 2
            BY <5>1, <5>2, LexerAssumption
          <6>2. k - 2 \in Nat /\ k = (k - 2) + 2
            BY <6>1
          <6>3. QED
            BY <6>2
        <5>4. PICK b : Later(l, n + 1, b) /\ TokenAt(b) = u
          <6>1. Foretold(l, k, u)
            BY <1>3, <3>4, <5>1 DEF PeekInv
          <6>2. k - 1 = n + 1
            BY <5>3
          <6>3. QED
            BY <6>1, <6>2 DEF Foretold
        <5>5. Later(a, n, b)
          BY <3>1, <3>2, <5>4, LaterLess
        <5>6. Foretold(a, k - 1, u)
          <6>1. k - 1 - 1 = n
            BY <5>3
          <6>2. QED
            BY <5>4, <5>5, <6>1 DEF Foretold
        <5>7. Foretold(lexer, promise[1].left, promise[1].token)'
          BY <1>2, <4>1, <5>2, <5>6, PromiseIsKept
        <5>8. QED
          BY <4>1, <5>7 DEF PeekInv
      <4>4. QED
        BY <4>2, <4>3
    <3>5. CASE want = 1 /\ saved # <<>> /\ Peeked(t)
      <4>1. PICK k, u : promise = <<[left |-> k, token |-> u]>> /\ k \in 1..MaxPeek
        BY <3>5 DEF LexerInv, Calls
      <4>2. PICK c : c = saved[1]
        OBVIOUS
      <4>3. saved' = <<>> /\ lexer' = c /\ phase' # "token"
        BY <3>5, <4>2 DEF Peeked, Restored
      <4>4. promise' = <<[left |-> k, token |-> t]>>
        <5>1. promise' = <<[promise[1] EXCEPT !.token = t]>>
          BY <3>5, Zenon DEF Peeked
        <5>2. QED
          BY <4>1, <5>1
      <4>5. Later(c, k - 1, l)
        BY <1>3, <3>2, <3>5, <4>1, <4>2 DEF PeekInv
      <4>6. Foretold(c, k, t)
        BY <3>1, <4>5 DEF Foretold
      <4>7. Foretold(lexer, promise[1].left, promise[1].token)'
        BY <1>2, <4>3, <4>4, <4>6, PromiseIsKept
      <4>8. QED
        BY <4>3, <4>7 DEF PeekInv
    <3>6. QED
      BY <3>2, <3>3, <3>4, <3>5 DEF Produce
  <2>3. QED
    BY <2>1, <2>2
<1>10. CASE UNCHANGED vars
  <2>1. lexer' = l /\ phase' = phase /\ UNCHANGED <<saved, want, promise>>
    BY <1>3, <1>10 DEF vars
  <2>2. AfterSpaces' = AfterSpaces
    BY <1>2, SameTokens
  <2>3. (phase = "token" => AfterSpaces[lexer.pos] = lexer.pos)'
    BY <1>3, <2>1, <2>2 DEF PeekInv
  <2>4. QED
    BY <1>5, <2>1, <2>3 DEF PeekInv
<1>11. QED
  BY <1>6, <1>7, <1>8, <1>9, <1>10 DEF Next, Scans

(* What a look-ahead said of the n-th token from here is what the n-th     *)
(* call then gives: the copy it puts back is the lexer it was made of, and *)
(* the calls after it make their tokens of the same lexers as it did.      *)
THEOREM LexerKeepsPeeks == LexerSpec => PeeksAreKept
<1>1. LexerInv /\ PeekInv /\ [Next]_vars
        => [phase = "token" /\ saved = <<>> /\ phase' # "overrun" /\ promise # <<>> /\ promise[1].left = 1
              => cur_token' = promise[1].token]_vars
  <2> SUFFICES ASSUME LexerInv, PeekInv, Next,
                      phase = "token", saved = <<>>, phase' # "overrun", promise # <<>>, promise[1].left = 1
               PROVE  cur_token' = promise[1].token
    OBVIOUS
  <2>1. Scans
    BY DEF Next, Scans, ParserNext, Peek, ConsumeSpaces
  <2>2. Produce(TokenAt(lexer), After(lexer))
    BY <2>1, ScansOneToken
  <2>3. cur_token' = TokenAt(lexer)
    BY <2>2 DEF Produce, Kept, LexerInv, Calls
  <2>4. Skip(lexer) = lexer
    BY DEF PeekInv, Skip, EatTo
  <2>5. PICK b : Later(lexer, 0, b) /\ TokenAt(b) = promise[1].token
    BY DEF PeekInv, Foretold
  <2>6. QED
    BY <2>3, <2>4, <2>5, LaterNone
<1>2. QED
  BY <1>1, LexerInvariance, InitPeeks, NextPeeks, PTL DEF LexerSpec, PeeksAreKept
-----------------------------------------------------------------------------
(* A comment from # ends where the readme has it.                          *)
LEMMA LineCommentEnds ==
    ASSUME Text, NEW p \in 0..Len(text)
    PROVE  Min({q \in p..Len(text) : At(q) \in {"\n", NUL}}) = LineEnd(p)
<1> DEFINE S == {q \in p..Len(text) : At(q) \in {"\n", NUL}}
<1>1. PICK n, m : n \in Nat /\ n = Len(text) /\ m = LineEnd(p)
  BY Characters
<1>2. m \in S /\ \A q \in S : m <= q
  BY <1>1, LineEndIs
<1>3. S \subseteq Nat
  BY <1>1
<1> HIDE DEF S
<1>4. PICK k : k = Min(S)
  OBVIOUS
<1>5. k \in S /\ \A q \in S : k <= q
  BY <1>2, <1>3, <1>4, MinIsLeast
<1>6. k = m
  BY <1>2, <1>3, <1>5
<1>7. QED
  BY <1>1, <1>4, <1>6 DEF S

(* And so does the other kind, unless it has a star of its own.            *)
LEMMA StarCommentEnds ==
    ASSUME Text, ~StarComment, NEW p \in 0..Len(text), At(p) = "/", At(p + 1) = "*"
    PROVE  CommentEnd(p) = IF Closing(p) = Beyond THEN Beyond ELSE Closing(p) + 2
<1>1. PICK n \in Nat, r \in Nat : n = Len(text) /\ Beyond = n + 1 /\ r = p + 2
  BY Characters
<1> DEFINE S == {q \in r..n : At(q) = "*"}
           C == {q \in r..n : At(q) = "*" /\ At(q + 1) = "/"}
<1>2. PICK s, c : s = Star(p) /\ c = Closing(p)
  OBVIOUS
<1>3. s = Min(S \cup {n + 1}) /\ c = Min(C \cup {n + 1})
  BY <1>1, <1>2 DEF FirstOf, Star, Closing
<1>4. S \subseteq r..n /\ C \subseteq S /\ \A q \in S : At(q + 1) = "/" => q \in C
  OBVIOUS
<1> HIDE DEF S, C
<1>5. s \in S \cup {n + 1} /\ (s = n + 1 <=> S = {}) /\ \A k \in S \cup {n + 1} : s <= k
  <2>1. S \subseteq Nat /\ n + 1 \notin S
    BY <1>4
  <2>2. PICK T : T = S \cup {n + 1}
    OBVIOUS
  <2>3. s \in T /\ \A k \in T : s <= k
    <3>1. T \subseteq Nat /\ T # {} /\ s = Min(T)
      BY <1>3, <2>1, <2>2
    <3>2. QED
      BY <3>1, MinIsLeast
  <2>4. \A k \in S : k <= n
    BY <1>4
  <2>5. QED
    BY <2>1, <2>2, <2>3, <2>4
<1>6. c \in C \cup {n + 1} /\ (c = n + 1 <=> C = {}) /\ \A k \in C \cup {n + 1} : c <= k
  <2>1. C \subseteq Nat /\ n + 1 \notin C
    BY <1>4
  <2>2. PICK T : T = C \cup {n + 1}
    OBVIOUS
  <2>3. c \in T /\ \A k \in T : c <= k
    <3>1. T \subseteq Nat /\ T # {} /\ c = Min(T)
      BY <1>3, <2>1, <2>2
    <3>2. QED
      BY <3>1, MinIsLeast
  <2>4. \A k \in C : k <= n
    BY <1>4
  <2>5. QED
    BY <2>1, <2>2, <2>3, <2>4
<1>7. CASE s = n + 1
  <2>1. c = n + 1
    BY <1>4, <1>5, <1>6, <1>7
  <2>2. CommentEnd(p) = Beyond
    <3>1. At(s + 1) # "/"
      BY <1>1, <1>7, Characters DEF NUL
    <3>2. QED
      BY <1>1, <1>2, <1>7, <3>1, Zenon DEF CommentEnd
  <2>3. QED
    BY <1>1, <1>2, <2>1, <2>2
<1>8. CASE s # n + 1
  <2>1. s \in S /\ At(s + 1) = "/"
    BY <1>1, <1>2, <1>5, <1>8 DEF StarComment
  <2>2. c = s
    <3>1. s \in C
      BY <1>4, <2>1
    <3>2. c <= s /\ s <= c
      BY <1>4, <1>5, <1>6, <3>1
    <3>3. s \in Nat /\ c \in Nat
      BY <1>4, <1>6, <3>1
    <3>4. QED
      BY <3>2, <3>3
  <2>3. CommentEnd(p) = s + 2
    BY <1>1, <1>2, <1>8, <2>1, Zenon DEF CommentEnd
  <2>4. QED
    BY <1>1, <1>2, <1>8, <2>2, <2>3
<1>9. QED
  BY <1>7, <1>8

(* So what is taken at a time is a blank or a whole comment.               *)
LEMMA OverIsBlank ==
    ASSUME Text, ~StarComment, NEW p \in 0..Beyond
    PROVE  /\ Blank(p) => p # Beyond /\ BlankAt(p) = Over(p) /\ Over(p) \in (p + 1)..Beyond
           /\ ~Blank(p) => BlankAt(p) = p
<1>1. PICK n \in Nat : n = Len(text) /\ Beyond = n + 1
  BY Characters
<1>2. CASE Blank(p)
  <2>1. p < n /\ Over(p) \in (p + 1)..Beyond
    BY <1>1, <1>2, OverIs
  <2>2. p \in 0..Len(text)
    BY <1>1, <2>1
  <2>3. CASE At(p) = " "
    <3>1. At(p) # "#" /\ At(p) # "/"
      BY <2>3, Zenon
    <3>2. BlankAt(p) = Over(p)
      BY <2>3, <3>1, Zenon DEF Over, BlankAt
    <3>3. QED
      BY <1>1, <1>2, <2>1, <3>2
  <2>4. CASE At(p) = "#"
    <3>1. At(p) # " " /\ At(p) # "/"
      BY <2>4, Zenon
    <3>2. Over(p) = LineEnd(p) /\ BlankAt(p) = Min({q \in p..Len(text) : At(q) \in {"\n", NUL}})
      BY <2>4, <3>1, Zenon DEF Over, BlankAt
    <3>3. BlankAt(p) = Over(p)
      BY <2>2, <3>2, LineCommentEnds
    <3>4. QED
      BY <1>1, <1>2, <2>1, <3>3
  <2>5. CASE At(p) = "/" /\ At(p + 1) = "*"
    <3>1. At(p) # " " /\ At(p) # "#"
      BY <2>5, Zenon
    <3>2. Over(p) = CommentEnd(p) /\ BlankAt(p) = IF Closing(p) = Beyond THEN Beyond ELSE Closing(p) + 2
      BY <2>5, <3>1, Zenon DEF Over, BlankAt
    <3>3. BlankAt(p) = Over(p)
      BY <2>2, <2>5, <3>2, StarCommentEnds
    <3>4. QED
      BY <1>1, <1>2, <2>1, <3>3
  <2>6. QED
    BY <1>2, <2>3, <2>4, <2>5 DEF Blank
<1>3. CASE ~Blank(p)
  <2>1. At(p) # " " /\ At(p) # "#" /\ ~(At(p) = "/" /\ At(p + 1) = "*")
    BY <1>3 DEF Blank
  <2>2. QED
    BY <1>3, <2>1, Zenon DEF BlankAt
<1>4. QED
  BY <1>2, <1>3

(* The blanks end where consume_spaces stops.                              *)
LEMMA SpacesAreBlanks ==
    ASSUME Text, ~StarComment, NEW p \in 0..Beyond
    PROVE  BlanksEnd[p] = AfterSpaces[p]
<1>1. PICK n \in Nat : n = Len(text) + 1 /\ Beyond = n
  BY Characters
<1> DEFINE next  == [q \in 0..n |-> Over(q)]
           stops == {q \in 0..n : ~Blank(q)}
           P     == {q \in 0..n : BlanksEnd[q] = AfterSpaces[q]}
           E(f)  == f = [q \in 0..Beyond |-> IF q = Beyond \/ BlankAt(q) = q THEN q ELSE f[BlankAt(q)]]
<1>2. \A q \in 0..n : q \notin stops => next[q] \in (q + 1)..n
  BY <1>1, OverIs
<1>3. PICK f : Reaches(f, n, next, stops)
  <2> HIDE DEF next, stops
  <2>1. QED
    BY <1>1, <1>2, WhereItStops
<1>4. E(f)
  <2>1. \A q \in 0..n : f[q] = IF q = Beyond \/ BlankAt(q) = q THEN q ELSE f[BlankAt(q)]
    <3>1. SUFFICES ASSUME NEW q \in 0..n
                   PROVE  f[q] = IF q = Beyond \/ BlankAt(q) = q THEN q ELSE f[BlankAt(q)]
      OBVIOUS
    <3>2. f[q] = IF Blank(q) THEN f[Over(q)] ELSE q
      BY <1>3 DEF Reaches
    <3>3. CASE Blank(q)
      <4>1. q # Beyond /\ BlankAt(q) = Over(q) /\ BlankAt(q) # q
        BY <1>1, <3>3, OverIsBlank
      <4>2. QED
        BY <3>2, <3>3, <4>1
    <3>4. CASE ~Blank(q)
      BY <1>1, <3>2, <3>4, OverIsBlank
    <3>5. QED
      BY <3>3, <3>4
  <2>2. [q \in 0..n |-> f[q]] = [q \in 0..Beyond |-> IF q = Beyond \/ BlankAt(q) = q THEN q ELSE f[BlankAt(q)]]
    BY <1>1, <2>1
  <2>3. QED
    BY <1>3, <2>2 DEF Reaches
<1>5. BlanksEnd = CHOOSE g : E(g)
  BY Zenon DEF BlanksEnd
<1>6. E(BlanksEnd)
  <2>1. E(CHOOSE g : E(g))
    <3> HIDE DEF E
    <3>1. QED
      BY <1>4, Zenon
  <2> HIDE DEF E
  <2>2. QED
    BY <1>5, <2>1, Zenon
<1>7. \A q \in 0..n : BlanksEnd[q] = IF q = Beyond \/ BlankAt(q) = q THEN q ELSE BlanksEnd[BlankAt(q)]
  BY <1>1, <1>6
<1>8. \A q \in 0..n : q \in stops => q \in P
  BY <1>1, <1>7, SpacesEquation, OverIsBlank
<1>9. ASSUME NEW q \in 0..n, q \notin stops, next[q] \in P PROVE q \in P
  <2>1. PICK m : m = Over(q) /\ m \in 0..n /\ BlanksEnd[m] = AfterSpaces[m]
    BY <1>9
  <2>2. Blank(q) /\ q \in 0..Beyond
    BY <1>1, <1>9
  <2>3. BlanksEnd[q] = BlanksEnd[m] /\ AfterSpaces[q] = AfterSpaces[m]
    <3>1. q # Beyond /\ BlankAt(q) = m /\ m # q
      BY <1>1, <2>1, <2>2, OverIsBlank
    <3>2. QED
      BY <1>7, <2>1, <2>2, <3>1, SpacesEquation
  <2>4. QED
    BY <2>1, <2>3
<1>10. 0..n \subseteq P
  <2>1. \A q \in 0..n : q \notin stops /\ next[q] \in P => q \in P
    BY <1>9
  <2> HIDE DEF next, stops, P
  <2>2. QED
    BY <1>1, <1>2, <1>8, <2>1, Onwards
<1>11. QED
  BY <1>1, <1>10

(* What is skipped between two tokens is blanks and whole comments, all of *)
(* them, and only a comment that is never closed runs over the end.        *)
THEOREM LexerSkipsBlanks == LexerSpec => BlanksAreSkipped
<1>1. LexerInv /\ [Next]_vars
        => [phase = "spaces" /\ ~StarComment =>
              IF phase' = "overrun" THEN BlanksEnd[lexer.pos] = Beyond ELSE lexer'.pos = BlanksEnd[lexer.pos]]_vars
  <2> SUFFICES ASSUME LexerInv, Next, phase = "spaces", ~StarComment
               PROVE  IF phase' = "overrun" THEN BlanksEnd[lexer.pos] = Beyond ELSE lexer'.pos = BlanksEnd[lexer.pos]
    OBVIOUS
  <2>1. ConsumeSpaces
    BY ScansOneToken DEF Next, Scans, ParserNext, Peek
  <2>2. PICK n, o, p : n \in Nat /\ n = Len(text) /\ Beyond = n + 1 /\ o = lexer.pos /\ p = AfterSpaces[o]
    BY InvGivesText, Characters
  <2>3. o \in 0..Beyond /\ o \in 0..n /\ InText(lexer)
    BY <2>2 DEF LexerInv, InText
  <2>4. BlanksEnd[o] = p /\ p \in o..Beyond
    BY <2>2, <2>3, InvGivesText, SpacesAreBlanks, SpacesEnd
  <2>5. CASE p = Beyond
    BY <2>1, <2>2, <2>4, <2>5 DEF ConsumeSpaces
  <2>6. CASE p # Beyond
    <3>1. p \in o..n
      BY <2>2, <2>3, <2>4, <2>6
    <3>2. EatTo(lexer, p).pos = p
      BY <2>2, <2>3, <3>1, InvGivesText, EatToIs
    <3>3. phase' = "token" /\ lexer' = EatTo(lexer, p)
      BY <2>1, <2>2, <2>6 DEF ConsumeSpaces
    <3>4. QED
      BY <2>2, <2>4, <3>2, <3>3
  <2>7. QED
    BY <2>5, <2>6
<1>2. QED
  BY <1>1, LexerInvariance, PTL DEF LexerSpec, BlanksAreSkipped
=============================================================================
