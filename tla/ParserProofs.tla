---------------------------- MODULE ParserProofs ----------------------------
(***************************************************************************)
(* The discipline of the parsers' recursion, for any inputs: the calls on  *)
(* the stack are what they should be, and a call that waits does so for    *)
(* one of the functions it calls at that place.                            *)
(*                                                                         *)
(* Each step changes the stack in one of a few ways (Moves): the innermost *)
(* call goes on, makes a call, or returns; or the parse is over.  What     *)
(* actions have to be shown to do is that, action by action; what follows  *)
(* for the stack is shown once for each way.                               *)
(***************************************************************************)
EXTENDS StmtParser, TLAPS

Ptps == {0, 1, 10, 20, 30}

(* Which function makes which call where; the step it waits in is the      *)
(* second of the three.                                                    *)
Waits ==
    {<<"expr", "operand", "expr">>, <<"expr", "operand", "args">>, <<"expr", "index", "expr">>,
     <<"expr", "negate", "expr">>, <<"expr", "combine", "expr">>, <<"expr", "declared", "decl">>,
     <<"args", "argument", "expr">>, <<"statement", "collect", "expr">>,
     <<"var", "defined", "expr">>, <<"var", "element", "expr">>,
     <<"multi", "rest", "expr">>, <<"assign", "operator", "expr">>, <<"assign", "value", "expr">>,
     <<"return", "close", "expr">>, <<"print", "close", "args">>,
     <<"decl", "arrow", "signature">>, <<"decl", "called", "args">>, <<"signature", "parameter", "var">>,
     <<"def", "body", "decl">>, <<"def", "close", "statements">>,
     <<"if", "conditions", "expr">>, <<"if", "then", "statements">>, <<"if", "alternate", "if">>,
     <<"if", "last", "else">>, <<"else", "close", "statements">>,
     <<"while", "open", "expr">>, <<"while", "close", "statements">>,
     <<"for", "range", "expr">>, <<"for", "open", "expr">>, <<"for", "close", "statements">>}
    \cup {<<"parse", "add", fn>> :
            fn \in {"decl", "var", "assign", "multi", "if", "while", "for", "print", "def"}}
    \cup {<<"statements", "add", fn>> :
            fn \in {"decl", "var", "assign", "if", "while", "print", "def", "return"}}

(* The calls there are, by the outermost one: a statement of an expression, *)
(* or donsus_parse, of a program.                                          *)
Exprs         == {"expr", "args", "statement"}
Fns(bottom)   == IF bottom = "parse" THEN Functions ELSE Exprs
Steps(bottom) == IF bottom = "parse" THEN Pcs \cup {"declared"} ELSE Pcs

IsFrame(f, c, end, bottom) ==
    /\ f.fn \in Fns(bottom)
    /\ IF f.fn \in Exprs
       THEN /\ DOMAIN f = {"fn", "pc", "ptp", "left", "op", "args"}
            /\ f.pc \in Steps(bottom) /\ f.ptp \in Ptps /\ f.op \in 0..end
       ELSE /\ DOMAIN f = {"fn", "pc", "at", "args", "body", "alternate", "test"}
            /\ f.at \in 1..c /\ f.test \in 1..9

StackOK(bottom) ==
    /\ \E S : calls \in Seq(S)
    /\ \A i \in DOMAIN calls : IsFrame(calls[i], cur, TheEnd, bottom)
    /\ \A i \in DOMAIN calls : i > 1 => <<calls[i].fn, calls[i].pc, calls[i - 1].fn>> \in Waits
    /\ calls # <<>> => calls[Len(calls)].fn = bottom

(* What is expected of the result: a function whose head or parameter was  *)
(* not parsed has reported it.                                             *)
Expects(f) == \/ f.fn = "def" /\ f.pc = "body"
              \/ f.fn = "signature" /\ f.pc = "parameter"

ParserInv(bottom) ==
    /\ IsInput(input) /\ cur \in 1..TheEnd /\ failed \in BOOLEAN
    /\ StackOK(bottom)
    /\ outcome \in Outcomes /\ (outcome = "running" <=> calls # <<>>)
    /\ (calls # <<>> /\ Expects(top) /\ result = Nothing) => failed
    /\ outcome = "crashed" => failed

-----------------------------------------------------------------------------
(* The ways a step changes the stack.                                      *)
GoesOn(bottom) ==
    \E a : /\ a.fn = top.fn /\ IsFrame(a, cur', TheEnd, bottom) /\ ~Expects(a)
           /\ calls' = <<a>> \o Tail(calls) /\ outcome' = outcome
Calling(bottom) ==
    \E a, b : /\ a.fn = top.fn /\ IsFrame(a, cur', TheEnd, bottom) /\ IsFrame(b, cur', TheEnd, bottom)
              /\ b.pc = "start" /\ <<a.fn, a.pc, b.fn>> \in Waits
              /\ calls' = <<b, a>> \o Tail(calls) /\ outcome' = outcome
Returning ==
    /\ calls' = Tail(calls) /\ top.fn \notin {"parse", "statement"} /\ outcome' = outcome
    /\ (top.fn \in {"decl", "var"} /\ result' = Nothing) => failed'
Staying == calls' = calls /\ ~Expects(top) /\ outcome' = outcome
Stopping ==
    calls' = <<>> /\ outcome' \in Outcomes \ {"running"} /\ (outcome' = "crashed" => failed')

Moves(bottom) ==
    /\ outcome = "running" /\ calls # <<>>
    /\ input' = input /\ cur' \in cur..TheEnd /\ failed' \in BOOLEAN /\ (failed => failed')
    /\ GoesOn(bottom) \/ Calling(bottom) \/ Returning \/ Staying \/ Stopping

-----------------------------------------------------------------------------
(* Each of them keeps the stack what it is.                                *)
LEMMA StackIs ==
    ASSUME NEW bottom, StackOK(bottom), calls # <<>>
    PROVE  /\ Len(calls) \in Nat /\ Len(calls) > 0 /\ DOMAIN calls = 1..Len(calls)
           /\ top = calls[1]
           /\ \E S : calls \in Seq(S)
<1>1. PICK S : calls \in Seq(S)
  BY DEF StackOK
<1>2. QED
  BY <1>1 DEF top

LEMMA StackTop ==
    ASSUME NEW bottom, StackOK(bottom)', calls' # <<>>
    PROVE  top' = calls'[1]
BY DEF StackOK, top

LEMMA Replaced ==
    ASSUME NEW c, NEW S, c \in Seq(S), c # <<>>, NEW a
    PROVE  LET d == <<a>> \o Tail(c)
           IN  /\ \E T : d \in Seq(T)
               /\ Len(d) = Len(c) /\ DOMAIN d = 1..Len(c) /\ d[1] = a /\ d # <<>>
               /\ \A i \in 2..Len(c) : d[i] = c[i]
<1> DEFINE T == S \cup {a}
           r == Tail(c)
<1>1. r \in Seq(T) /\ <<a>> \in Seq(T) /\ Len(r) = Len(c) - 1 /\ \A i \in 1..Len(r) : r[i] = c[i + 1]
  <2>1. r \in Seq(S) /\ Len(r) = Len(c) - 1 /\ \A i \in 1..Len(r) : r[i] = c[i + 1]
    OBVIOUS
  <2>2. QED
    BY <2>1
<1>2. Len(c) \in Nat /\ Len(c) > 0
  OBVIOUS
<1> HIDE DEF T, r
<1> DEFINE d == <<a>> \o r
<1>3. d \in Seq(T) /\ Len(d) = 1 + Len(r) /\ DOMAIN d = 1..(1 + Len(r)) /\ d[1] = a
      /\ \A i \in 2..(1 + Len(r)) : d[i] = r[i - 1]
  BY <1>1
<1> HIDE DEF d
<1>4. QED
  BY <1>1, <1>2, <1>3 DEF d, r

LEMMA Pushed ==
    ASSUME NEW c, NEW S, c \in Seq(S), c # <<>>, NEW a, NEW b
    PROVE  LET d == <<b, a>> \o Tail(c)
           IN  /\ \E T : d \in Seq(T)
               /\ Len(d) = Len(c) + 1 /\ DOMAIN d = 1..(Len(c) + 1) /\ d[1] = b /\ d[2] = a /\ d # <<>>
               /\ \A i \in 3..(Len(c) + 1) : d[i] = c[i - 1]
<1> DEFINE T == S \cup {a, b}
           r == Tail(c)
<1>1. r \in Seq(T) /\ <<b, a>> \in Seq(T) /\ Len(r) = Len(c) - 1 /\ \A i \in 1..Len(r) : r[i] = c[i + 1]
  <2>1. r \in Seq(S) /\ Len(r) = Len(c) - 1 /\ \A i \in 1..Len(r) : r[i] = c[i + 1]
    OBVIOUS
  <2>2. QED
    BY <2>1
<1>2. Len(c) \in Nat /\ Len(c) > 0
  OBVIOUS
<1> HIDE DEF T, r
<1> DEFINE d == <<b, a>> \o r
<1>3. d \in Seq(T) /\ Len(d) = 2 + Len(r) /\ DOMAIN d = 1..(2 + Len(r)) /\ d[1] = b /\ d[2] = a
      /\ \A i \in 3..(2 + Len(r)) : d[i] = r[i - 2]
  BY <1>1
<1> HIDE DEF d
<1>4. QED
  BY <1>1, <1>2, <1>3 DEF d, r

LEMMA Popped ==
    ASSUME NEW c, NEW S, c \in Seq(S), c # <<>>
    PROVE  LET d == Tail(c)
           IN  /\ d \in Seq(S) /\ Len(d) = Len(c) - 1 /\ DOMAIN d = 1..(Len(c) - 1)
               /\ \A i \in 1..(Len(c) - 1) : d[i] = c[i + 1]
OBVIOUS

(* A call stays what it is while the parser moves on.                      *)
LEMMA FramesAge ==
    ASSUME NEW f, NEW bottom, NEW end, NEW c \in Int, NEW d \in Int, c <= d, IsFrame(f, c, end, bottom)
    PROVE  IsFrame(f, d, end, bottom)
<1>1. \A x \in 1..c : x \in 1..d
  OBVIOUS
<1>2. QED
  BY <1>1 DEF IsFrame

LEMMA WaitingIs ==
    /\ \A fn, pc, g : <<fn, pc, g>> \in Waits => g \notin {"parse", "statement"}
    /\ \A fn, pc, g : (<<fn, pc, g>> \in Waits /\ ((fn = "def" /\ pc = "body") \/ (fn = "signature" /\ pc = "parameter")))
         => g \in {"decl", "var"}
BY DEF Waits

LEMMA StackMoves ==
    ASSUME NEW bottom, StackOK(bottom), Moves(bottom), cur \in 1..TheEnd, TheEnd \in Int
    PROVE  StackOK(bottom)'
<1> DEFINE n == Len(calls)
<1>1. PICK S : calls \in Seq(S)
  BY DEF StackOK
<1>2. /\ n \in Nat /\ n > 0 /\ DOMAIN calls = 1..n /\ top = calls[1] /\ calls # <<>>
      /\ calls[n].fn = bottom
      /\ \A i \in 1..n : IsFrame(calls[i], cur, TheEnd, bottom)
      /\ \A i \in 2..n : <<calls[i].fn, calls[i].pc, calls[i - 1].fn>> \in Waits
  <2>1. calls # <<>>
    BY DEF Moves
  <2>2. n \in Nat /\ n > 0 /\ DOMAIN calls = 1..n /\ top = calls[1] /\ calls[n].fn = bottom
    BY <2>1, StackIs DEF StackOK
  <2>3. \A i \in 2..n : i \in DOMAIN calls /\ i > 1
    BY <2>2
  <2>4. \A i \in 2..n : <<calls[i].fn, calls[i].pc, calls[i - 1].fn>> \in Waits
    BY <2>3 DEF StackOK
  <2>5. QED
    BY <2>1, <2>2, <2>4 DEF StackOK
<1>3. TheEnd' = TheEnd /\ cur' \in Int /\ cur \in Int /\ cur <= cur'
  BY DEF Moves, TheEnd
<1>4. \A i \in 1..n : IsFrame(calls[i], cur', TheEnd, bottom)
  BY <1>2, <1>3, FramesAge
<1>5. CASE GoesOn(bottom)
  <2>1. PICK a : /\ a.fn = top.fn /\ IsFrame(a, cur', TheEnd, bottom)
                 /\ calls' = <<a>> \o Tail(calls)
    BY <1>5 DEF GoesOn
  <2>2. /\ \E T : calls' \in Seq(T)
        /\ Len(calls') = n /\ DOMAIN calls' = 1..n /\ calls'[1] = a
        /\ \A i \in 2..n : calls'[i] = calls[i]
    BY <1>1, <1>2, <2>1, Replaced
  <2>3. \A i \in 1..n : IsFrame(calls'[i], cur', TheEnd, bottom) /\ calls'[i].fn = calls[i].fn
    BY <1>2, <1>4, <2>1, <2>2
  <2>4. \A i \in 2..n : <<calls'[i].fn, calls'[i].pc, calls'[i - 1].fn>> \in Waits
    <3>1. \A i \in 2..n : i - 1 \in 1..n /\ i \in 1..n
      BY <1>2
    <3>2. QED
      BY <1>2, <2>2, <2>3, <3>1
  <2> HIDE DEF n
  <2>5. QED
    BY <1>2, <1>3, <2>2, <2>3, <2>4 DEF StackOK
<1>6. CASE Calling(bottom)
  <2>1. PICK a, b : /\ a.fn = top.fn /\ IsFrame(a, cur', TheEnd, bottom) /\ IsFrame(b, cur', TheEnd, bottom)
                    /\ <<a.fn, a.pc, b.fn>> \in Waits
                    /\ calls' = <<b, a>> \o Tail(calls)
    BY <1>6 DEF Calling
  <2>2. /\ \E T : calls' \in Seq(T)
        /\ Len(calls') = n + 1 /\ DOMAIN calls' = 1..(n + 1) /\ calls'[1] = b /\ calls'[2] = a
        /\ \A i \in 3..(n + 1) : calls'[i] = calls[i - 1]
    BY <1>1, <1>2, <2>1, Pushed
  <2>3. \A i \in 1..(n + 1) : IsFrame(calls'[i], cur', TheEnd, bottom)
    <3>1. \A i \in 1..(n + 1) : i = 1 \/ i = 2 \/ (i \in 3..(n + 1) /\ i - 1 \in 1..n)
      BY <1>2
    <3>2. QED
      BY <1>4, <2>1, <2>2, <3>1
  <2>4. \A i \in 2..(n + 1) : calls'[i].fn = calls[i - 1].fn
    BY <1>2, <2>1, <2>2
  <2>5. \A i \in 2..(n + 1) : <<calls'[i].fn, calls'[i].pc, calls'[i - 1].fn>> \in Waits
    <3>1. \A i \in 3..(n + 1) : i - 1 \in 2..n /\ (i - 1) - 1 = i - 2 /\ i - 1 \in 2..(n + 1)
      BY <1>2
    <3>2. \A i \in 3..(n + 1) : calls'[i] = calls[i - 1] /\ calls'[i - 1].fn = calls[(i - 1) - 1].fn
      BY <2>2, <2>4, <3>1
    <3>3. \A i \in 3..(n + 1) : <<calls'[i].fn, calls'[i].pc, calls'[i - 1].fn>> \in Waits
      BY <1>2, <3>1, <3>2
    <3>4. <<calls'[2].fn, calls'[2].pc, calls'[2 - 1].fn>> \in Waits
      <4>1. calls'[2] = a /\ calls'[2 - 1] = b
        BY <2>2
      <4>2. QED
        BY <2>1, <4>1
    <3>5. \A i \in 2..(n + 1) : i = 2 \/ i \in 3..(n + 1)
      BY <1>2
    <3>6. QED
      BY <3>3, <3>4, <3>5
  <2>6. calls'[n + 1].fn = bottom
    BY <1>2, <2>4
  <2> HIDE DEF n
  <2>7. QED
    BY <1>2, <1>3, <2>2, <2>3, <2>5, <2>6 DEF StackOK
<1>7. CASE Returning
  <2>1. /\ calls' \in Seq(S) /\ Len(calls') = n - 1 /\ DOMAIN calls' = 1..(n - 1)
        /\ \A i \in 1..(n - 1) : calls'[i] = calls[i + 1]
    BY <1>1, <1>2, <1>7, Popped DEF Returning
  <2>2. \A i \in 1..(n - 1) : IsFrame(calls'[i], cur', TheEnd, bottom)
    BY <1>2, <1>4, <2>1
  <2>3. \A i \in 2..(n - 1) : <<calls'[i].fn, calls'[i].pc, calls'[i - 1].fn>> \in Waits
    <3>1. \A i \in 2..(n - 1) : i + 1 \in 2..n /\ (i + 1) - 1 = i /\ (i - 1) + 1 = i /\ i \in 1..(n - 1) /\ i - 1 \in 1..(n - 1)
      BY <1>2
    <3>2. \A i \in 2..(n - 1) : calls'[i] = calls[i + 1] /\ calls'[i - 1] = calls[i]
      BY <2>1, <3>1
    <3>3. QED
      BY <1>2, <3>1, <3>2
  <2>4. calls' # <<>> => calls'[Len(calls')].fn = bottom
    <3>1. calls' # <<>> => n - 1 \in 1..(n - 1)
      BY <1>2, <2>1
    <3>2. QED
      BY <1>2, <2>1, <3>1
  <2> HIDE DEF n
  <2>5. QED
    BY <1>2, <1>3, <2>1, <2>2, <2>3, <2>4 DEF StackOK
<1>8. CASE Staying
  BY <1>1, <1>2, <1>3, <1>4, <1>8 DEF Staying, StackOK
<1>9. CASE Stopping
  <2>1. calls' = <<>>
    BY <1>9 DEF Stopping
  <2>2. calls' \in Seq({})
    BY <2>1
  <2>3. QED
    BY <2>1, <2>2 DEF StackOK
<1>10. QED
  BY <1>5, <1>6, <1>7, <1>8, <1>9 DEF Moves

LEMMA EndIs ==
    ASSUME IsInput(input)
    PROVE  TheEnd \in Int /\ TheEnd >= 1
BY DEF IsInput, TheEnd

LEMMA MovesKeep ==
    ASSUME NEW bottom \in {"parse", "statement"}, ParserInv(bottom), Moves(bottom)
    PROVE  ParserInv(bottom)'
<1>1. TheEnd \in Int /\ TheEnd' = TheEnd /\ IsInput(input)' /\ cur' \in 1..TheEnd
  BY EndIs DEF ParserInv, Moves, TheEnd, IsInput
<1>2. StackOK(bottom)'
  BY <1>1, StackMoves DEF ParserInv
<1>3. /\ calls # <<>> /\ Len(calls) \in Nat /\ Len(calls) > 0 /\ DOMAIN calls = 1..Len(calls)
      /\ top = calls[1] /\ calls[Len(calls)].fn = bottom
      /\ \A i \in 2..Len(calls) : <<calls[i].fn, calls[i].pc, calls[i - 1].fn>> \in Waits
  <2>1. calls # <<>> /\ StackOK(bottom)
    BY DEF Moves, ParserInv
  <2>2. /\ Len(calls) \in Nat /\ Len(calls) > 0 /\ DOMAIN calls = 1..Len(calls)
        /\ top = calls[1] /\ calls[Len(calls)].fn = bottom
    BY <2>1, StackIs DEF StackOK
  <2>3. \A i \in 2..Len(calls) : i \in DOMAIN calls /\ i > 1
    BY <2>2
  <2>4. QED
    BY <2>1, <2>2, <2>3 DEF StackOK
<1>4. PICK S : calls \in Seq(S)
  BY DEF ParserInv, StackOK
<1>5. /\ outcome' \in Outcomes /\ (outcome' = "running" <=> calls' # <<>>)
      /\ (calls' # <<>> /\ Expects(top)' /\ result' = Nothing) => failed'
      /\ outcome' = "crashed" => failed'
  <2>1. outcome = "running"
    BY DEF Moves
  <2>2. CASE GoesOn(bottom)
    <3>1. PICK a : ~Expects(a) /\ calls' = <<a>> \o Tail(calls) /\ outcome' = outcome
      BY <2>2 DEF GoesOn
    <3>2. calls' # <<>> /\ calls'[1] = a
      BY <1>3, <1>4, <3>1, Replaced
    <3>3. top' = a
      BY <1>2, <3>2, StackTop DEF Expects
    <3>4. QED
      BY <2>1, <3>1, <3>2, <3>3 DEF Expects, Outcomes
  <2>3. CASE Calling(bottom)
    <3>1. PICK a, b : b.pc = "start" /\ calls' = <<b, a>> \o Tail(calls) /\ outcome' = outcome
      BY <2>3 DEF Calling
    <3>2. calls' # <<>> /\ calls'[1] = b
      BY <1>3, <1>4, <3>1, Pushed
    <3>3. top' = b
      BY <1>2, <3>2, StackTop
    <3>4. QED
      BY <2>1, <3>1, <3>2, <3>3 DEF Expects, Outcomes
  <2>4. CASE Returning
    <3>1. /\ calls' = Tail(calls) /\ outcome' = outcome /\ top.fn # bottom
          /\ (top.fn \in {"decl", "var"} /\ result' = Nothing) => failed'
      BY <2>4 DEF Returning
    <3>2. Len(calls') = Len(calls) - 1 /\ \A i \in 1..(Len(calls) - 1) : calls'[i] = calls[i + 1]
      BY <1>3, <1>4, <3>1, Popped
    <3>3. Len(calls) # 1
      BY <1>3, <3>1
    <3>4. 1 \in 1..(Len(calls) - 1) /\ 2 \in 2..Len(calls) /\ calls' # <<>>
      BY <1>3, <3>2, <3>3
    <3>5. top' = calls[2]
      BY <1>2, <3>2, <3>4, StackTop
    <3>6. <<calls[2].fn, calls[2].pc, top.fn>> \in Waits
      BY <1>3, <3>4
    <3>7. Expects(calls[2]) => top.fn \in {"decl", "var"}
      BY <3>6, WaitingIs DEF Expects
    <3>8. QED
      BY <2>1, <3>1, <3>4, <3>5, <3>7 DEF Expects, Outcomes
  <2>5. CASE Staying
    BY <1>3, <2>1, <2>5 DEF Staying, Expects, top, Outcomes
  <2>6. CASE Stopping
    BY <2>6 DEF Stopping, Outcomes
  <2>7. QED
    BY <2>2, <2>3, <2>4, <2>5, <2>6 DEF Moves
<1>6. QED
  BY <1>1, <1>2, <1>5 DEF ParserInv, Moves

-----------------------------------------------------------------------------
(* The operators actions are written with.                                 *)
Ready(bottom) ==
    /\ outcome = "running" /\ calls # <<>> /\ IsFrame(top, cur, TheEnd, bottom)
    /\ cur \in 1..TheEnd /\ TheEnd \in Int /\ failed \in BOOLEAN
    /\ (Expects(top) /\ result = Nothing) => failed

LEMMA ReadyIs ==
    ASSUME NEW bottom, ParserInv(bottom), outcome = "running" \/ calls # <<>>
    PROVE  Ready(bottom)
<1>1. calls # <<>> /\ outcome = "running" /\ StackOK(bottom) /\ TheEnd \in Int
  BY EndIs DEF ParserInv
<1>2. 1 \in DOMAIN calls /\ top = calls[1]
  BY <1>1, StackIs
<1>3. QED
  BY <1>1, <1>2 DEF ParserInv, Ready, StackOK

LEMMA SkipMoves ==
    ASSUME NEW bottom, Ready(bottom), NEW n \in Nat, Skip(n)
    PROVE  cur' \in cur..TheEnd
BY DEF Ready, Skip

LEMMA FrameIs ==
    ASSUME NEW bottom, NEW fn \in {"expr", "args"}, NEW p \in Ptps, NEW c, NEW end \in Nat
    PROVE  /\ IsFrame(Frame(fn, p), c, end, bottom)
           /\ Frame(fn, p).fn = fn /\ Frame(fn, p).pc = "start"
BY DEF IsFrame, Frame, Fns, Exprs, Functions, Steps, Pcs, Ptps

LEMMA StmtIs ==
    ASSUME NEW fn \in Functions \ Exprs, NEW c, NEW at \in 1..c, NEW end
    PROVE  /\ IsFrame(Stmt(fn, at), c, end, "parse")
           /\ Stmt(fn, at).fn = fn /\ Stmt(fn, at).pc = "start"
BY DEF IsFrame, Stmt, Fns, Functions

(* A call that goes on is the same call at another step.                   *)
LEMMA StepTaken ==
    ASSUME NEW bottom, NEW f, NEW c, NEW end, IsFrame(f, c, end, bottom), NEW pc,
           f.fn \in Exprs => pc \in Steps(bottom)
    PROVE  LET g == [f EXCEPT !.pc = pc]
           IN  IsFrame(g, c, end, bottom) /\ g.fn = f.fn /\ g.pc = pc
BY DEF IsFrame

LEMMA GotoGoesOn ==
    ASSUME NEW bottom, Ready(bottom), cur' \in cur..TheEnd, outcome' = outcome,
           NEW pc, pc \notin {"body", "parameter"}, Goto(pc), top.fn \in Exprs => pc \in Steps(bottom)
    PROVE  GoesOn(bottom)
<1>1. IsFrame(top, cur', TheEnd, bottom)
  BY FramesAge DEF Ready
<1> DEFINE a == [top EXCEPT !.pc = pc]
<1>2. IsFrame(a, cur', TheEnd, bottom) /\ a.fn = top.fn /\ a.pc = pc
  BY <1>1, StepTaken DEF a
<1>3. calls' = <<a>> \o Tail(calls)
  BY DEF Goto, a
<1> HIDE DEF a
<1>4. ~Expects(a)
  BY <1>2 DEF Expects
<1>5. QED
  BY <1>2, <1>3, <1>4 DEF GoesOn

LEMMA CallThenCalls ==
    ASSUME NEW bottom, Ready(bottom), cur' \in cur..TheEnd, outcome' = outcome,
           NEW fn \in {"expr", "args"}, NEW p \in Ptps, NEW pc, CallThen(fn, p, pc),
           <<top.fn, pc, fn>> \in Waits, top.fn \in Exprs => pc \in Steps(bottom)
    PROVE  Calling(bottom)
<1>1. IsFrame(top, cur', TheEnd, bottom) /\ TheEnd \in Nat
  BY FramesAge DEF Ready
<1> DEFINE a == [top EXCEPT !.pc = pc]
           b == Frame(fn, p)
<1>2. IsFrame(a, cur', TheEnd, bottom) /\ a.fn = top.fn /\ a.pc = pc
  BY <1>1, StepTaken DEF a
<1>3. IsFrame(b, cur', TheEnd, bottom) /\ b.fn = fn /\ b.pc = "start"
  BY <1>1, FrameIs DEF b
<1>4. calls' = <<b, a>> \o Tail(calls)
  BY DEF CallThen, a, b
<1> HIDE DEF a, b
<1>5. QED
  BY <1>2, <1>3, <1>4 DEF Calling

LEMMA DescendCalls ==
    ASSUME Ready("parse"), cur' \in cur..TheEnd, outcome' = outcome,
           NEW fn \in Functions \ Exprs, NEW pc, Descend(fn, pc),
           <<top.fn, pc, fn>> \in Waits, top.fn \in Exprs => pc \in Steps("parse")
    PROVE  Calling("parse")
<1>1. IsFrame(top, cur', TheEnd, "parse") /\ cur' \in 1..cur'
  BY FramesAge DEF Ready
<1> DEFINE a == [top EXCEPT !.pc = pc]
           b == Stmt(fn, cur')
<1>2. IsFrame(a, cur', TheEnd, "parse") /\ a.fn = top.fn /\ a.pc = pc
  BY <1>1, StepTaken DEF a
<1>3. IsFrame(b, cur', TheEnd, "parse") /\ b.fn = fn /\ b.pc = "start"
  BY <1>1, StmtIs DEF b
<1>4. calls' = <<b, a>> \o Tail(calls)
  BY DEF Descend, a, b
<1> HIDE DEF a, b
<1>5. QED
  BY <1>2, <1>3, <1>4 DEF Calling

LEMMA ReturnReturns ==
    ASSUME NEW tree, Return(tree), outcome' = outcome, top.fn \notin {"parse", "statement", "decl", "var"}
    PROVE  Returning
BY DEF Return, Returning

(* What else a step does.                                                  *)
Advances ==
    /\ input' = input /\ outcome' = outcome /\ cur' \in cur..TheEnd
    /\ failed' \in BOOLEAN /\ (failed => failed')

LEMMA AdvancesMoves ==
    ASSUME NEW bottom, Ready(bottom), Advances,
           GoesOn(bottom) \/ Calling(bottom) \/ Returning \/ Staying
    PROVE  Moves(bottom)
BY DEF Ready, Advances, Moves

LEMMA PrecedencesAre == \A k : Precedences(k) \subseteq Ptps
<1> SUFFICES ASSUME NEW k PROVE Precedences(k) \subseteq Ptps
  OBVIOUS
<1>1. Precedence(k) \in {0, 1, 10, 20}
  BY DEF Precedence
<1>2. QED
  BY <1>1 DEF Precedences, Ptps

-----------------------------------------------------------------------------
(* The expressions.                                                        *)
LEMMA ExprAdvances ==
    ASSUME NEW bottom, Ready(bottom), ExprNext
    PROVE  Advances /\ list' = list
<1>1. cur \in cur..TheEnd /\ failed \in BOOLEAN
  BY DEF Ready
<1>2. \A n \in Nat : Skip(n) => cur' \in cur..TheEnd
  BY SkipMoves
<1>3. CASE Parenthesis \/ Operand \/ Callee \/ ArrayAccess \/ Indexed \/ Unary \/ Negated \/ Invalid
  BY <1>1, <1>2, <1>3 DEF Advances, Parenthesis, Operand, Callee, ArrayAccess, Indexed, Unary, Negated, Invalid
<1>4. CASE Shift \/ RightOperand \/ Combine \/ LoopEnds \/ NextArgument \/ Argument \/ ArgumentsEnd
  BY <1>1, <1>2, <1>4 DEF Advances, Shift, RightOperand, Combine, LoopEnds, NextArgument, Argument, ArgumentsEnd
<1>5. QED
  BY <1>3, <1>4 DEF ExprNext

LEMMA ExprMoves ==
    ASSUME NEW bottom \in {"parse", "statement"}, ParserInv(bottom), ExprNext
    PROVE  Moves(bottom) /\ list' = list
<1>1. /\ outcome = "running" /\ calls # <<>> /\ top.fn \in {"expr", "args"}
  BY DEF ExprNext, Running, Parenthesis, Operand, Callee, ArrayAccess, Indexed, Unary, Negated, Invalid,
         Shift, RightOperand, Combine, LoopEnds, NextArgument, Argument, ArgumentsEnd
<1>2. Ready(bottom)
  BY <1>1, ReadyIs
<1>3. Advances /\ list' = list
  BY <1>2, ExprAdvances
<1>4. cur' \in cur..TheEnd /\ outcome' = outcome /\ cur \in Int /\ TheEnd \in Int /\ cur >= 1
  BY <1>2, <1>3 DEF Advances, Ready
<1>5. Pcs \subseteq Steps(bottom)
  BY DEF Steps
<1>6. top.ptp \in Ptps /\ 0 \in Ptps /\ {"expr", "args"} \subseteq Exprs
  BY <1>1, <1>2 DEF Ready, IsFrame, Ptps, Exprs
<1>7. CASE Parenthesis \/ Callee \/ ArrayAccess \/ Unary
  <2>1. \E fn \in {"expr", "args"}, p \in Ptps, pc \in {"operand", "index", "negate"} :
           CallThen(fn, p, pc) /\ <<top.fn, pc, fn>> \in Waits
    BY <1>6, <1>7 DEF Parenthesis, Callee, ArrayAccess, Unary, ParenPtp, Running, Waits
  <2>2. {"operand", "index", "negate"} \subseteq Pcs
    BY DEF Pcs
  <2>3. Calling(bottom)
    BY <1>2, <1>4, <1>5, <2>1, <2>2, CallThenCalls
  <2>4. QED
    BY <1>2, <1>3, <2>3, AdvancesMoves
<1>8. CASE Operand
  <2>1. "operand" \in Pcs /\ "operand" \notin {"body", "parameter"}
    BY DEF Pcs
  <2>2. GoesOn(bottom)
    BY <1>2, <1>4, <1>5, <1>8, <2>1, GotoGoesOn DEF Operand
  <2>3. QED
    BY <1>2, <1>3, <2>2, AdvancesMoves
<1>9. CASE Indexed \/ Negated \/ Invalid \/ LoopEnds \/ ArgumentsEnd
  <2>1. \E tree : Return(tree)
    BY <1>9 DEF Indexed, Negated, Invalid, LoopEnds, ArgumentsEnd
  <2>2. QED
    BY <1>1, <1>2, <1>3, <1>4, <2>1, ReturnReturns, AdvancesMoves
<1>10. CASE Shift
  <2>1. CASE \E tree : Return(tree)
    BY <1>1, <1>2, <1>3, <1>4, <2>1, ReturnReturns, AdvancesMoves
  <2>2. CASE calls' = <<[top EXCEPT !.pc = "loop", !.left = result, !.op = cur']>> \o Tail(calls)
    <3> DEFINE a == [top EXCEPT !.pc = "loop", !.left = result, !.op = cur']
    <3>1. IsFrame(top, cur, TheEnd, bottom) /\ "loop" \in Steps(bottom) /\ cur' \in 0..TheEnd
      BY <1>2, <1>4 DEF Ready, Steps, Pcs
    <3>2. a.fn = top.fn /\ IsFrame(a, cur', TheEnd, bottom) /\ a.fn \notin {"def", "signature"}
      BY <1>1, <1>6, <3>1 DEF IsFrame
    <3> HIDE DEF a
    <3>3. GoesOn(bottom)
      BY <1>4, <2>2, <3>2 DEF GoesOn, Expects, a
    <3>4. QED
      BY <1>2, <1>3, <3>3, AdvancesMoves
  <2>3. QED
    BY <1>10, <2>1, <2>2 DEF Shift
<1>11. CASE RightOperand
  <2>1. \E p \in Ptps : CallThen("expr", p, "combine")
    BY <1>11, PrecedencesAre DEF RightOperand
  <2>2. top.fn = "expr" /\ <<"expr", "combine", "expr">> \in Waits /\ "combine" \in Pcs
    BY <1>11 DEF RightOperand, Running, Waits, Pcs
  <2>3. Calling(bottom)
    BY <1>2, <1>4, <1>5, <2>1, <2>2, CallThenCalls
  <2>4. QED
    BY <1>2, <1>3, <2>3, AdvancesMoves
<1>12. CASE Combine
  <2>1. CASE \E tree : Return(tree)
    BY <1>1, <1>2, <1>3, <1>4, <2>1, ReturnReturns, AdvancesMoves
  <2>2. CASE \E left : calls' = <<[top EXCEPT !.pc = "loop", !.left = left, !.op = cur]>> \o Tail(calls)
    <3>1. PICK left : calls' = <<[top EXCEPT !.pc = "loop", !.left = left, !.op = cur]>> \o Tail(calls)
      BY <2>2
    <3> DEFINE a == [top EXCEPT !.pc = "loop", !.left = left, !.op = cur]
    <3>2. IsFrame(top, cur, TheEnd, bottom) /\ "loop" \in Steps(bottom) /\ cur \in 0..TheEnd
      BY <1>2, <1>4 DEF Ready, Steps, Pcs
    <3>3. a.fn = top.fn /\ IsFrame(a, cur', TheEnd, bottom) /\ a.fn \notin {"def", "signature"}
      BY <1>1, <1>6, <3>2 DEF IsFrame
    <3> HIDE DEF a
    <3>4. GoesOn(bottom)
      BY <1>4, <3>1, <3>3 DEF GoesOn, Expects, a
    <3>5. QED
      BY <1>2, <1>3, <3>4, AdvancesMoves
  <2>3. QED
    BY <1>12, <2>1, <2>2 DEF Combine
<1>13. CASE NextArgument
  <2>1. top.fn = "args" /\ <<"args", "argument", "expr">> \in Waits /\ "argument" \in Pcs
        /\ CallThen("expr", 0, "argument")
    BY <1>13 DEF NextArgument, Running, Waits, Pcs
  <2>2. Calling(bottom)
    BY <1>2, <1>4, <1>5, <1>6, <2>1, CallThenCalls
  <2>3. QED
    BY <1>2, <1>3, <2>2, AdvancesMoves
<1>14. CASE Argument
  <2> DEFINE a == [top EXCEPT !.pc = "start", !.args = Remember(@, result)]
  <2>1. IsFrame(top, cur, TheEnd, bottom) /\ "start" \in Steps(bottom) /\ calls' = <<a>> \o Tail(calls)
    BY <1>2, <1>14 DEF Ready, Steps, Pcs, Argument
  <2>2. a.fn = top.fn /\ IsFrame(a, cur', TheEnd, bottom) /\ a.fn \notin {"def", "signature"}
    BY <1>1, <1>6, <2>1 DEF IsFrame
  <2> HIDE DEF a
  <2>3. GoesOn(bottom)
    BY <1>4, <2>1, <2>2 DEF GoesOn, Expects
  <2>4. QED
    BY <1>2, <1>3, <2>3, AdvancesMoves
<1>15. QED
  BY <1>3, <1>7, <1>8, <1>9, <1>10, <1>11, <1>12, <1>13, <1>14 DEF ExprNext

LEMMA StatementMoves ==
    ASSUME ParserInv("statement"), StatementCalls \/ StatementCollects \/ StatementEnds
    PROVE  Moves("statement")
<1>1. outcome = "running" /\ calls # <<>> /\ top.fn = "statement"
  BY DEF StatementCalls, StatementCollects, StatementEnds, Running
<1>2. Ready("statement")
  BY <1>1, ReadyIs
<1>3. cur \in cur..TheEnd /\ failed \in BOOLEAN /\ \A n \in Nat : Skip(n) => cur' \in cur..TheEnd
  BY <1>2, SkipMoves DEF Ready
<1>4. Pcs = Steps("statement") /\ {"start", "end", "collect"} \subseteq Pcs /\ 0 \in Ptps
  BY DEF Steps, Pcs, Ptps
<1>5. CASE StatementCalls
  <2>1. Advances /\ CallThen("expr", 0, "collect")
    BY <1>3, <1>5 DEF StatementCalls, Advances
  <2>2. Calling("statement")
    BY <1>1, <1>2, <1>4, <2>1, CallThenCalls DEF Advances, Waits
  <2>3. QED
    BY <1>2, <2>1, <2>2, AdvancesMoves
<1>6. CASE StatementCollects
  <2>1. Advances /\ \E pc \in {"start", "end"} : Goto(pc)
    BY <1>3, <1>6 DEF StatementCollects, Advances
  <2>2. GoesOn("statement")
    BY <1>2, <1>4, <2>1, GotoGoesOn DEF Advances
  <2>3. QED
    BY <1>2, <2>1, <2>2, AdvancesMoves
<1>7. CASE StatementEnds
  <2>1. Stopping /\ failed' \in BOOLEAN /\ (failed => failed') /\ input' = input /\ cur' = cur
    BY <1>7 DEF StatementEnds, Stopping, Outcomes
  <2>2. QED
    BY <1>1, <1>3, <2>1 DEF Moves
<1>8. QED
  BY <1>5, <1>6, <1>7

(* What a parser starts with.                                              *)
LEMMA InitKeeps ==
    ASSUME NEW bottom \in {"parse", "statement"}, NEW f, f.fn = bottom, ~Expects(f),
           input \in Inputs, cur = 1, calls = <<f>>, failed = FALSE, outcome = "running",
           IsFrame(f, 1, TheEnd, bottom)
    PROVE  ParserInv(bottom)
<1>1. IsInput(input)
  BY InputAssumption
<1>2. calls \in Seq({f}) /\ Len(calls) = 1 /\ DOMAIN calls = {1} /\ calls[1] = f /\ top = f
  BY DEF top
<1>3. StackOK(bottom)
  <2>1. IsFrame(calls[1], cur, TheEnd, bottom) /\ calls[Len(calls)].fn = bottom
    BY <1>2
  <2>2. \A i \in DOMAIN calls : i = 1 /\ ~(i > 1)
    BY <1>2
  <2>3. QED
    BY <1>2, <2>1, <2>2 DEF StackOK
<1>4. calls # <<>> /\ ~Expects(top)
  BY <1>2 DEF Expects
<1>5. cur \in 1..TheEnd
  BY <1>1, EndIs
<1>6. QED
  BY <1>1, <1>3, <1>4, <1>5 DEF ParserInv, Outcomes

LEMMA RememberIs ==
    ASSUME NEW S, NEW s \in Seq(S), Len(s) <= 3, NEW tree
    PROVE  Remember(s, tree) \in Seq(S \cup {tree}) /\ Len(Remember(s, tree)) <= 3
<1>1. s \in Seq(S \cup {tree}) /\ Len(s) \in Nat
  OBVIOUS
<1>2. QED
  BY <1>1 DEF Remember

(* The parser of an expression in its statement.                           *)
ExprInv ==
    /\ ParserInv("statement")
    /\ \E S : list \in Seq(S)
    /\ Len(list) <= 3
    /\ outcome \in {"running", "accepted", "rejected"}

(* donsus_expr keeps the invariant from the first token on, whatever the    *)
(* input: also no more is remembered than the three trees the statement    *)
(* keeps, and an expression alone never dereferences a missing tree.       *)
THEOREM ExprInvariance == Spec => []ExprInv
<1>1. Init => ExprInv
  <2> SUFFICES ASSUME Init PROVE ExprInv
    OBVIOUS
  <2>1. IsInput(input)
    BY InputAssumption DEF Init
  <2>2. LET f == Frame("statement", 0) IN f.fn = "statement" /\ ~Expects(f) /\ IsFrame(f, 1, TheEnd, "statement")
    BY <2>1, EndIs DEF Frame, IsFrame, Fns, Exprs, Steps, Pcs, Ptps, Expects
  <2>3. ParserInv("statement")
    BY <2>2, InitKeeps DEF Init
  <2>4. list \in Seq({}) /\ Len(list) = 0
    BY DEF Init
  <2>5. QED
    BY <2>3, <2>4 DEF ExprInv, Init
<1>2. ExprInv /\ [Next]_vars => ExprInv'
  <2> SUFFICES ASSUME ExprInv, [Next]_vars PROVE ExprInv'
    OBVIOUS
  <2>1. CASE UNCHANGED vars
    BY <2>1 DEF vars, ExprInv, ParserInv, StackOK, Expects, top, TheEnd
  <2>2. CASE ExprNext
    <3>1. Moves("statement") /\ list' = list
      BY <2>2, ExprMoves DEF ExprInv
    <3>2. ParserInv("statement")'
      BY <3>1, MovesKeep DEF ExprInv
    <3>3. Ready("statement")
      BY <3>1, ReadyIs DEF ExprInv, Moves
    <3>4. outcome' = outcome
      BY <2>2, <3>3, ExprAdvances DEF Advances
    <3>5. QED
      BY <3>1, <3>2, <3>4 DEF ExprInv
  <2>3. CASE StatementCalls \/ StatementCollects \/ StatementEnds
    <3>1. ParserInv("statement")'
      BY <2>3, StatementMoves, MovesKeep DEF ExprInv
    <3>2. PICK S : list \in Seq(S)
      BY DEF ExprInv
    <3>3. list' \in Seq(S \cup {result}) /\ Len(list') <= 3
      <4>1. list' = list \/ list' = Remember(list, result)
        BY <2>3 DEF StatementCalls, StatementCollects, StatementEnds
      <4>2. Len(list) <= 3 /\ list \in Seq(S \cup {result})
        BY <3>2 DEF ExprInv
      <4>3. QED
        BY <3>2, <4>1, <4>2, RememberIs
    <3>4. outcome' \in {"running", "accepted", "rejected"}
      BY <2>3 DEF ExprInv, StatementCalls, StatementCollects, StatementEnds
    <3>5. QED
      BY <3>1, <3>3, <3>4 DEF ExprInv
  <2>4. QED
    BY <2>1, <2>2, <2>3 DEF Next
<1>3. QED
  BY <1>1, <1>2, PTL DEF Spec

(* What the invariant says of the calls on the stack.                      *)
LEMMA BottomIs ==
    ASSUME NEW bottom \in {"parse", "statement"}, StackOK(bottom)
    PROVE  \A f \in DOMAIN calls : /\ IsFrame(calls[f], cur, TheEnd, bottom)
                                   /\ calls[f].fn = bottom <=> f = Len(calls)
<1> SUFFICES ASSUME NEW f \in DOMAIN calls, IsFrame(calls[f], cur, TheEnd, bottom)
             PROVE  calls[f].fn = bottom <=> f = Len(calls)
  BY DEF StackOK
<1>1. calls # <<>>
  BY DEF StackOK
<1>2. Len(calls) \in Nat /\ DOMAIN calls = 1..Len(calls) /\ calls[Len(calls)].fn = bottom
  BY <1>1, StackIs DEF StackOK
<1>3. CASE f # Len(calls)
  <2>1. f + 1 \in DOMAIN calls /\ f + 1 > 1 /\ (f + 1) - 1 = f
    BY <1>2, <1>3
  <2>2. <<calls[f + 1].fn, calls[f + 1].pc, calls[f].fn>> \in Waits
    BY <2>1 DEF StackOK
  <2>3. QED
    BY <1>3, <2>2, WaitingIs
<1>4. QED
  BY <1>2, <1>3

(* The recursion of donsus_expr keeps its discipline on any input: the     *)
(* cursor stays in the input, the statement is the outermost call, and     *)
(* each call is in one of its steps, with an operator of the input.        *)
THEOREM ExprTypeCorrect == Spec => []TypeOK
<1>1. ExprInv => TypeOK
  <2> SUFFICES ASSUME ExprInv PROVE TypeOK
    OBVIOUS
  <2>1. \A f \in DOMAIN calls : /\ IsFrame(calls[f], cur, TheEnd, "statement")
                                /\ calls[f].fn = "statement" <=> f = Len(calls)
    BY BottomIs DEF ExprInv, ParserInv
  <2>2. \A f \in DOMAIN calls : /\ calls[f].fn \in {"expr", "args", "statement"} /\ calls[f].pc \in Pcs
                                /\ calls[f].ptp \in {0, 1, 10, 20, 30} /\ calls[f].op \in 0..TheEnd
    BY <2>1 DEF IsFrame, Fns, Steps, Exprs, Ptps
  <2>3. QED
    BY <2>1, <2>2 DEF TypeOK, ExprInv, ParserInv
<1>2. QED
  BY <1>1, ExprInvariance, PTL

-----------------------------------------------------------------------------
(* The statements.                                                         *)
LEMMA TopFnIs ==
    TopFn \in {"decl", "var", "assign", "multi", "if", "while", "for", "print", "def", "none"}
BY DEF TopFn

LEMMA BodyFnIs ==
    \A t : BodyFn(t) \in {"def", "print", "decl", "var", "while", "if", "assign", "return", "none"}
BY DEF BodyFn

LEMMA ArrayTypeEndIs == ArrayTypeEnd \in {5, 6, 7}
BY DEF ArrayTypeEnd

LEMMA YieldReturns ==
    ASSUME NEW name, name # "nothing", NEW trees, Yield(name, trees), outcome' = outcome,
           top.fn \notin {"parse", "statement"}
    PROVE  Returning
<1>1. result' = [Node(name, trees) EXCEPT !.value = TokenAt(top.at).value] /\ calls' = Tail(calls)
  BY DEF Yield, Return
<1>2. result'.op = name
  BY <1>1 DEF Node
<1>3. Nothing.op = "nothing"
  BY DEF Nothing, Node
<1>4. QED
  BY <1>1, <1>2, <1>3 DEF Returning

(* A statement's call that notes what it has met.                          *)
LEMMA IntoGoesOn ==
    ASSUME Ready("parse"), cur' \in cur..TheEnd, outcome' = outcome, top.fn \notin Exprs,
           NEW a, Into(a), a.fn = top.fn, DOMAIN a = DOMAIN top, a.at = top.at, a.test \in 1..9, ~Expects(a)
    PROVE  GoesOn("parse")
<1>1. IsFrame(top, cur', TheEnd, "parse")
  BY FramesAge DEF Ready
<1>2. IsFrame(a, cur', TheEnd, "parse")
  BY <1>1 DEF IsFrame
<1>3. QED
  BY <1>2 DEF GoesOn, Into

LEMMA StatementFrame ==
    ASSUME Ready("parse"), top.fn \notin Exprs
    PROVE  /\ DOMAIN top = {"fn", "pc", "at", "args", "body", "alternate", "test"}
           /\ top.test \in 1..9 /\ top.at \in 1..cur
BY DEF Ready, IsFrame

LEMMA TopMoves ==
    ASSUME ParserInv("parse"), Top
    PROVE  Moves("parse")
<1>1. outcome = "running" /\ calls # <<>> /\ top.fn = "parse" /\ top.fn \notin Exprs
  BY DEF Top, TopStatement, TopAdd, TopOther, TopEnd, Running, Exprs
<1>2. Ready("parse")
  BY <1>1, ReadyIs
<1>3. cur \in cur..TheEnd /\ failed \in BOOLEAN /\ \A n \in Nat : Skip(n) => cur' \in cur..TheEnd
  BY <1>2, SkipMoves DEF Ready
<1>4. CASE TopStatement
  <2>1. Advances /\ Descend(TopFn, "add") /\ TopFn # "none"
    BY <1>3, <1>4 DEF TopStatement, Advances
  <2>2. TopFn \in Functions \ Exprs /\ <<"parse", "add", TopFn>> \in Waits
    BY <2>1, TopFnIs DEF Functions, Exprs, Waits
  <2>3. Calling("parse")
    BY <1>1, <1>2, <2>1, <2>2, DescendCalls DEF Advances
  <2>4. QED
    BY <1>2, <2>1, <2>3, AdvancesMoves
<1>5. CASE TopAdd
  <2>1. Advances /\ Goto("start")
    BY <1>3, <1>5 DEF TopAdd, Advances, Fails
  <2>2. GoesOn("parse")
    BY <1>1, <1>2, <2>1, GotoGoesOn DEF Advances
  <2>3. QED
    BY <1>2, <2>1, <2>2, AdvancesMoves
<1>6. CASE TopOther
  <2>1. Advances /\ Staying
    BY <1>1, <1>3, <1>6 DEF TopOther, Advances, Fails, Staying, Expects
  <2>2. QED
    BY <1>2, <2>1, AdvancesMoves
<1>7. CASE TopEnd
  <2>1. Stopping /\ failed' = failed /\ input' = input /\ cur' = cur
    BY <1>7 DEF TopEnd, Stopping, Outcomes
  <2>2. QED
    BY <1>1, <1>3, <2>1 DEF Moves
<1>8. QED
  BY <1>4, <1>5, <1>6, <1>7 DEF Top

LEMMA BodyMoves ==
    ASSUME ParserInv("parse"), Body
    PROVE  Moves("parse")
<1>1. outcome = "running" /\ calls # <<>> /\ top.fn = "statements" /\ top.fn \notin Exprs
  BY DEF Body, BodyEnd, BodyStatement, BodyAdd, BodyPasses, BodyRepeats, BodyGoesOn, Running, Exprs
<1>2. Ready("parse")
  BY <1>1, ReadyIs
<1>3. cur \in cur..TheEnd /\ failed \in BOOLEAN /\ \A n \in Nat : Skip(n) => cur' \in cur..TheEnd
  BY <1>2, SkipMoves DEF Ready
<1>4. Advances
  BY <1>3 DEF Body, BodyEnd, BodyStatement, BodyAdd, BodyPasses, BodyRepeats, Fails, Advances
<1>5. /\ DOMAIN top = {"fn", "pc", "at", "args", "body", "alternate", "test"}
      /\ top.test \in 1..9 /\ top.at \in 1..cur /\ IsFrame(top, cur, TheEnd, "parse")
      /\ cur' \in cur..TheEnd /\ outcome' = outcome
  BY <1>1, <1>2, <1>4, StatementFrame DEF Ready, Advances
<1>6. CASE BodyEnd
  <2>1. \E tree : Return(tree)
    BY <1>6 DEF BodyEnd
  <2>2. QED
    BY <1>1, <1>2, <1>4, <1>5, <2>1, ReturnReturns, AdvancesMoves
<1>7. CASE BodyStatement
  <2>1. PICK u \in Recognised(top.test) :
          calls' = <<Stmt(BodyFn(u), cur), [top EXCEPT !.pc = "add", !.test = u + 1]>> \o Tail(calls)
    BY <1>7 DEF BodyStatement
  <2>2. cur' = cur
    BY <1>7 DEF BodyStatement
  <2>3. u \in 1..8 /\ BodyFn(u) # "none"
    BY <1>5, <2>1 DEF Recognised, Passing
  <2>4. BodyFn(u) \in Functions \ Exprs /\ <<"statements", "add", BodyFn(u)>> \in Waits
    BY <2>3, BodyFnIs DEF Functions, Exprs, Waits
  <2> DEFINE a == [top EXCEPT !.pc = "add", !.test = u + 1]
             b == Stmt(BodyFn(u), cur)
  <2>5. a.fn = top.fn /\ a.pc = "add" /\ IsFrame(a, cur', TheEnd, "parse")
    BY <1>1, <1>5, <2>2, <2>3 DEF IsFrame
  <2>6. b.fn = BodyFn(u) /\ b.pc = "start" /\ IsFrame(b, cur', TheEnd, "parse")
    <3>1. cur \in 1..cur
      BY <1>2 DEF Ready
    <3>2. QED
      BY <2>2, <2>4, <3>1, StmtIs
  <2>7. calls' = <<b, a>> \o Tail(calls)
    BY <2>1
  <2> HIDE DEF a, b
  <2>8. Calling("parse")
    BY <1>1, <1>5, <2>4, <2>5, <2>6, <2>7 DEF Calling
  <2>9. QED
    BY <1>2, <1>4, <2>8, AdvancesMoves
<1>8. CASE BodyAdd \/ BodyPasses \/ BodyRepeats
  <2>1. PICK a : Into(a) /\ \/ a = [top EXCEPT !.pc = "start", !.body = With(@, result)]
                            \/ a = [top EXCEPT !.test = Passing + 1]
                            \/ a = [top EXCEPT !.test = 1]
    BY <1>8 DEF BodyAdd, BodyPasses, BodyRepeats
  <2>2. a.fn = top.fn /\ DOMAIN a = DOMAIN top /\ a.at = top.at /\ a.test \in 1..9
    <3>1. CASE a = [top EXCEPT !.pc = "start", !.body = With(@, result)]
      BY <1>5, <3>1
    <3>2. CASE a = [top EXCEPT !.test = Passing + 1]
      BY <1>5, <3>2 DEF Passing
    <3>3. CASE a = [top EXCEPT !.test = 1]
      BY <1>5, <3>3
    <3>4. QED
      BY <2>1, <3>1, <3>2, <3>3
  <2>3. ~Expects(a)
    BY <1>1, <2>2 DEF Expects
  <2>4. GoesOn("parse")
    BY <1>1, <1>2, <1>5, <2>1, <2>2, <2>3, IntoGoesOn
  <2>5. QED
    BY <1>2, <1>4, <2>4, AdvancesMoves
<1>9. QED
  BY <1>6, <1>7, <1>8 DEF Body

(* The calls statements make.                                             *)
LEMMA StatementsWait ==
    /\ {<<"decl", "arrow", "signature">>, <<"signature", "parameter", "var">>, <<"def", "body", "decl">>,
        <<"def", "close", "statements">>, <<"if", "then", "statements">>, <<"if", "alternate", "if">>,
        <<"if", "last", "else">>, <<"else", "close", "statements">>, <<"while", "close", "statements">>,
        <<"for", "close", "statements">>} \subseteq Waits
    /\ {"signature", "var", "decl", "statements", "if", "else"} \subseteq Functions \ Exprs
BY DEF Waits, Functions, Exprs

LEMMA ExprsWait ==
    {<<"var", "defined", "expr">>, <<"var", "element", "expr">>, <<"assign", "operator", "expr">>,
     <<"multi", "rest", "expr">>, <<"assign", "value", "expr">>, <<"return", "close", "expr">>,
     <<"print", "close", "args">>, <<"decl", "called", "args">>, <<"if", "conditions", "expr">>,
     <<"while", "open", "expr">>, <<"for", "range", "expr">>, <<"for", "open", "expr">>} \subseteq Waits
BY DEF Waits

(* What the action of a statement may do with its call.                    *)
Descends  == \E fn \in Functions \ Exprs : \E pc : Descend(fn, pc) /\ <<top.fn, pc, fn>> \in Waits
CallsExpr == \E fn \in {"expr", "args"} : \E pc : CallThen(fn, 0, pc) /\ <<top.fn, pc, fn>> \in Waits
Notes     == \E a : /\ Into(a) /\ a.fn = top.fn /\ DOMAIN a = DOMAIN top /\ a.at = top.at /\ a.test = top.test
                   /\ a.pc \notin {"body", "parameter"}
Goes      == \E pc : pc \notin {"body", "parameter"} /\ Goto(pc)
Yields    == \E k : \E trees : k # "nothing" /\ Yield(k, trees)
Ends     == \/ Return(Nothing) /\ failed'
            \/ top.fn \notin {"decl", "var"} /\ \E tree : Return(tree)

LEMMA StatementDoes ==
    ASSUME Ready("parse"), Advances, top.fn \notin Exprs \cup {"parse"},
           Descends \/ CallsExpr \/ Notes \/ Goes \/ Yields \/ Ends
    PROVE  Moves("parse")
<1>1. /\ cur' \in cur..TheEnd /\ outcome' = outcome /\ top.fn \notin Exprs
      /\ top.fn \notin {"parse", "statement"}
  BY DEF Advances, Exprs
<1>2. CASE Descends
  BY <1>1, <1>2, DescendCalls, AdvancesMoves DEF Descends
<1>3. CASE CallsExpr
  BY <1>1, <1>3, CallThenCalls, AdvancesMoves DEF CallsExpr, Ptps
<1>4. CASE Notes
  <2>1. PICK a : /\ Into(a) /\ a.fn = top.fn /\ DOMAIN a = DOMAIN top /\ a.at = top.at /\ a.test = top.test
                 /\ a.pc \notin {"body", "parameter"}
    BY <1>4 DEF Notes
  <2>2. a.test \in 1..9 /\ ~Expects(a)
    BY <1>1, <2>1, StatementFrame DEF Expects
  <2>3. GoesOn("parse")
    BY <1>1, <2>1, <2>2, IntoGoesOn
  <2>4. QED
    BY <2>3, AdvancesMoves
<1>5. CASE Goes
  BY <1>1, <1>5, GotoGoesOn, AdvancesMoves DEF Goes
<1>6. CASE Yields
  BY <1>1, <1>6, YieldReturns, AdvancesMoves DEF Yields
<1>7. CASE Ends
  <2>1. Returning
    BY <1>1, <1>7 DEF Ends, Return, Returning
  <2>2. QED
    BY <2>1, AdvancesMoves
<1>8. QED
  BY <1>2, <1>3, <1>4, <1>5, <1>6, <1>7

LEMMA StopsMoves ==
    ASSUME Ready("parse"), input' = input, cur' \in cur..TheEnd, failed' \in BOOLEAN, failed => failed', Stopping
    PROVE  Moves("parse")
BY DEF Ready, Moves

LEMMA VarMoves ==
    ASSUME ParserInv("parse"), Var
    PROVE  Moves("parse")
<1>1. outcome = "running" /\ calls # <<>> /\ top.fn = "var"
  BY DEF Var, VarFails, VarThrows, VarDeclares, VarDefines, VarDefined, VarRunsOff, VarIsArray, Running,
         ArrayDeclares, ArrayDefines, ArrayElement, ArrayComma, ArrayDefined
<1>2. Ready("parse") /\ top.fn \notin Exprs \cup {"parse"}
  BY <1>1, ReadyIs DEF Exprs
<1>3. cur \in cur..TheEnd /\ failed \in BOOLEAN /\ \A n \in Nat : Skip(n) => cur' \in cur..TheEnd
  BY <1>2, SkipMoves DEF Ready
<1>4. CASE VarRunsOff
  <2>1. input' = input /\ cur' \in cur..TheEnd /\ failed' \in BOOLEAN /\ (failed => failed')
    <3>1. input' = input /\ ((Skip(1) /\ failed' = TRUE) \/ (cur' = cur /\ failed' = failed))
      BY <1>4 DEF VarRunsOff, Fails
    <3>2. QED
      BY <1>3, <3>1
  <2>2. Stopping
    BY <1>4 DEF VarRunsOff, Undefined, Stopping, Outcomes
  <2>3. QED
    BY <1>2, <2>1, <2>2, StopsMoves
<1>5. CASE VarThrows
  <2>1. input' = input /\ cur' \in cur..TheEnd /\ failed' \in BOOLEAN /\ (failed => failed')
    BY <1>3, <1>5 DEF VarThrows
  <2>2. Stopping
    BY <1>5 DEF VarThrows, Stopping, Outcomes
  <2>3. QED
    BY <1>2, <2>1, <2>2, StopsMoves
<1>6. CASE Var /\ ~VarRunsOff /\ ~VarThrows
  <2>1. Advances
    <3>1. ArrayTypeEnd \in Nat /\ ArrayTypeEnd + 2 \in Nat
      BY ArrayTypeEndIs
    <3>2. CASE VarFails
      BY <1>3, <3>2 DEF VarFails, ValueMissing, EndMissing, Fails, Advances
    <3>3. CASE VarDeclares \/ VarDefines \/ VarDefined
      BY <1>3, <3>3 DEF VarDeclares, VarDefines, VarDefined, Fails, Advances
    <3>4. CASE ArrayDeclares
      BY <1>3, <3>1, <3>4 DEF ArrayDeclares, Fails, Advances
    <3>5. CASE ArrayDefines
      BY <1>3, <3>1, <3>5 DEF ArrayDefines, Fails, Advances
    <3>6. CASE ArrayElement \/ ArrayComma \/ ArrayDefined
      BY <1>3, <3>6 DEF ArrayElement, ArrayComma, ArrayDefined, Advances
    <3>7. QED
      BY <1>6, <3>2, <3>3, <3>4, <3>5, <3>6 DEF Var
  <2>2. CASE VarFails
    <3>1. failed' /\ Return(Nothing)
      BY <2>2 DEF VarFails, Fails, InvalidType
    <3>2. QED
      BY <1>2, <2>1, <3>1, StatementDoes DEF Ends
  <2>3. CASE VarDeclares \/ VarDefined \/ ArrayDeclares \/ ArrayDefined
    <3>1. Yields
      BY <2>3 DEF VarDeclares, VarDefined, ArrayDeclares, ArrayDefined, Yields
    <3>2. QED
      BY <1>2, <2>1, <3>1, StatementDoes
  <2>4. CASE VarDefines \/ ArrayElement
    <3>1. CallsExpr
      BY <1>1, <2>4, ExprsWait DEF VarDefines, ArrayElement, CallsExpr
    <3>2. QED
      BY <1>2, <2>1, <3>1, StatementDoes
  <2>5. CASE ArrayDefines \/ ArrayComma
    <3>1. Goes
      BY <2>5 DEF ArrayDefines, ArrayComma, Goes
    <3>2. QED
      BY <1>2, <2>1, <3>1, StatementDoes
  <2>6. QED
    BY <1>6, <2>2, <2>3, <2>4, <2>5 DEF Var
<1>7. QED
  BY <1>4, <1>5, <1>6

LEMMA SmallMoves ==
    ASSUME ParserInv("parse"), Small
    PROVE  Moves("parse")
<1>1. outcome = "running" /\ calls # <<>> /\ top.fn \in {"multi", "assign", "return", "print"}
  BY DEF Small, Multi, MultiRest, MultiEnd, Assign, AssignOperator, AssignValue, AssignNext, Assigned,
         Returns, Prints, Closes, Running
<1>2. Ready("parse") /\ top.fn \notin Exprs \cup {"parse"}
  BY <1>1, ReadyIs DEF Exprs
<1>3. cur \in cur..TheEnd /\ failed \in BOOLEAN /\ \A n \in Nat : Skip(n) => cur' \in cur..TheEnd
  BY <1>2, SkipMoves DEF Ready
<1>4. Advances
  <2>1. CASE MultiRest
    <3> DEFINE colon == IF Current = ":" THEN 1 ELSE 0
               comma == IF Peek(colon) = "," THEN 1 ELSE 0
               next  == IF Peek(colon + comma) = ";" THEN colon + comma ELSE colon + comma + 1
    <3>1. Skip(next)
      BY <2>1 DEF MultiRest
    <3>2. next \in Nat
      <4>1. colon \in {0, 1} /\ comma \in {0, 1}
        OBVIOUS
      <4> HIDE DEF colon, comma
      <4>2. colon + comma \in Nat /\ colon + comma + 1 \in Nat
        BY <4>1
      <4>3. QED
        BY <4>2 DEF next
    <3> HIDE DEF next
    <3>3. cur' \in cur..TheEnd
      BY <1>3, <3>1, <3>2
    <3>4. QED
      BY <1>3, <2>1, <3>3 DEF MultiRest, Fails, Advances
  <2>2. CASE MultiEnd
    BY <1>3, <2>2 DEF MultiEnd, Fails, Advances
  <2>3. CASE Multi \/ Assign \/ AssignOperator \/ AssignValue \/ AssignNext \/ Assigned \/ Returns \/ Prints \/ Closes
    <3>1. CASE Multi \/ Assign \/ AssignOperator
      BY <1>3, <3>1 DEF Multi, Assign, AssignOperator, Except, Fails, Advances
    <3>2. CASE AssignValue \/ AssignNext \/ Assigned
      BY <1>3, <3>2 DEF AssignValue, AssignNext, Assigned, Except, Fails, Advances
    <3>3. CASE Returns \/ Prints \/ Closes
      BY <1>3, <3>3 DEF Returns, Prints, Closes, Except, Fails, Advances
    <3>4. QED
      BY <2>3, <3>1, <3>2, <3>3
  <2>4. QED
    BY <2>1, <2>2, <2>3 DEF Small
<1>5. CASE Multi \/ Assign \/ AssignValue \/ Returns \/ Prints
  <2>1. CallsExpr \/ Goes
    BY <1>5, ExprsWait DEF Multi, Assign, AssignValue, Returns, Prints, Running, CallsExpr, Goes
  <2>2. QED
    BY <1>2, <1>4, <2>1, StatementDoes
<1>6. CASE MultiRest
  <2>1. PICK as, b : Into([top EXCEPT !.pc = "start", !.args = as, !.body = b])
    BY <1>6 DEF MultiRest
  <2>2. Notes
    <3> DEFINE a == [top EXCEPT !.pc = "start", !.args = as, !.body = b]
    <3>1. a.fn = top.fn /\ DOMAIN a = DOMAIN top /\ a.at = top.at /\ a.test = top.test /\ a.pc = "start"
      BY <1>2, StatementFrame
    <3> HIDE DEF a
    <3>2. QED
      BY <2>1, <3>1 DEF Notes, a
  <2>3. QED
    BY <1>2, <1>4, <2>2, StatementDoes
<1>7. CASE MultiEnd
  <2>1. Ends
    BY <1>1, <1>7 DEF MultiEnd, Ends
  <2>2. QED
    BY <1>2, <1>4, <2>1, StatementDoes
<1>8. CASE AssignOperator \/ AssignNext
  <2>1. Goes
    BY <1>8 DEF AssignOperator, AssignNext, Goes
  <2>2. QED
    BY <1>2, <1>4, <2>1, StatementDoes
<1>9. CASE Assigned \/ Closes
  <2>1. Yields
    BY <1>1, <1>9 DEF Assigned, Closes, Yields
  <2>2. QED
    BY <1>2, <1>4, <2>1, StatementDoes
<1>10. QED
  BY <1>5, <1>6, <1>7, <1>8, <1>9 DEF Small

(* An expression that leads into a declaration.                            *)
LEMMA CalleeMoves ==
    ASSUME ParserInv("parse"), CalleeDeclares \/ CalleeDeclared
    PROVE  Moves("parse")
<1>1. outcome = "running" /\ calls # <<>> /\ top.fn = "expr"
  BY DEF CalleeDeclares, CalleeDeclared, Running
<1>2. Ready("parse")
  BY <1>1, ReadyIs
<1>3. cur \in cur..TheEnd /\ failed \in BOOLEAN /\ \A n \in Nat : Skip(n) => cur' \in cur..TheEnd
  BY <1>2, SkipMoves DEF Ready
<1>4. Advances
  BY <1>3 DEF CalleeDeclares, CalleeDeclared, Fails, Advances
<1>5. "declared" \in Steps("parse") /\ "operand" \in Steps("parse") /\ <<"expr", "declared", "decl">> \in Waits
      /\ "decl" \in Functions \ Exprs
  BY DEF Steps, Pcs, Waits, Functions, Exprs
<1>6. CASE CalleeDeclares
  <2>1. Calling("parse")
    BY <1>1, <1>2, <1>4, <1>5, <1>6, DescendCalls DEF CalleeDeclares, Advances
  <2>2. QED
    BY <1>2, <1>4, <2>1, AdvancesMoves
<1>7. CASE CalleeDeclared
  <2>1. CASE \E tree : Return(tree)
    BY <1>1, <1>2, <1>4, <2>1, ReturnReturns, AdvancesMoves DEF Advances
  <2>2. CASE Goto("operand")
    BY <1>2, <1>4, <1>5, <2>2, GotoGoesOn, AdvancesMoves DEF Advances
  <2>3. QED
    BY <1>7, <2>1, <2>2 DEF CalleeDeclared
<1>8. QED
  BY <1>6, <1>7

(* A missing handle is dereferenced only by who waits for it.              *)
LEMMA CrashMoves ==
    ASSUME ParserInv("parse"), ParameterMissing \/ DefMissing
    PROVE  Moves("parse")
<1>1. outcome = "running" /\ calls # <<>> /\ Expects(top) /\ result = Nothing
  BY DEF ParameterMissing, DefMissing, Running, Expects
<1>2. Ready("parse") /\ failed
  BY <1>1, ReadyIs DEF Ready
<1>3. /\ input' = input /\ cur' = cur /\ failed' = failed /\ Stopping
  BY <1>2 DEF ParameterMissing, DefMissing, Crashes, Stopping, Outcomes
<1>4. QED
  BY <1>2, <1>3, StopsMoves DEF Ready

DeclHeads == \/ Decl \/ DeclSignature \/ DeclInvalid \/ DeclIsCall \/ DeclCalled \/ DeclNoParameters
             \/ DeclArrow \/ DeclType \/ DeclEnd

LEMMA DeclMoves ==
    ASSUME ParserInv("parse"), DeclHeads
    PROVE  Moves("parse")
<1>1. outcome = "running" /\ calls # <<>> /\ top.fn = "decl"
  BY DEF DeclHeads, Decl, DeclSignature, DeclInvalid, DeclIsCall, DeclCalled, DeclNoParameters,
         DeclArrow, DeclType, DeclEnd, Running
<1>2. Ready("parse") /\ top.fn \notin Exprs \cup {"parse"}
  BY <1>1, ReadyIs DEF Exprs
<1>3. cur \in cur..TheEnd /\ failed \in BOOLEAN /\ \A n \in Nat : Skip(n) => cur' \in cur..TheEnd
  BY <1>2, SkipMoves DEF Ready
<1>4. Advances
  <2>1. CASE DeclType
    <3> DEFINE comma == IF Current = "," THEN 1 ELSE 0
    <3>1. comma \in {0, 1}
      OBVIOUS
    <3>2. input' = input /\ outcome' = outcome /\
          ((Skip(comma + 1) /\ failed' = failed) \/ (Skip(comma) /\ failed' = TRUE))
      BY <2>1 DEF DeclType, Fails
    <3> HIDE DEF comma
    <3>3. comma \in Nat /\ comma + 1 \in Nat
      BY <3>1
    <3>4. QED
      BY <1>3, <3>2, <3>3 DEF Advances
  <2>2. CASE DeclHeads /\ ~DeclType
    BY <1>3, <2>2 DEF DeclHeads, Decl, DeclSignature, DeclInvalid, DeclIsCall, DeclCalled, DeclNoParameters,
         DeclArrow, DeclEnd, Except, Fails, Advances
  <2>3. QED
    BY <2>1, <2>2
<1>5. CASE Decl \/ DeclNoParameters
  <2>1. Goes
    BY <1>5 DEF Decl, DeclNoParameters, Goes
  <2>2. QED
    BY <1>2, <1>4, <2>1, StatementDoes
<1>6. CASE DeclSignature
  <2>1. Descends
    BY <1>1, <1>6, StatementsWait DEF DeclSignature, Descends
  <2>2. QED
    BY <1>2, <1>4, <2>1, StatementDoes
<1>7. CASE DeclIsCall
  <2>1. CallsExpr
    BY <1>1, <1>7, ExprsWait DEF DeclIsCall, CallsExpr
  <2>2. QED
    BY <1>2, <1>4, <2>1, StatementDoes
<1>8. CASE DeclInvalid
  <2>1. Ends
    BY <1>8 DEF DeclInvalid, Fails, Ends
  <2>2. QED
    BY <1>2, <1>4, <2>1, StatementDoes
<1>9. CASE DeclCalled \/ DeclEnd
  <2>1. Yields
    BY <1>9 DEF DeclCalled, DeclEnd, Yields
  <2>2. QED
    BY <1>2, <1>4, <2>1, StatementDoes
<1>10. CASE DeclArrow
  <2>1. Ends \/ Goes
    BY <1>10 DEF DeclArrow, Fails, Ends, Goes
  <2>2. QED
    BY <1>2, <1>4, <2>1, StatementDoes
<1>11. CASE DeclType
  <2>1. CASE calls' = calls
    <3>1. Staying
      BY <1>1, <1>4, <2>1 DEF Staying, Expects, Advances
    <3>2. QED
      BY <1>2, <1>4, <3>1, AdvancesMoves
  <2>2. CASE failed' /\ Return(Nothing)
    BY <1>2, <1>4, <2>2, StatementDoes DEF Ends
  <2>3. QED
    BY <1>11, <2>1, <2>2 DEF DeclType, Fails
<1>12. QED
  BY <1>5, <1>6, <1>7, <1>8, <1>9, <1>10, <1>11 DEF DeclHeads

Signature == Parameter \/ NextParameter \/ SignatureEnd

LEMMA SignatureMoves ==
    ASSUME ParserInv("parse"), Signature
    PROVE  Moves("parse")
<1>1. outcome = "running" /\ calls # <<>> /\ top.fn = "signature"
  BY DEF Signature, Parameter, NextParameter, SignatureEnd, Running
<1>2. Ready("parse") /\ top.fn \notin Exprs \cup {"parse"}
  BY <1>1, ReadyIs DEF Exprs
<1>3. cur \in cur..TheEnd /\ failed \in BOOLEAN /\ \A n \in Nat : Skip(n) => cur' \in cur..TheEnd
  BY <1>2, SkipMoves DEF Ready
<1>4. Advances
  BY <1>3 DEF Signature, Parameter, NextParameter, SignatureEnd, Except, Fails, Advances
<1>5. Descends \/ Goes \/ Ends
  <2>1. CASE Parameter
    BY <1>1, <2>1, StatementsWait DEF Parameter, Descends, Goes
  <2>2. CASE NextParameter
    <3>1. Goto("start")
      BY <2>2 DEF NextParameter
    <3>2. QED
      BY <3>1 DEF Goes
  <2>3. CASE SignatureEnd
    <3>1. Return(Block(<<>>)) /\ top.fn \notin {"decl", "var"}
      BY <1>1, <2>3 DEF SignatureEnd
    <3>2. QED
      BY <3>1 DEF Ends
  <2>4. QED
    BY <2>1, <2>2, <2>3 DEF Signature
<1>6. QED
  BY <1>2, <1>4, <1>5, StatementDoes

Definition == Def \/ DefBody

LEMMA DefMoves ==
    ASSUME ParserInv("parse"), Definition \/ DefIsCall
    PROVE  Moves("parse")
<1>1. outcome = "running" /\ calls # <<>> /\ top.fn = "def"
  BY DEF Definition, Def, DefIsCall, DefBody, Running
<1>2. Ready("parse") /\ top.fn \notin Exprs \cup {"parse"}
  BY <1>1, ReadyIs DEF Exprs
<1>3. cur \in cur..TheEnd /\ failed \in BOOLEAN /\ \A n \in Nat : Skip(n) => cur' \in cur..TheEnd
  BY <1>2, SkipMoves DEF Ready
<1>4. CASE DefIsCall
  <2>1. Stopping /\ input' = input /\ cur' = cur /\ failed' = failed
    BY <1>4 DEF DefIsCall, Undefined, Stopping, Outcomes
  <2>2. QED
    BY <1>2, <1>3, <2>1, StopsMoves
<1>5. CASE Definition
  <2>1. Advances
    BY <1>3, <1>5 DEF Definition, Def, DefBody, Except, Fails, Advances
  <2>2. Descends \/ Yields
    <3>1. CASE Def
      BY <1>1, <3>1, StatementsWait DEF Def, Descends
    <3>2. CASE DefBody
      BY <1>1, <3>2, StatementsWait DEF DefBody, Descends, Yields
    <3>3. QED
      BY <1>5, <3>1, <3>2 DEF Definition
  <2>3. QED
    BY <1>2, <2>1, <2>2, StatementDoes
<1>6. QED
  BY <1>4, <1>5

Ifs == \/ If \/ IfCondition \/ IfConditions \/ IfBody \/ IfThen \/ IfAlternate \/ IfAdds \/ IfEnd

LEMMA IfMoves ==
    ASSUME ParserInv("parse"), Ifs
    PROVE  Moves("parse")
<1>1. outcome = "running" /\ calls # <<>> /\ top.fn = "if"
  BY DEF Ifs, If, IfCondition, IfConditions, IfBody, IfThen, IfAlternate, IfAdds, IfEnd, Running
<1>2. Ready("parse") /\ top.fn \notin Exprs \cup {"parse"}
  BY <1>1, ReadyIs DEF Exprs
<1>3. cur \in cur..TheEnd /\ failed \in BOOLEAN /\ \A n \in Nat : Skip(n) => cur' \in cur..TheEnd
  BY <1>2, SkipMoves DEF Ready
<1>4. Advances
  <2>1. CASE If \/ IfCondition \/ IfConditions \/ IfBody
    BY <1>3, <2>1 DEF If, IfCondition, IfConditions, IfBody, PastBody, Except, Fails, Advances
  <2>2. CASE IfThen \/ IfAlternate
    BY <1>3, <2>2 DEF IfThen, IfAlternate, PastBody, Except, Fails, Advances
  <2>3. CASE IfAdds \/ IfEnd
    BY <1>3, <2>3 DEF IfAdds, IfEnd, PastBody, Except, Fails, Advances
  <2>4. QED
    BY <2>1, <2>2, <2>3 DEF Ifs
<1>5. CASE If \/ IfCondition \/ IfBody \/ IfAlternate \/ IfEnd
  <2>1. Descends \/ CallsExpr \/ Goes \/ Yields
    <3>1. CASE If
      BY <3>1 DEF If, Goes
    <3>2. CASE IfCondition
      BY <1>1, <3>2, ExprsWait DEF IfCondition, CallsExpr
    <3>3. CASE IfBody
      BY <1>1, <3>3, StatementsWait DEF IfBody, Descends
    <3>4. CASE IfAlternate
      BY <1>1, <3>4, StatementsWait DEF IfAlternate, Descends, Goes
    <3>5. CASE IfEnd
      BY <3>5 DEF IfEnd, Yields
    <3>6. QED
      BY <1>5, <3>1, <3>2, <3>3, <3>4, <3>5
  <2>2. QED
    BY <1>2, <1>4, <2>1, StatementDoes
<1>6. CASE IfConditions \/ IfThen \/ IfAdds
  <2>1. /\ DOMAIN top = {"fn", "pc", "at", "args", "body", "alternate", "test"}
    BY <1>2, StatementFrame
  <2>2. \E pc \in {"condition", "elif", "else", "end"} : \E x :
          \/ Into([top EXCEPT !.pc = pc, !.args = x])
          \/ Into([top EXCEPT !.pc = pc, !.body = x])
          \/ Into([top EXCEPT !.pc = pc, !.alternate = x])
    BY <1>6 DEF IfConditions, IfThen, IfAdds
  <2>3. PICK pc, x : /\ pc \notin {"body", "parameter"}
                     /\ \/ Into([top EXCEPT !.pc = pc, !.args = x])
                        \/ Into([top EXCEPT !.pc = pc, !.body = x])
                        \/ Into([top EXCEPT !.pc = pc, !.alternate = x])
    BY <2>2
  <2>4. Notes
    <3>1. PICK a : /\ Into(a)
                   /\ \/ a = [top EXCEPT !.pc = pc, !.args = x]
                      \/ a = [top EXCEPT !.pc = pc, !.body = x]
                      \/ a = [top EXCEPT !.pc = pc, !.alternate = x]
      BY <2>3
    <3>2. a.fn = top.fn /\ DOMAIN a = DOMAIN top /\ a.at = top.at /\ a.test = top.test /\ a.pc = pc
      <4>1. CASE a = [top EXCEPT !.pc = pc, !.args = x]
        BY <2>1, <4>1
      <4>2. CASE a = [top EXCEPT !.pc = pc, !.body = x]
        BY <2>1, <4>2
      <4>3. CASE a = [top EXCEPT !.pc = pc, !.alternate = x]
        BY <2>1, <4>3
      <4>4. QED
        BY <3>1, <4>1, <4>2, <4>3
    <3>3. QED
      BY <2>3, <3>1, <3>2 DEF Notes
  <2>5. QED
    BY <1>2, <1>4, <2>4, StatementDoes
<1>7. QED
  BY <1>5, <1>6 DEF Ifs

Loops == Else \/ While \/ ForRange \/ ForTo \/ ForArray \/ LoopBody \/ EndsWithBody

LEMMA LoopMoves ==
    ASSUME ParserInv("parse"), Loops
    PROVE  Moves("parse")
<1>1. outcome = "running" /\ calls # <<>> /\ top.fn \in {"else", "while", "for", "def"}
  BY DEF Loops, Else, While, ForRange, ForTo, ForArray, LoopBody, EndsWithBody, Running
<1>2. Ready("parse") /\ top.fn \notin Exprs \cup {"parse"}
  BY <1>1, ReadyIs DEF Exprs
<1>3. cur \in cur..TheEnd /\ failed \in BOOLEAN /\ \A n \in Nat : Skip(n) => cur' \in cur..TheEnd
  BY <1>2, SkipMoves DEF Ready
<1>4. Advances
  <2>1. CASE Else \/ LoopBody \/ EndsWithBody
    BY <1>3, <2>1 DEF Else, LoopBody, EndsWithBody, Except, Fails, Advances
  <2>2. CASE While \/ ForRange \/ ForTo
    BY <1>3, <2>2 DEF While, ForRange, ForTo, Fails, Advances
  <2>3. CASE ForArray
    <3>1. input' = input /\ outcome' = outcome
      BY <2>3 DEF ForArray
    <3>2. Skip(4) \/ Skip(0) \/ Skip(1)
      BY <2>3 DEF ForArray
    <3>3. failed' = failed \/ failed' = (failed \/ Peek(3) # "name")
      BY <2>3 DEF ForArray, Fails
    <3>4. cur' \in cur..TheEnd
      BY <1>3, <3>2
    <3>5. failed' \in BOOLEAN /\ (failed => failed')
      BY <1>3, <3>3
    <3>6. QED
      BY <3>1, <3>4, <3>5 DEF Advances
  <2>4. QED
    BY <2>1, <2>2, <2>3 DEF Loops
<1>5. Descends \/ CallsExpr \/ Goes \/ Yields
  <2>1. CASE Else \/ LoopBody
    <3>1. CASE Else
      BY <3>1, StatementsWait DEF Else, Running, Descends
    <3>2. CASE LoopBody
      BY <3>2, StatementsWait DEF LoopBody, Running, Descends
    <3>3. QED
      BY <2>1, <3>1, <3>2
  <2>2. CASE While \/ ForRange \/ ForTo
    <3>1. CASE While
      BY <3>1, ExprsWait DEF While, Running, CallsExpr
    <3>2. CASE ForRange
      BY <3>2, ExprsWait DEF ForRange, Running, CallsExpr
    <3>3. CASE ForTo
      BY <3>3, ExprsWait DEF ForTo, Running, CallsExpr
    <3>4. QED
      BY <2>2, <3>1, <3>2, <3>3
  <2>3. CASE ForArray
    BY <2>3, ExprsWait DEF ForArray, Running, CallsExpr, Goes
  <2>4. CASE EndsWithBody
    BY <1>1, <2>4 DEF EndsWithBody, Yields
  <2>5. QED
    BY <2>1, <2>2, <2>3, <2>4 DEF Loops
<1>6. QED
  BY <1>2, <1>4, <1>5, StatementDoes

-----------------------------------------------------------------------------
(* Each step of the parser of a program is one of the five.                *)
LEMMA ProgramMoves ==
    ASSUME ParserInv("parse"), ProgramNext
    PROVE  Moves("parse")
<1>1. CASE ExprNext
  BY <1>1, ExprMoves
<1>2. CASE Top \/ Body \/ Var \/ Small
  BY <1>2, TopMoves, BodyMoves, VarMoves, SmallMoves
<1>3. CASE Decls
  BY <1>3, CalleeMoves, CrashMoves, DeclMoves, SignatureMoves DEF Decls, DeclHeads, Signature
<1>4. CASE Large
  BY <1>4, CrashMoves, DefMoves, IfMoves, LoopMoves DEF Large, Definition, Ifs, Loops
<1>5. QED
  BY <1>1, <1>2, <1>3, <1>4 DEF ProgramNext

(* donsus_parse keeps the invariant over all the functions it calls: each  *)
(* call waits for one of the functions it calls at that place, and a       *)
(* function whose head or parameter was not parsed has reported an error.  *)
THEOREM ProgramInvariance == ProgramSpec => []ParserInv("parse")
<1>1. ProgramInit => ParserInv("parse")
  <2> SUFFICES ASSUME ProgramInit PROVE ParserInv("parse")
    OBVIOUS
  <2>1. LET f == Stmt("parse", 1) IN f.fn = "parse" /\ ~Expects(f) /\ IsFrame(f, 1, TheEnd, "parse")
    <3>1. "parse" \in Functions \ Exprs /\ 1 \in 1..1
      BY DEF Functions, Exprs
    <3>2. QED
      BY <3>1, StmtIs DEF Expects
  <2>2. QED
    BY <2>1, InitKeeps DEF ProgramInit
<1>2. ParserInv("parse") /\ [ProgramNext]_vars => ParserInv("parse")'
  <2> SUFFICES ASSUME ParserInv("parse"), [ProgramNext]_vars PROVE ParserInv("parse")'
    OBVIOUS
  <2>1. CASE UNCHANGED vars
    BY <2>1 DEF vars, ParserInv, StackOK, Expects, top, TheEnd
  <2>2. CASE ProgramNext
    BY <2>2, ProgramMoves, MovesKeep
  <2>3. QED
    BY <2>1, <2>2
<1>3. QED
  BY <1>1, <1>2, PTL DEF ProgramSpec

(* On any input donsus_parse is the outermost call and the only one, each   *)
(* call stands where it was made or after, and the loop of a body is at one *)
(* of its tests.                                                           *)
THEOREM ProgramTypeCorrect == ProgramSpec => []ProgramTypeOK
<1>1. ParserInv("parse") => ProgramTypeOK
  <2> SUFFICES ASSUME ParserInv("parse") PROVE ProgramTypeOK
    OBVIOUS
  <2>1. \A f \in DOMAIN calls : /\ IsFrame(calls[f], cur, TheEnd, "parse")
                                /\ calls[f].fn = "parse" <=> f = Len(calls)
    BY BottomIs DEF ParserInv
  <2>2. ASSUME NEW f \in DOMAIN calls
        PROVE  /\ calls[f].fn \in Functions
               /\ "at" \in DOMAIN calls[f] => calls[f].at \in 1..cur
               /\ "test" \in DOMAIN calls[f] => calls[f].test \in 1..9
    <3>1. IsFrame(calls[f], cur, TheEnd, "parse")
      BY <2>1
    <3>2. QED
      BY <3>1 DEF IsFrame, Fns
  <2>3. QED
    BY <2>1, <2>2 DEF ProgramTypeOK, ParserInv
<1>2. QED
  BY <1>1, ProgramInvariance, PTL

(* A handle that a head or a parameter left empty is dereferenced only      *)
(* after an error has been reported, on any input.                         *)
THEOREM CrashAlwaysReported == ProgramSpec => []CrashIsReported
<1>1. ParserInv("parse") => CrashIsReported
  BY DEF ParserInv, CrashIsReported
<1>2. QED
  BY <1>1, ProgramInvariance, PTL

(* No step of the parser unreads a token or takes an error back, and after *)
(* donsus_parse has returned, or the parser has crashed, there is no step. *)
NeverTakesBack ==
    [][/\ input' = input /\ cur' \in cur..TheEnd /\ (failed => failed')
       /\ outcome = "running" /\ calls # <<>>]_vars

(* Whatever the functions of the parser do with each other's cursor, it    *)
(* only moves forward, within the input, and an error that was reported    *)
(* stays reported: the parser has no backtracking, on any input.           *)
THEOREM ParserNeverTakesBack == ProgramSpec => NeverTakesBack
<1>1. ParserInv("parse") /\ [ProgramNext]_vars =>
        [/\ input' = input /\ cur' \in cur..TheEnd /\ (failed => failed')
         /\ outcome = "running" /\ calls # <<>>]_vars
  BY ProgramMoves DEF Moves
<1>2. QED
  BY <1>1, ProgramInvariance, PTL DEF ProgramSpec, NeverTakesBack
=============================================================================
