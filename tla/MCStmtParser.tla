---------------------------- MODULE MCStmtParser ----------------------------
(***************************************************************************)
(* Programs for module StmtParser, and its properties.  A program is a     *)
(* sequence of statements, written down as tokens in one of two layouts: a *)
(* statement a line, or everything on one.  The statements are the nodes   *)
(* the parser is to make of them, numbered by the token they start with.   *)
(***************************************************************************)
EXTENDS StmtParser, SequencesExt, FiniteSets

Tok(k)       == [kind |-> k, value |-> 0]
Toks(ks)     == [p \in DOMAIN ks |-> Tok(ks[p])]
Named(k, v)  == <<[kind |-> k, value |-> v]>>

Statement(kind, v, kids) == [Node(kind, kids) EXCEPT !.value = v]
Holding(kind, v, body)   == Statement(kind, v, <<Block(body)>>)
IfNode(v, body, alternate) == Statement("if", v, <<Block(<<Leaf(v)>>), Block(body), Block(alternate)>>)

-----------------------------------------------------------------------------
(* Writing a program down.                                                 *)
Rest(kind) ==
    CASE kind = "declaration" -> <<":", "type", ";">>
      [] kind = "definition"  -> <<":", "type", "=", "number", "+", "number", ";">>
      [] kind = "list"        -> <<":", "type", "[", "number", "]", ".", "=", "[", "number", ",", "number", "]", ";">>
      [] kind = "array"       -> <<":", "type", "[", "]", ";">>
      [] kind = "assignment"  -> <<"=", "number", ";">>
      [] kind = "element"     -> <<"[", "number", "]", "=", "number", ";">>
      [] kind = "print"       -> <<"(", "string", ",", "number", ")", ";">>
      [] kind = "return"      -> <<"name", ";">>
      [] kind = "call"        -> <<"(", "number", ")", ";">>
      [] kind = "prototype"   -> <<"(", "name", ":", "type", ",", "name", ":", "type", ")", "->", "type", ",", "type", ";">>
      [] kind = "multi"       -> <<",", "name", ":", "type", "=", "number", ";">>
      [] kind = "def"         -> <<"name", "(", ")", "->", "void">>
      [] kind = "while"       -> <<"name", "<", "number">>
      [] kind = "for"         -> <<"name", ":", "number", "..", "number">>
      [] kind = "count"       -> <<"number", "..", "number">>
      [] kind = "each"        -> <<"name", ":", "name">>
      [] kind = "it"          -> <<"name">>

Loops     == {"for", "count", "each", "it"}
Compounds == {"def", "while"} \cup Loops

(* What a kind of statement starts with, and the node it becomes.          *)
First(kind)  == CASE kind \in Loops                     -> "for"
                  [] kind \in Compounds \cup {"print", "return"} -> kind
                  [] OTHER                              -> "name"
NodeOf(kind) == CASE kind \in Loops -> "for" [] kind = "list" -> "array"
                  [] kind = "element" -> "assignment" [] OTHER -> kind

RECURSIVE Written(_, _), Block_(_, _)
Block_(ss, nl) == <<Tok("{")>> \o nl \o FlattenSeq([s \in DOMAIN ss |-> Written(ss[s], nl) \o nl]) \o <<Tok("}")>>

Written(s, nl) ==
    CASE s.op = "if"   -> Named("if", s.value) \o <<Tok("(")>> \o Named("name", s.value) \o <<Tok(")")>>
                            \o Block_(s.kids[2].kids, nl)
                            \o FlattenSeq([a \in DOMAIN s.kids[3].kids |->
                                 LET t == Written(s.kids[3].kids[a], nl)
                                 IN  IF t[1].kind = "if" THEN <<[t[1] EXCEPT !.kind = "elif"]>> \o Tail(t) ELSE t])
      [] s.op = "else" -> Named("else", s.value) \o Block_(s.kids[1].kids, nl)
      [] s.op \in Compounds -> Named(First(s.op), s.value) \o Toks(Rest(s.op)) \o Block_(s.kids[1].kids, nl)
      [] OTHER         -> Named(First(s.op), s.value) \o Toks(Rest(s.op))

(* The nodes a program is to become: one for each of several declared names.*)
RECURSIVE Becomes(_)
Becomes(ss) ==
    FlattenSeq([n \in DOMAIN ss |->
        LET s == ss[n]
            node == [s EXCEPT !.op = NodeOf(@), !.kids = [k \in DOMAIN @ |-> [@[k] EXCEPT !.kids = Becomes(@)]]]
        IN  IF s.op = "multi" THEN <<node, [node EXCEPT !.value = 0]>>
            ELSE IF s.op = "operand" THEN <<s>> ELSE <<node>>])

-----------------------------------------------------------------------------
(* The programs.  In a body one may write all but loops with for, element  *)
(* assignments and several names, which its loop does not know.            *)
TopLeaves  == {"declaration", "definition", "list", "array", "assignment", "element", "print", "call",
               "prototype", "multi"}
BodyLeaves == (TopLeaves \ {"element", "multi"}) \cup {"return"}

Leaves(kinds, v) == {Statement(k, v, <<>>) : k \in kinds}

Bodies(ss)  == {<<>>} \cup {<<s>> : s \in ss}
Ifs(v, small) ==
    LET Otherwise(b) == Holding("else", v + 3, b)
    IN  {IfNode(v, b, <<>>) : b \in Bodies(small)}
        \cup {IfNode(v, b, <<Otherwise(c)>>) : b, c \in Bodies(small)}
        \cup {IfNode(v, <<>>, <<IfNode(v + 2, b, <<>>)>>) : b \in Bodies(small)}
        \cup {IfNode(v, <<>>, <<IfNode(v + 2, b, <<Otherwise(b)>>)>>) : b \in Bodies(small)}

Nested(v) == {Holding(k, v, b) : k \in {"def", "while"}, b \in Bodies(Leaves({"declaration", "return"}, v + 1))}
             \cup Ifs(v, Leaves({"definition"}, v + 1))

In(v) == Leaves(BodyLeaves, v) \cup Nested(v)
Few(v) == Leaves({"declaration", "assignment", "return", "call"}, v)
          \cup {Holding(k, v, <<>>) : k \in {"def", "while"}} \cup {IfNode(v, <<>>, <<>>)}

Compound == {Holding(k, 10, b) : k \in Compounds, b \in Bodies(In(20))}
            \cup {Holding("def", 10, <<s, t>>) : s \in In(20), t \in Few(30)}
            \cup {Holding("while", 10, <<s, t>>) : s \in Few(20), t \in Leaves(BodyLeaves, 30)}
            \cup Ifs(10, Few(20)) \cup {IfNode(10, <<s>>, <<Holding("else", 15, <<s>>)>>) : s \in In(20)}

Programs == {<<s>> : s \in Compound}
            \cup {<<s, t>> : s \in Leaves(TopLeaves, 10), t \in Leaves(TopLeaves, 50)}
            \cup {<<s, t>> : s \in Leaves(TopLeaves, 10), t \in Ifs(50, Leaves({"return"}, 60)) \cup {Holding(k, 50, <<>>) : k \in Compounds}}
            \cup {<<s, t>> : s \in {Holding(k, 10, b) : k \in Compounds, b \in Bodies(Few(20))} \cup Ifs(10, Few(20)),
                             t \in Leaves({"declaration", "element", "print", "multi"}, 50)}

Newline == <<Tok("newline")>>
Input(ts, tree) == [context |-> "program", tokens |-> ts, tree |-> tree]
Laid(program, nl) ==
    Input(FlattenSeq([n \in DOMAIN program |-> Written(program[n], nl) \o nl]), Block(Becomes(program)))

-----------------------------------------------------------------------------
(* Programs that are broken in one place: a token is missing or another    *)
(* one, or the text stops after a statement or a brace.  Parentheses stay, *)
(* and declarations in them stay declarations: the loops over expressions  *)
(* wait for a parenthesis or a semicolon for ever.                         *)
Removed(ts, p)  == SubSeq(ts, 1, p - 1) \o SubSeq(ts, p + 1, Len(ts))
Breakable == {"{", "}", "->", "type", "void", ":", "newline", "def", "if", "while", "for", "..", "else", "elif"}
Count(ts, p, k)  == Cardinality({q \in 1..p : ts[q].kind = k})
InParens(ts, p)  == Count(ts, p, "(") > Count(ts, p, ")")
Broken(ts) == {Removed(ts, p) : p \in {q \in DOMAIN ts : ts[q].kind \in Breakable /\ ~InParens(ts, q)}}
              \cup {[ts EXCEPT ![p] = Tok("void")] : p \in {q \in DOMAIN ts : ts[q].kind = "type"}}
              \cup {[ts EXCEPT ![p] = Tok("name")] : p \in {q \in DOMAIN ts : ts[q].kind \in Types /\ ~InParens(ts, q)}}
              \cup {SubSeq(ts, 1, p) : p \in {q \in DOMAIN ts : ts[q].kind \in {";", "{", "}"}}}

ToBreak == {<<Holding(k, 10, <<s, t>>)>> : k \in {"def", "while"}, s \in Few(20) \cup Leaves({"prototype", "print"}, 20),
                                           t \in Few(30) \ Leaves({"return", "call"}, 30)}
           \cup {<<s, t>> : s \in Leaves(TopLeaves, 10) \cup {Holding("for", 10, <<>>)} \cup Ifs(10, Few(20)), t \in Leaves({"declaration"}, 50)}

(* A parameter of no type; a function declared in an expression; an array  *)
(* whose declaration goes on; an assignment of an assignment.              *)
Strange == {<<"name", "(", "name", ":", "name", ")", "->", "type", ";">>,
            <<"name", ":", "type", "=", "name", "(", "name", ":", "type", ")", "->", "type", ";">>,
            <<"name", ":", "type", "=", "name", "(", "name", ":", "name", ")", ";">>,
            <<"name", ":", "type", "[", "number", "]", "+", "number", ";">>,
            <<"name", "=", "name", "=", "name", ";">>}

MCInputs == {Laid(p, Newline) : p \in Programs}
            \cup {Input(ts, Nothing) : ts \in {Toks(ks) : ks \in Strange} \cup UNION {Broken(Laid(p, Newline).tokens) : p \in ToBreak}}
MCOneLineInputs == {Laid(p, <<>>) : p \in Programs}

-----------------------------------------------------------------------------
IsProgram(i) == i.tree # Nothing

(* A program written a statement a line that is accepted is in the tree    *)
(* whole: each statement once, in its order and in the body it was written *)
(* in, with the elif and else of an if in its alternate.  (For bodies with *)
(* statements they do not know, see the readme.)                           *)
AcceptedProgramsAreWhole ==
    outcome = "accepted" /\ IsProgram(input) => list = input.tree.kids

(* And every such program is accepted.                                     *)
ProgramsParse == IsProgram(input) => <>(outcome = "accepted")

(* A program that lacks a token, other than those that loops over          *)
(* expressions wait for, comes to an end of its parse.                     *)
ParsingEnds == <>(outcome # "running")

(* What the readme says: white space means nothing, and so a program that  *)
(* is written on one line becomes the same tree.                           *)
WhiteSpaceMeansNothing == AcceptedProgramsAreWhole
=============================================================================
