---------------------------- MODULE MCExprParser ----------------------------
(***************************************************************************)
(* Inputs for module ExprParser, and its properties, which speak of trees  *)
(* and so recur over them.  A well-formed input is a tree written down as  *)
(* a programmer would, with the parentheses it needs (or all there can     *)
(* be); its operands are numbered from left to right.                      *)
(***************************************************************************)
EXTENDS ExprParser, SequencesExt

Tok(k) == [kind |-> k, value |-> 0]
Ops    == {"<", "+", "*"}
Binary(t) == t.op \in Ops

(* The trees over the operands i..j.                                       *)
RECURSIVE TreesOn(_, _, _)
TreesOn(i, j, ops) ==
    IF i = j THEN {Leaf(i)}
    ELSE UNION {{Node(o, <<l, r>>) : o \in ops, l \in TreesOn(i, k, ops), r \in TreesOn(k + 1, j, ops)}
                : k \in i..(j - 1)}

Trees(n, ops) == UNION {TreesOn(1, k, ops) : k \in 1..n}

(* What a call, an element or a negation may be made of.                   *)
Small(i) == TreesOn(i, i, Ops) \cup TreesOn(i, i + 1, {"+"})

Wrapped(i) ==
    {Node("neg", <<t>>) : t \in Small(i)} \cup {Node("index", <<t>>) : t \in Small(i)}
    \cup {Node("call", <<t>>) : t \in Small(i)}
    \cup {Node("call", <<>>), Node("call", <<Leaf(i), Leaf(i + 1)>>),
          Node("call", <<Node("index", <<Leaf(i)>>)>>), Node("neg", <<Node("neg", <<Leaf(i)>>)>>)}

Mixed == Wrapped(1)
         \cup {Node(o, <<l, r>>) : o \in Ops, l \in Wrapped(1), r \in {Leaf(3)} \cup Wrapped(3)}
         \cup {Node(o, <<Leaf(1), r>>) : o \in Ops, r \in Wrapped(2)}
         \cup {Node(o, <<Leaf(1), Node(p, <<w, Leaf(4)>>)>>) : o, p \in Ops, w \in Wrapped(2)}
         \cup {Node(o, <<Node(p, <<Leaf(1), w>>), Leaf(4)>>) : o, p \in Ops, w \in Wrapped(2)}

-----------------------------------------------------------------------------
(* Writing a tree down; `all' puts every binary operand in parentheses.    *)
Parens(ts) == <<Tok("(")>> \o ts \o <<Tok(")")>>

NeedsParens(op, t, side, all) ==
    Binary(t) /\ \/ all
                 \/ Precedence(t.op) < Precedence(op)
                 \/ side = 2 /\ Precedence(t.op) = Precedence(op)

RECURSIVE Written(_, _)
Written(t, all) ==
    LET Side(n) == LET w == Written(t.kids[n], all)
                   IN  IF NeedsParens(t.op, t.kids[n], n, all) THEN Parens(w) ELSE w
        Comma(n) == IF n = 1 THEN <<>> ELSE <<Tok(",")>>
    IN  CASE t.op = "neg"   -> <<Tok("-")>> \o IF Binary(t.kids[1]) THEN Parens(Written(t.kids[1], all))
                                               ELSE Written(t.kids[1], all)
          [] t.op = "index" -> <<Tok("name"), Tok("[")>> \o Written(t.kids[1], all) \o <<Tok("]")>>
          [] t.op = "call"  -> <<Tok("name")>> \o Parens(FlattenSeq(
                                   [n \in DOMAIN t.kids |-> Comma(n) \o Written(t.kids[n], all)]))
          [] Binary(t)      -> Side(1) \o <<Tok(t.op)>> \o Side(2)
          [] OTHER          -> <<[kind |-> "number", value |-> t.value]>>

Ending(c) == CASE c = "definition" -> <<Tok(";")>>
               [] c = "print"      -> <<Tok(")"), Tok(";")>>
               [] c = "condition"  -> <<Tok(")"), Tok("{")>>

WellFormed(trees, contexts) ==
    {[context |-> c, tokens |-> Written(t, all) \o Ending(c), tree |-> t]
     : c \in contexts, t \in trees, all \in BOOLEAN}

(* Whatever tokens there may be, well formed or not.                       *)
TokenStrings(n, kinds) ==
    {[context |-> "definition", tree |-> Nothing,
      tokens |-> [p \in DOMAIN s |-> [kind |-> s[p], value |-> p]]] : s \in UNION {[1..k -> kinds] : k \in 0..n}}

Loose == {"number", "name", "+", "-", "(", ")", "["}

Statements == Contexts \ {"program"}

MCInputs == UNION {WellFormed(Trees(4, Ops), Statements), WellFormed(TreesOn(1, 5, {"+", "*"}), {"definition"}),
                   WellFormed(Mixed, Statements), TokenStrings(4, Loose),
                   TokenStrings(3, Loose \cup {"*", "]", "string", "newline", ";", ",", "type"})}

(* The documented precedence, where an element is among the operands.      *)
MCElementInputs == WellFormed(Mixed, {"definition"})

-----------------------------------------------------------------------------
(* The operands and operators of a tree, or of tokens, from left to right. *)
RECURSIVE TreeYield(_)
TreeYield(t) ==
    LET Kid(n) == TreeYield(t.kids[n])
    IN  CASE t.op = "neg"             -> <<"-">> \o Kid(1)
          [] t.op = "index"           -> <<"name">> \o Kid(1)
          [] t.op = "call"            -> <<"name">> \o FlattenSeq([n \in DOMAIN t.kids |-> Kid(n)])
          [] t.op \in Operators       -> Kid(1) \o <<t.op>> \o Kid(2)
          [] OTHER                    -> <<ToString(t.value)>>

Said(t) == IF t.kind \in Operands THEN ToString(t.value) ELSE t.kind
Marks   == {"(", ")", "[", "]", ",", ";", "{"}
TokenYield(ts) == LET said == SelectSeq(ts, LAMBDA t : t.kind \notin Marks)
                  IN  [p \in DOMAIN said |-> Said(said[p])]

IsExpression(i) == i.tree # Nothing

(* An element or a negation ends the expression it is in: it is nowhere in *)
(* a left operand.                                                         *)
RECURSIVE HasEarly(_), EarlyIsLast(_)
HasEarly(t) == t.op \in {"neg", "index"} \/ (Binary(t) /\ \E k \in DOMAIN t.kids : HasEarly(t.kids[k]))
EarlyIsLast(t) == /\ Binary(t) => ~HasEarly(t.kids[1])
                  /\ \A k \in DOMAIN t.kids : EarlyIsLast(t.kids[k])

(* Every operator binds tighter than the one whose right operand it is in. *)
RECURSIVE Nested(_, _)
Nested(t, ptp) ==
    IF Binary(t)
    THEN Precedence(t.op) > ptp /\ Nested(t.kids[1], ptp) /\ Nested(t.kids[2], Precedence(t.op))
    ELSE \A k \in DOMAIN t.kids : Nested(t.kids[k], 0)

-----------------------------------------------------------------------------
(* An expression that is accepted, in whichever statement and however many *)
(* parentheses it has, has become its own tree: the precedences and the    *)
(* order of equal ones are kept.  (Not so after an element or a negation:  *)
(* see PrecedenceIsKept.)                                                  *)
AcceptedTreesAreRight ==
    outcome = "accepted" /\ IsExpression(input) /\ EarlyIsLast(input.tree) => list = <<input.tree>>

(* An expression that is accepted has lost none of its operands and        *)
(* operators and moved none of them, elements and negations included,      *)
(* though the tree may be another one.                                     *)
AcceptedYield ==
    outcome = "accepted" /\ IsExpression(input)
        => FlattenSeq([n \in DOMAIN list |-> TreeYield(list[n])]) = TokenYield(input.tokens)

(* An expression whose operators bind tighter the further right they nest  *)
(* is accepted, with as many parentheses as can be written into it.        *)
NestedExpressionsParse ==
    IsExpression(input) /\ EarlyIsLast(input.tree) /\ Nested(input.tree, 0) => <>(outcome = "accepted")

(* A definition without a call comes to an end whatever tokens follow its  *)
(* equals sign, and so does its error recovery.                            *)
HasCall(ts) == \E p \in 1..(Len(ts) - 1) : ts[p].kind = "name" /\ ts[p + 1].kind = "("
ParseEnds ==
    input.context = "definition" /\ ~HasCall(input.tokens) => <>(outcome # "running")

(* What the reference's table of precedences says of every expression.     *)
PrecedenceIsKept ==
    outcome = "accepted" /\ IsExpression(input) => list = <<input.tree>>
=============================================================================
