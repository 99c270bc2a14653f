------------------------------- MODULE MCSema -------------------------------
(***************************************************************************)
(* Programs for module Sema.  They are written as nested terms and         *)
(* numbered from the top down.                                             *)
(***************************************************************************)
EXTENDS Sema

MCModValues == {0}

T(k, n) == [kind |-> k, name |-> n, type |-> "VOID",
            children |-> <<>>, args |-> <<>>, body |-> <<>>, alternate |-> <<>>]

Number      == T("number", "1")
True        == T("bool", "true")
Use(n)      == T("identifier", n)
Op(o, l, r) == [T("expression", o) EXCEPT !.children = <<l, r>>]
Neg(e)      == [T("unary", "-") EXCEPT !.children = <<e>>]
Def(n, y, e) == [T("variable_def", n) EXCEPT !.type = y, !.children = <<e>>]
Decl(n, y)  == [T("variable_decl", n) EXCEPT !.type = y]
Param(n, y) == [T("function_arg", n) EXCEPT !.type = y]
Set(l, r)   == [T("assignment", "=") EXCEPT !.args = <<l, r>>]
Ret(e)      == [T("return", "return") EXCEPT !.children = <<e>>]
Put(e)      == [T("print", "printf") EXCEPT !.children = <<e>>]
Invoke(f, as) == [T("function_call", f) EXCEPT !.args = as]
If(c, b, a) == [T("if", "if") EXCEPT !.children = <<c>>, !.body = b, !.alternate = a]
Else(b)     == [T("else", "else") EXCEPT !.body = b]
While(c, b) == [T("while", "while") EXCEPT !.children = <<c>>, !.body = b]
For(b)      == [T("for", "for") EXCEPT !.body = b]
Fun(f, y, ps, b) == [T("function_def", f) EXCEPT !.type = y, !.args = ps, !.body = b]
FunDecl(f, y) == [T("function_decl", f) EXCEPT !.type = y]

RECURSIVE Size(_), SizeAll(_)
Size(t) == 1 + SizeAll(t.children \o t.args \o t.body \o t.alternate)
SizeAll(ts) == IF ts = <<>> THEN 0 ELSE Size(Head(ts)) + SizeAll(Tail(ts))

(* The numbers of the terms ts, when the first of them is numbered b + 1.  *)
Ids(ts, b) == [i \in DOMAIN ts |-> b + 1 + SizeAll(SubSeq(ts, 1, i - 1))]

RECURSIVE Flat(_, _)
Flat(ts, b) ==
    IF ts = <<>> THEN <<>>
    ELSE LET t == Head(ts)
             c == b + 1
             a == c + SizeAll(t.children)
             y == a + SizeAll(t.args)
             e == y + SizeAll(t.body)
         IN  <<[t EXCEPT !.children = Ids(@, c), !.args = Ids(@, a),
                         !.body = Ids(@, y), !.alternate = Ids(@, e)]>>
             \o Flat(t.children, c) \o Flat(t.args, a) \o Flat(t.body, y) \o Flat(t.alternate, e)
             \o Flat(Tail(ts), b + Size(t))

Program(ts) == [top |-> Ids(ts, 0), node |-> Flat(ts, 0)]

UpTo(n, S) == UNION {[1..k -> S] : k \in 0..n}

-----------------------------------------------------------------------------
(* Scopes: a global x or none, a function f with and without a parameter x, *)
(* what its body may say of x, and what is said of f around it.            *)
Statements ==
    {Def("x", "BASIC_INT", Number),
     Set(Use("x"), Number),
     Ret(Use("x")),
     Invoke("f", <<Use("x")>>),
     Invoke("g", <<>>),
     FunDecl("h", "VOID"),
     If(Use("x"), <<Def("x", "BOOL", True)>>, <<Else(<<Ret(Number)>>)>>),
     While(Use("x"), <<Def("x", "BOOL", Use("x")), Invoke("f", <<Use("x")>>)>>),
     Fun("g", "BASIC_INT", <<Param("x", "BASIC_INT")>>, <<Ret(Use("x"))>>)}

ScopePrograms ==
    {Program(pre \o <<Fun("f", y, ps, body)>> \o post) :
        y    \in {"BASIC_INT", "VOID"},
        pre  \in {<<>>, <<Def("x", "BASIC_INT", Number)>>},
        ps   \in {<<>>, <<Param("x", "BASIC_INT")>>},
        body \in UpTo(2, Statements),
        post \in {<<>>, <<Invoke("f", <<Number>>)>>}}

(* Redefinitions and uses among the top-level statements.                  *)
TopStatements ==
    {Def("x", "BASIC_INT", Number), Def("x", "U32", Neg(Number)),
     Def("x", "I64", Op("+", Op("*", Number, Number), Use("y"))),
     Decl("x", "STRING_TYPE"), Decl("y", "I64"),
     FunDecl("x", "I64"),
     If(Op(">", Use("x"), Number), <<Decl("x", "I64")>>, <<Else(<<Put(Use("x"))>>)>>),
     For(<<Def("y", "I64", Number)>>),
     Fun("f", "VOID", <<>>, <<>>),
     Fun("f", "F64", <<>>, <<Ret(T("float", "1.5")), Put(T("string", "s"))>>),
     Fun("h", "BOOL", <<>>, <<Ret(Number)>>)}

TopPrograms == {Program(ts) : ts \in UpTo(3, TopStatements)}

(* Functions as the look-ups do not expect them: of one name, nested twice, *)
(* in a block, called like the global table; and nodes few places hold: a   *)
(* value two definitions share, a call on the right of an assignment.      *)
Proc(f, b) == Fun(f, "VOID", <<>>, b)
UsesX == Fun("f", "VOID", <<Param("x", "BOOL")>>, <<Put(Use("x"))>>)

SpecialPrograms ==
    {Program(ts) : ts \in
        {<<Proc("f", <<>>), Proc("f", <<Proc("g", <<>>)>>)>>,
         <<Proc("f", <<Proc("g", <<Proc("h", <<>>)>>)>>)>>,
         <<Proc("f", <<Proc("f", <<Ret(Use("x"))>>)>>), Invoke("f", <<>>)>>,
         <<Def("x", "I32", Number), If(True, <<UsesX>>, <<>>)>>,
         <<Def("x", "I32", Number), While(True, <<UsesX>>)>>,
         <<Def("x", "I32", Number), Fun("global", "VOID", <<Param("x", "BOOL")>>, <<Put(Use("x"))>>)>>,
         <<Proc("f", <<Invoke("global", <<>>)>>), Invoke("f", <<>>)>>,
         <<Proc("f", <<Proc("g", <<Invoke("f", <<>>)>>), Invoke("g", <<>>)>>), Invoke("g", <<>>)>>,
         <<Proc("f", <<While(True, <<Set(Use("x"), Invoke("f", <<Use("y")>>))>>)>>)>>,
         <<Fun("f", "I32", <<>>, <<Def("x", "I32", Number), Def("y", "I32", Invoke("f", <<Use("x")>>)),
                                  Set(Use("x"), Op("+", Invoke("f", <<>>), Use("y"))), Ret(Use("y"))>>)>>,
         <<Set(Use("x"), Invoke("f", <<Use("y")>>))>>}}
    \cup {[top |-> <<1, 2>>,
           node |-> <<[Def("x", "I64", Number) EXCEPT !.children = <<3>>],
                      [Def("y", "I64", Number) EXCEPT !.children = <<3>>], n>>] :
             n \in {Number, Use("x"), Use("g")}}

MCPrograms == ScopePrograms \cup TopPrograms \cup SpecialPrograms
=============================================================================
