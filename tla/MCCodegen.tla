----------------------------- MODULE MCCodegen -----------------------------
(***************************************************************************)
(* Programs for module Codegen, what they mean, and its properties.        *)
(***************************************************************************)
EXTENDS Codegen

Define(x, t, e)  == [op |-> "definition", name |-> x, type |-> t, value |-> e]
Declare(x, t)    == [op |-> "declaration", name |-> x, type |-> t]
Assign(x, o, e)  == [op |-> "assignment", name |-> x, assign |-> o, value |-> e]
Array(a, k, vs)  == [op |-> "array", name |-> a, kind |-> k, values |-> vs]
Put(a, i, e)     == [op |-> "put", name |-> a, index |-> i, value |-> e]
Shows(e)         == [op |-> "print", value |-> e]
Gives(e)         == [op |-> "return", value |-> e]
IfElse(c, b, a)  == [op |-> "if", cond |-> c, body |-> b, alternate |-> a]
ElseOf(b)        == <<[op |-> "else", body |-> b]>>
Elif(c, b, a)    == <<IfElse(c, b, a)>>
For(b)           == [op |-> "for", body |-> b]
While(b)         == [op |-> "while", body |-> b]
Def(f, ps, t, ls, b) == [op |-> "def", name |-> f, params |-> ps, type |-> t, locals |-> ls, body |-> b]
Equal(x, v)      == [op |-> "equal", left |-> Var(x), right |-> Number(v)]

-----------------------------------------------------------------------------
(* What a program means: the statements of the reference, one after the    *)
(* other.  vars are the variables, out what is printed, done and value     *)
(* tell of a return.  A loop of a range runs twice.                        *)
FunctionNamed(f) == CHOOSE n \in {program[i] : i \in DOMAIN program} : n.op = "def" /\ n.name = f
IsArray(e)       == e.op = "name" /\ \E i \in DOMAIN program : program[i].op = "array" /\ program[i].name = e.name
Returned(env)    == [env EXCEPT !.done = FALSE]

RECURSIVE Means(_, _, _), MeansOne(_, _, _), ValueOf(_, _, _)

ValueOf(e, table, env) ==
    CASE e.op \in {"number", "float", "bool"} -> [env EXCEPT !.value = e.value]
      [] e.op = "name"  -> [env EXCEPT !.value = env.vars[PlaceOf(e.name, table)]]
      [] e.op = "element" -> [env EXCEPT !.value = env.vars[PlaceOf(e.name, table)][e.index + 1]]
      [] e.op = "sum"   -> [env EXCEPT !.value = ValueOf(e.left, table, env).value + ValueOf(e.right, table, env).value]
      [] e.op = "equal" -> [env EXCEPT !.value = IF env.vars[PlaceOf(e.left.name, table)] = e.right.value THEN 1 ELSE 0]
      [] e.op = "call"  ->
            LET f == FunctionNamed(e.name)
                inner == [fn |-> f.name, locals |-> f.locals]
                args == [p \in {<<f.name, x>> : x \in ToSet(f.params)} |->
                           ValueOf(e.args[CHOOSE a \in DOMAIN f.params : p[2] = f.params[a]], table, env).value]
            IN  Returned(Means(f.body, inner, [env EXCEPT !.vars = args @@ env.vars]))

MeansOne(n, table, env) ==
    CASE n.op \in {"definition", "assignment"} ->
            LET v == ValueOf(n.value, table, env)
                old == env.vars[PlaceOf(n.name, table)]
                new == IF n.op = "assignment" /\ n.assign = "+=" THEN old + v.value ELSE v.value
            IN  [v EXCEPT !.vars = (PlaceOf(n.name, table) :> new) @@ v.vars]
      [] n.op = "declaration" -> [env EXCEPT !.vars = (PlaceOf(n.name, table) :> 0) @@ env.vars]
      [] n.op = "array"  -> [env EXCEPT !.vars = (PlaceOf(n.name, table) :> n.values) @@ @]
      [] n.op = "put"    -> [env EXCEPT !.vars = [@ EXCEPT ![PlaceOf(n.name, table)] = [@ EXCEPT ![n.index + 1] = n.value.value]]]
      [] n.op = "print"  -> LET v == ValueOf(n.value, table, env)
                            IN  [v EXCEPT !.out = @ \o IF IsArray(n.value) THEN v.value ELSE <<v.value>>]
      [] n.op = "return" -> [ValueOf(n.value, table, env) EXCEPT !.done = TRUE]
      [] n.op = "call"   -> ValueOf(n, table, env)
      [] n.op = "if"     -> IF ValueOf(n.cond, table, env).value = 1 THEN Means(n.body, table, env)
                            ELSE IF n.alternate = <<>> THEN env
                            ELSE MeansOne(n.alternate[1], table, env)
      [] n.op = "else"   -> Means(n.body, table, env)
      [] n.op = "for"    -> Means(n.body \o n.body, table, env)
      [] OTHER           -> env

Means(nodes, table, env) ==
    IF nodes = <<>> \/ env.done THEN env
    ELSE Means(Tail(nodes), table, MeansOne(Head(nodes), table, env))

Meaning == Means(program, MainTable, [vars |-> <<>>, out |-> <<>>, done |-> FALSE, value |-> 0]).out

-----------------------------------------------------------------------------
(* The programs the generator is right about.                              *)
RECURSIVE Statements(_), Ends(_)

(* Every statement of a sequence, and of the bodies in it.                 *)
Statements(nodes) ==
    ToSet(nodes)
      \cup UNION {Statements(n.body) : n \in {m \in ToSet(nodes) : m.op \in {"if", "else", "for", "while", "def"}}}
      \cup UNION {Statements(n.alternate) : n \in {m \in ToSet(nodes) : m.op = "if"}}

AllOf(nodes, Ok(_)) == \A n \in Statements(nodes) : Ok(n)

(* A body that returns whichever way it goes.                              *)
Ends(nodes) == /\ nodes # <<>>
               /\ LET n == nodes[Len(nodes)]
                  IN  \/ n.op = "return"
                      \/ n.op = "if" /\ n.alternate # <<>> /\ Ends(n.body) /\ Ends(n.alternate[1].body)

IfsOf(nodes)      == {i \in DOMAIN nodes : nodes[i].op = "if"}
ReturnsLast(nodes) == \A i \in DOMAIN nodes : nodes[i].op = "return" => i = Len(nodes)

Generated(n) ==
    /\ n.op \notin {"for", "while"}
    /\ n.op = "if" => n.alternate = <<>> \/ n.alternate[1].op = "else"      \* no elif
    /\ n.op \in {"if", "else", "def"} => ReturnsLast(n.body)
    /\ n.op = "assignment" => n.assign = "="
    /\ n.op = "print" => n.value.op \notin {"call", "element", "bool"}
    /\ n.op # "put"

(* No global is written in a function or an if.                            *)
LocalOnly(nodes, locals) == AllOf(nodes, LAMBDA n : n.op \in {"definition", "declaration", "assignment"} => n.name \in locals)

(* The block called merge is left open by one if, and must not be reached. *)
SoundFunction(n) ==
    /\ LocalOnly(n.body, n.locals)
    /\ IF n.type = "void" THEN Cardinality(IfsOf(n.body)) # 1
       ELSE Ends(n.body) /\ (n.body[Len(n.body)].op = "if" => Cardinality(IfsOf(n.body)) = 1)

(* After an if of the main program the builder stays in its last block.    *)
SoundTop(nodes) ==
    \A i \in IfsOf(nodes) :
        /\ LocalOnly(<<nodes[i]>>, {})
        /\ \A j \in (i + 1)..Len(nodes) : nodes[j].op \notin {"definition", "declaration", "assignment", "def"}

(* A definition stores what it is given: a local literal is an int or f32. *)
LocalTypes ==
    \A n \in {program[i] : i \in DOMAIN program} : n.op = "def" =>
        AllOf(n.body, LAMBDA m : m.op = "definition" => m.type \notin {"int64", "f64"})

TypeIn(x, nodes) == (CHOOSE n \in {nodes[i] : i \in DOMAIN nodes} : n.op \in {"definition", "declaration"} /\ n.name = x).type
SameTypes(nodes) ==
    \A i \in DOMAIN nodes : nodes[i].op = "definition" =>
        CASE nodes[i].value.op = "name" -> nodes[i].type \in {TypeIn(nodes[i].value.name, nodes), "f64"}
          [] nodes[i].value.op = "call" -> nodes[i].type = "int"
          [] nodes[i].value.op = "element" -> FALSE
          [] OTHER -> TRUE

(* printf has no format for a bool, nor for a sum that begins with a name. *)
PrintsNothing ==
    \/ \E d, n \in ToSet(program) : d.op = "definition" /\ d.type = "bool" /\ n.op = "print" /\ n.value = Var(d.name)
    \/ ~AllOf(program, LAMBDA n : n.op = "print" /\ n.value.op = "sum" => n.value.left.op # "name")

PassesLiterals == AllOf(program, LAMBDA n : \A e \in Uses(n) : e.op = "call" => \A a \in DOMAIN e.args : e.args[a].op \in {"number", "sum"})

(* The program goes down: what a statement uses stands above it.           *)
NamesIn(e) == CASE e.op \in {"name", "element"} -> {e.name}
                [] e.op \in {"equal", "sum"} -> UNION {{o.name} : o \in {m \in {e.left, e.right} : m.op = "name"}}
                [] e.op = "call"  -> {e.name} \cup UNION {{a.name} : a \in {m \in ToSet(e.args) : m.op = "name"}}
                [] OTHER          -> {}
NamesUsed(n)  == UNION {NamesIn(e) : e \in Uses(n)}
MadeBy(nodes) == {n.name : n \in {m \in ToSet(nodes) : m.op \in {"definition", "declaration", "array", "def"}}}
UsedBy(n)     == IF n.op = "def" THEN UNION {NamesUsed(m) : m \in Statements(n.body)} \ n.locals ELSE NamesUsed(n)
GoesDown      == \A i \in DOMAIN program : UsedBy(program[i]) \subseteq MadeBy(SubSeq(program, 1, i - 1))

Sound ==
    /\ GoesDown
    /\ AllOf(program, Generated) /\ PassesLiterals
    /\ SoundTop(program) /\ SameTypes(program) /\ LocalTypes /\ ~PrintsNothing
    /\ \A i \in DOMAIN program : program[i].op = "def" => SoundFunction(program[i])

-----------------------------------------------------------------------------
(* Programs.  First: functions, called with 0 and with 1, of a parameter   *)
(* p, a local x and the global a; with up to two statements, some of them  *)
(* ifs with one another's bodies, and a return.                            *)
g == Def("g", <<"q">>, "void", {"q"}, <<Shows(Var("q"))>>)

BodyLeaves == {<<>>, <<Shows(Number(7))>>, <<Assign("x", "=", Number(3))>>, <<Assign("a", "=", Number(2))>>, <<Gives(Number(4))>>}
Ifs   == {IfElse(Equal("p", 1), b, alternate) : b \in BodyLeaves,
             alternate \in {<<>>} \cup {ElseOf(e) : e \in {<<Shows(Number(8))>>, <<Gives(Number(5))>>, <<Assign("a", "=", Number(2))>>}}}
Nests == {IfElse(Equal("p", 1), <<i>>, ElseOf(e)) : i \in Ifs, e \in {<<Gives(Number(6))>>, <<Shows(Number(6))>>}}
Inner == {Assign("x", "=", Sum(Var("x"), Number(3))), Shows(Var("x")), Assign("a", "=", Var("p")), CallOf("g", <<Sum(Var("x"), Var("p"))>>), CallOf("g", <<Var("p")>>)}

IntBodies  == {s \o e : s \in SeqOf(Inner \cup Ifs, 2), e \in {<<>>, <<Gives(Var("x"))>>}} \cup {<<n>> : n \in Nests}
VoidBodies == {s \in {b \o e : b \in SeqOf(Inner \cup Ifs, 2), e \in {<<>>, <<Shows(Var("p"))>>}} \cup {<<n>> : n \in Nests} :
                 AllOf(s, LAMBDA n : n.op # "return")}

F(t, b) == Def("f", <<"p">>, t, {"p", "x"}, <<Define("x", "int", Number(2))>> \o b)
IntPrograms  == {<<Define("a", "int", Number(1)), g, F("int", b), Define("r", "int", CallOf("f", <<Number(0)>>)), Shows(Var("r")),
                   Define("s", "int", CallOf("f", <<Number(1)>>)), Shows(Var("s")), Shows(Var("a"))>> :
                     b \in {s \in IntBodies : ~AllOf(s, LAMBDA n : n.op # "return")}}
VoidPrograms == {<<Define("a", "int", Number(1)), g, F("void", b), CallOf("f", <<Number(0)>>), CallOf("f", <<Number(1)>>), Shows(Var("a"))>> :
                   b \in VoidBodies}

(* Second: statements of the main program.                                 *)
TopIfs == {IfElse(c, b, alternate) : c \in {Equal("a", 1), Var("t")}, b \in {<<Shows(Number(7))>>, <<Assign("a", "=", Number(2))>>},
              alternate \in {<<>>, ElseOf(<<Shows(Number(8))>>)}}
TopStatements == TopIfs \cup
    {Define("b", "int", Var("a")), Declare("d", "int"), Assign("a", "=", Number(0)), Assign("a", "+=", Number(1)), Shows(Var("a")),
     Assign("a", "=", Sum(Var("a"), Number(1))), Shows(Sum(Number(1), Var("a"))), Shows(Sum(Var("a"), Number(1))),
     CallOf("g", <<Number(3)>>), Def("h", <<>>, "void", {}, <<Shows(Number(9))>>), Shows(CallOf("g", <<Number(3)>>)), CallOf("g", <<CallOf("g", <<Number(3)>>)>>),
     For(<<Shows(Number(5))>>), While(<<Shows(Number(5))>>)}
TopPrograms == {<<Define("a", "int", Number(1)), Define("t", "bool", Bool(0)), g>> \o s \o <<Shows(Var("a"))>> :
                  s \in SeqOf(TopStatements, 2)}

(* Third: definitions by a variable of another type; and what is used      *)
(* before it is there.                                                     *)
Numbers(t) == IF t \in {"int", "int64"} THEN Number(4) ELSE Float(4)
TypePrograms == {<<Define("v", t, Numbers(t)), Define("w", u, Var("v")), Shows(Var("w"))>> :
                   <<t, u>> \in ({"int", "int64"} \X {"int", "int64"}) \cup ({"f32", "f64"} \X {"f32", "f64"})}
EarlyPrograms == {<<Def("h", <<>>, "void", {}, <<CallOf("g", <<Number(1)>>)>>), g, CallOf("h", <<>>)>>,
                  <<Def("h", <<>>, "void", {}, <<Shows(Var("a"))>>), Define("a", "int", Number(1)), CallOf("h", <<>>)>>,
                  <<Def("h", <<>>, "void", {"y"}, <<Declare("y", "int"), Shows(Var("y"))>>), CallOf("h", <<>>)>>}

LocalPrograms == {<<Def("h", <<>>, "void", {"y"}, <<Define("y", t, Numbers(t)), Shows(Var("y"))>>), CallOf("h", <<>>)>> :
                    t \in {"int", "int64", "f32", "f64"}}
                 \cup {<<Def("h", <<>>, t, {}, <<Gives(Number(4))>>), Define("w", t, CallOf("h", <<>>)), Shows(Var("w"))>> : t \in {"int", "int64"}}

(* Fourth: arrays, and a bool.                                             *)
ArrayStatements == {Put("l", 0, Number(6)), Put("l", 1, Number(6)), Define("b", "int", Element("l", 1)), Shows(Var("l")),
                    Shows(Element("l", 1)), IfElse(Equal("a", 1), <<Shows(Var("l"))>>, <<>>)}
ArrayPrograms == {<<Define("a", "int", Number(1)), Array("l", k, <<4, 5>>)>> \o s \o <<Shows(Var("l")), Shows(Var("a"))>> :
                    k \in {"fixed", "static", "dynamic"}, s \in SeqOf(ArrayStatements, 2)}
                 \cup {<<Define("t", "bool", Bool(v)), Shows(Var("t")), Shows(Number(7))>> : v \in {0, 1}}

MCPrograms == IntPrograms \cup VoidPrograms \cup TopPrograms \cup TypePrograms \cup LocalPrograms \cup EarlyPrograms \cup ArrayPrograms

(* And, for the run that shows it: an if with an elif, of the main program.*)
MCElifPrograms == {<<Define("a", "int", Number(v)),
                     IfElse(Equal("a", 1), <<Shows(Number(7))>>, Elif(Equal("a", 2), <<Shows(Number(8))>>, rest))>> :
                       v \in 0..3, rest \in {<<>>, ElseOf(<<Shows(Number(9))>>)}}

(* The statements the programs are made of, down to the innermost.  (TLC   *)
(* keeps the value of a definition, but not of what a constant is put for.)*)
AllStatements  == UNION {Statements(p) : p \in MCPrograms}
ElifStatements == UNION {Statements(p) : p \in MCElifPrograms}
MCTrees     == AllStatements
MCElifTrees == ElifStatements

-----------------------------------------------------------------------------
(* A sound program is generated as a module LLVM takes, and prints, in     *)
(* order, what its statements say: visit and the builder it moves.         *)
SoundProgramsDoWhatTheySay ==
    phase # "compile" /\ Sound =>
        /\ phase \in {"run", "exited"}
        /\ IsPrefix(output, Meaning)
        /\ phase = "exited" => output = Meaning

(* Of the programs that are not sound, LLVM refuses the module or the      *)
(* generator gives up, unless there is an elif, a loop, a definition of    *)
(* another type, an assignment to an element or a print of nothing: no     *)
(* other program runs and does something else.                             *)
NothingElseIsSilent ==
    /\ phase = "exited"
    /\ SameTypes(program) /\ LocalTypes /\ ~PrintsNothing
    /\ AllOf(program, LAMBDA n : n.op \notin {"for", "put"} /\ (n.op = "if" => n.alternate = <<>> \/ n.alternate[1].op = "else"))
    => output = Meaning

(* Every program is compiled to its end, and a sound one runs to its own.  *)
SoundProgramsExit == <>(phase \in {"rejected", "undefined", "thrown", "exited"}) /\ (Sound => <>(phase = "exited"))

(* The reference: "The elif block is executed if the if block evaluates to *)
(* false and the elif expression evaluates to true."                       *)
ElifsAreConditional == phase = "exited" => output = Meaning

=============================================================================
