------------------------------ MODULE Codegen ------------------------------
(***************************************************************************)
(* The code generator (DonsusCodeGenerator, src/src/codegen/codegen.cc):   *)
(* the statements of a program, which passed the checks, become basic      *)
(* blocks of LLVM, and what LLVM then does with them.                      *)
(*                                                                         *)
(* A builder appends instructions to the block it stands in.  Every        *)
(* statement moves it, and the next one goes on from there: the program is *)
(* right when the builder stands in the right block, each block ends with  *)
(* its one terminator, and the blocks do what the statements say.          *)
(*                                                                         *)
(* LLVM is external.  Its verifier takes a module whose blocks are whole   *)
(* and whose instructions have types that fit; dominance is left out, the  *)
(* programs use a local where its block is known to have run.              *)
(***************************************************************************)
EXTENDS Integers, Sequences, SequencesExt, FiniteSets, TLC

CONSTANTS
    Programs,       \* sequences of statements
    Trees           \* the statements they are made of, down to the innermost

VARIABLES
    program,
    todo,       \* what compile still has to do: a stack of nodes and ends
    blocks,     \* the blocks, each with its function, its name and its code
    insert,     \* the block the builder stands in
    places,     \* sym.inst: the variables that have storage, and its type
    arrays,     \* sym.array: their kind, and the values they were given
    funs,       \* the functions: their first block, parameters and type
    last,       \* what the last statement of a body was compiled to
    phase,      \* "compile", "rejected", "run", "exited", "undefined", "thrown"
    frames,     \* the instructions to go on with, innermost call first
    memory,     \* what is stored, and as which type
    result,     \* of the last call that returned
    output      \* what has been printed

code == <<todo, blocks, insert, places, arrays, funs, last>>
machine == <<frames, memory, result, output>>
vars == <<program, code, phase, machine>>

(* The bodies of statements, and the values of arrays, are sequences.      *)
ASSUME ProgramAssumption ==
    /\ Programs \subseteq Seq(Trees)
    /\ \A n \in Trees :
          /\ n.op \in {"if", "def"} => n.body \in Seq(Trees)
          /\ n.op = "if" /\ n.alternate # <<>> => n.alternate[1].body \in Seq(Trees)
          /\ n.op = "array" => n.values \in Seq(Int)

-----------------------------------------------------------------------------
(* The tree.  A function's node carries the names in its symbol table.     *)
Number(v)  == [op |-> "number", value |-> v]
Float(v)   == [op |-> "float", value |-> v]
Bool(v)    == [op |-> "bool", value |-> v]
Var(x)     == [op |-> "name", name |-> x]
CallOf(f, args) == [op |-> "call", name |-> f, args |-> args]
Sum(l, r)       == [op |-> "sum", left |-> l, right |-> r]
Element(a, i)   == [op |-> "element", name |-> a, index |-> i]

Junk == -1      \* what a wrongly sized store leaves behind

map_type == ("int" :> "i32") @@ ("int64" :> "i64") @@ ("f32" :> "float") @@ ("f64" :> "double")
              @@ ("bool" :> "i8") @@ ("void" :> "void")

(* setInst, setSym: what a symbol had is replaced.                         *)
With(f, x, v) == [y \in DOMAIN f \cup {x} |-> IF y = x THEN v ELSE f[y]]

MainBlock == 1
Top       == todo[1]
Rest      == Tail(todo)
NodesOf(nodes, table) == [n \in DOMAIN nodes |-> [do |-> "node", node |-> nodes[n], table |-> table]]

(* The builder.  LLVM gives a block another name when its function has one *)
(* of that name already.                                                   *)
Emit(instructions, at) == [blocks EXCEPT ![at].code = @ \o instructions]
NewBlock(f, name) ==
    [fn |-> f, code |-> <<>>,
     name |-> IF \E b \in DOMAIN blocks : blocks[b].fn = f /\ blocks[b].name = name THEN name \o "'" ELSE name]

Terminators == {"br", "condbr", "ret", "retvoid", "unreachable"}
Terminated(c) == c # <<>> /\ c[Len(c)].op \in Terminators

(* is_global_sym and the look-up of a name from a table.                   *)
(* (A slip: every name is taken for a global one.)                         *)
is_global_sym_all(x, table) == TRUE
is_global_sym(x, table) == x \notin table.locals
PlaceOf(x, table) == <<IF is_global_sym(x, table) THEN "main" ELSE table.fn, x>>

(* compile of an expression: its instructions, and the value with its type *)
(* that they leave; a literal takes the type its context gives it, and an  *)
(* element of an array is its address.                                     *)
Value(type, from)    == [type |-> type, from |-> from, value |-> 0, place |-> <<>>, operands |-> <<>>]
Literal(type, v)     == [Value(type, "literal") EXCEPT !.value = v]
Load(place)          == [Value(places[place], "place") EXCEPT !.place = place]
Operand(e, table) == IF e.op = "name" THEN Load(PlaceOf(e.name, table)) ELSE Literal("i32", e.value)
Compiled(e, table, type) ==
    CASE e.op = "number" -> Literal(map_type[type], e.value)
      [] e.op = "sum"    -> [Value("i32", "sum") EXCEPT !.operands = <<Operand(e.left, table), Operand(e.right, table)>>]
      [] e.op = "float"  -> Literal("float", e.value)
      [] e.op = "bool"   -> Literal("i8", e.value)
      [] e.op = "name"   -> Load(PlaceOf(e.name, table))
      [] e.op = "call"   -> Value(funs[e.name].type, "result")
      [] e.op = "element" -> Value("ptr", "literal")

(* function_call: a variable is passed by its address, whatever the        *)
(* parameter's type is.                                                    *)
Argument(e, table) == IF e.op = "name" THEN Value("ptr", "literal") ELSE Compiled(e, table, "int")
Calls(e, table) ==
    IF e.op # "call" THEN <<>>
    ELSE <<[op |-> "call", fn |-> e.name, args |-> [a \in DOMAIN e.args |-> Argument(e.args[a], table)]]>>

Store(value, place)    == <<[op |-> "store", value |-> value, place |-> place, as |-> value.type]>>
Extended(value, place) == <<[op |-> "store", value |-> value, place |-> place, as |-> "double"]>>

-----------------------------------------------------------------------------
(* visit, a kind of statement at a time.                                   *)
(* What an expression needs has been generated before it: without storage  *)
(* or a function the handle is null.                                       *)
Known(e, table) ==
    CASE e.op \in {"name", "element"} -> PlaceOf(e.name, table) \in DOMAIN places
      [] e.op \in {"equal", "sum"} -> \A o \in {e.left, e.right} : o.op = "name" => PlaceOf(o.name, table) \in DOMAIN places
      [] e.op = "call"  -> e.name \in DOMAIN funs
      [] OTHER          -> TRUE

Uses(n) == CASE n.op \in {"definition", "print", "return"} -> {n.value}
             [] n.op \in {"assignment", "put"} -> {n.value, Var(n.name)}
             [] n.op = "if"         -> {n.cond}
             [] n.op = "call"       -> {n}
             [] OTHER               -> {}
AtNode  == phase = "compile" /\ todo # <<>> /\ Top.do = "node"
Null    == \E e \in Uses(Top.node) : ~Known(e, Top.table)

(* sym_from_node knows no symbol of a call: not to print it, and not to    *)
(* pass it on.                                                             *)
NoSymbol == \/ Top.node.op = "print" /\ Top.node.value.op = "call"
            \/ \E e \in Uses(Top.node) : e.op = "call" /\ \E a \in DOMAIN e.args : e.args[a].op = "call"
Ready    == ~NoSymbol /\ ~Null

Node(op) == AtNode /\ Top.node.op = op /\ Ready
Done     == todo' = Rest /\ last' = "value" /\ UNCHANGED <<program, phase, machine>>

(* A global: the store of another type is dropped, except into an f64; the *)
(* builder goes back to the main block, wherever it was.                   *)
AfterGlobal == MainBlock

GlobalStore(v, type, place) ==
    CASE v.type = map_type[type] -> Store(v, place)
      [] type = "f64"            -> Extended(v, place)
      [] OTHER                   -> <<>>

GlobalDefinition ==
    /\ Node("definition")
    /\ LET n == Top.node  v == Compiled(n.value, Top.table, n.type)  place == <<"main", n.name>>
       IN  /\ is_global_sym(n.name, Top.table)
           /\ blocks' = Emit(Calls(n.value, Top.table) \o GlobalStore(v, n.type, place), insert)
           /\ places' = With(places, place, map_type[n.type])
    /\ insert' = AfterGlobal
    /\ Done /\ UNCHANGED <<funs, arrays>>

GlobalDeclaration ==
    /\ Node("declaration") /\ is_global_sym(Top.node.name, Top.table)
    /\ places' = With(places, <<"main", Top.node.name>>, map_type[Top.node.type])
    /\ insert' = AfterGlobal
    /\ Done /\ UNCHANGED <<blocks, funs, arrays>>

(* A local: whatever the type is, it is stored.                            *)
LocalVariable ==
    /\ Node("definition") \/ Node("declaration")
    /\ LET n == Top.node
           v == IF n.op = "definition" THEN Compiled(n.value, Top.table, "int") ELSE Literal(map_type[n.type], 0)
           place == <<Top.table.fn, n.name>>
       IN  /\ ~is_global_sym(n.name, Top.table)
           /\ blocks' = Emit((IF n.op = "definition" THEN Calls(n.value, Top.table) ELSE <<>>) \o Store(v, place), insert)
           /\ places' = With(places, place, map_type[n.type])
    /\ Done /\ UNCHANGED <<insert, funs, arrays>>

(* An assignment to a global goes to the main block, from everywhere.      *)
(* Another operator than = takes the address for its left side.            *)
Assignment ==
    /\ Node("assignment")
    /\ LET n == Top.node
           at == IF is_global_sym(n.name, Top.table) THEN MainBlock ELSE insert
           v  == IF n.assign = "=" THEN Compiled(n.value, Top.table, "int") ELSE Value("bad", "literal")
       IN  /\ blocks' = Emit(Calls(n.value, Top.table) \o Store(v, PlaceOf(n.name, Top.table)), at)
           /\ insert' = at
    /\ Done /\ UNCHANGED <<places, funs, arrays>>

(* An array is a global.  (In a function its definition does nothing.)     *)
ArrayDefinition ==
    /\ Node("array") /\ is_global_sym(Top.node.name, Top.table)
    /\ LET n == Top.node
       IN  /\ places' = With(places, <<"main", n.name>>, "array")
           /\ arrays' = With(arrays, <<"main", n.name>>, [kind |-> n.kind, values |-> n.values])
           /\ blocks' = IF n.kind # "dynamic" THEN blocks
                        ELSE Emit([i \in DOMAIN n.values |-> Store(Literal("i32", n.values[i]), <<"main", n.name>>)[1]], insert)
    /\ Done /\ UNCHANGED <<insert, funs>>

(* An element is assigned where the array begins, whichever it is.         *)
ElementAssignment ==
    /\ Node("put")
    /\ LET n == Top.node  at == IF is_global_sym(n.name, Top.table) THEN MainBlock ELSE insert
       IN  /\ blocks' = Emit(Store(Compiled(n.value, Top.table, "int"), PlaceOf(n.name, Top.table)), at)
           /\ insert' = at
    /\ Done /\ UNCHANGED <<places, funs, arrays>>

(* printf, whose format has nothing for a bool, nor for an expression that *)
(* begins with a variable (assume_type).  Of an array it is given the      *)
(* values of its definition.                                               *)
printf_format(e, v) == v.type # "i8" /\ (e.op = "sum" => e.left.op # "name")

Printed(e, table) ==
    IF e.op = "name" /\ PlaceOf(e.name, table) \in DOMAIN arrays
    THEN LET values == arrays[PlaceOf(e.name, table)].values IN [i \in DOMAIN values |-> Literal("i32", values[i])]
    ELSE <<Compiled(e, table, "int")>>

PrintCall ==
    /\ Node("print") /\ Top.node.value.op # "element"
    /\ LET values == Printed(Top.node.value, Top.table)
       IN  blocks' = Emit([i \in DOMAIN values |-> [op |-> "print", value |-> values[i], shown |-> printf_format(Top.node.value, values[i])]], insert)
    /\ Done /\ UNCHANGED <<insert, places, funs, arrays>>

CallStatement ==
    /\ Node("call")
    /\ blocks' = Emit(Calls(Top.node, Top.table), insert)
    /\ Done /\ UNCHANGED <<insert, places, funs, arrays>>

Return ==
    /\ Node("return")
    /\ blocks' = Emit(Calls(Top.node.value, Top.table)
                        \o <<[op |-> "ret", value |-> Compiled(Top.node.value, Top.table, "int")]>>, insert)
    /\ todo' = Rest /\ last' = "ret"
    /\ UNCHANGED <<program, phase, machine, insert, places, funs, arrays>>

(* A for loop is no code at all.                                           *)
ForLoop == Node("for") /\ Done /\ UNCHANGED <<blocks, insert, places, funs, arrays>>

Throws ==
    /\ AtNode /\ NoSymbol
    /\ phase' = "thrown" /\ UNCHANGED <<program, code, machine>>

(* A while loop has no case in compile, a handle may be null, and to print *)
(* an element is to load what has no type: the behaviour is undefined.     *)
Undefined ==
    /\ AtNode /\ ~NoSymbol
    /\ Top.node.op = "while" \/ Null \/ (Top.node.op = "print" /\ Top.node.value.op = "element")
    /\ phase' = "undefined" /\ UNCHANGED <<program, code, machine>>

-----------------------------------------------------------------------------
(* An if: three blocks.  The branch to the last one is left out when the   *)
(* last statement of a body is a return.                                   *)
Condition(e, table) ==
    IF e.op = "equal" THEN [left |-> Compiled(e.left, table, "int"), right |-> Compiled(e.right, table, "int")]
    ELSE [left |-> Compiled(e, table, "bool"), right |-> Literal("i8", 1)]

If ==
    /\ Node("if")
    /\ LET n == Top.node  f == blocks[insert].fn  b == Len(blocks)
       IN  /\ blocks' = Emit(<<[op |-> "condbr", on |-> Condition(n.cond, Top.table), then |-> b + 1, else |-> b + 2]>>, insert)
                          \o <<NewBlock(f, "then"), NewBlock(f, "else"), NewBlock(f, "merge")>>
           /\ insert' = b + 1
           /\ todo' = NodesOf(n.body, Top.table)
                        \o <<[do |-> "else", node |-> n, table |-> Top.table, block |-> b + 2]>> \o Rest
    /\ last' = "none"
    /\ UNCHANGED <<program, phase, machine, places, funs, arrays>>

(* (A slip: a body that returns is branched from as well.)                 *)
Branch_always(to) == <<[op |-> "br", to |-> to]>>
Branch(to)        == IF last = "ret" THEN <<>> ELSE <<[op |-> "br", to |-> to]>>

(* The alternate, an else or an elif, is read as an else: its body only.   *)
Alternate(n) == IF n.alternate = <<>> THEN <<>> ELSE n.alternate[1].body

Else ==
    /\ phase = "compile" /\ todo # <<>> /\ Top.do = "else"
    /\ blocks' = Emit(Branch(Top.block + 1), insert)
    /\ insert' = Top.block
    /\ todo' = NodesOf(Alternate(Top.node), Top.table) \o <<[do |-> "merge", block |-> Top.block + 1]>> \o Rest
    /\ last' = "none"
    /\ UNCHANGED <<program, phase, machine, places, funs, arrays>>

Merge ==
    /\ phase = "compile" /\ todo # <<>> /\ Top.do = "merge"
    /\ blocks' = Emit(Branch(Top.block), insert)
    /\ insert' = Top.block
    /\ Done /\ UNCHANGED <<places, funs, arrays>>

(* A function: its parameters are stored; then its body.                   *)
FunctionDef ==
    /\ Node("def")
    /\ LET n == Top.node  b == Len(blocks) + 1  table == [fn |-> n.name, locals |-> n.locals]
       IN  /\ blocks' = Append(blocks, NewBlock(n.name, "block"))
           /\ insert' = b
           /\ funs' = With(funs, n.name, [block |-> b, params |-> n.params, type |-> map_type[n.type]])
           /\ places' = [p \in {<<n.name, x>> : x \in ToSet(n.params)} |-> "i32"] @@ places
           /\ todo' = NodesOf(n.body, table) \o <<[do |-> "end", node |-> n]>> \o Rest
    /\ UNCHANGED <<program, phase, machine, last, arrays>>

(* Its end: the block named merge that is not terminated (LLVM has given   *)
(* any other one another name) is unreachable, and the builder stays there *)
(* to return from a void function.                                         *)
Open(f) == {b \in DOMAIN blocks : blocks[b].fn = f /\ blocks[b].name = "merge" /\ ~Terminated(blocks[b].code)}

FunctionEnd ==
    /\ phase = "compile" /\ todo # <<>> /\ Top.do = "end"
    /\ LET f    == Top.node.name
           at   == IF Open(f) = {} THEN insert ELSE CHOOSE b \in Open(f) : TRUE
           ends == (IF Open(f) = {} THEN <<>> ELSE <<[op |-> "unreachable"]>>)
                     \o (IF Top.node.type = "void" THEN <<[op |-> "retvoid"]>> ELSE <<>>)
       IN  blocks' = Emit(ends, at)
    /\ insert' = MainBlock
    /\ Done /\ UNCHANGED <<places, funs, arrays>>

-----------------------------------------------------------------------------
(* Finish, and create_object_file's verification.                          *)
Finished == Emit(<<[op |-> "ret", value |-> Literal("i32", 0)]>>, insert)

TypeOfFn(f) == IF f = "main" THEN "i32" ELSE funs[f].type

(* An instruction that LLVM takes: what it uses is of its function or      *)
(* global, and of the right types.                                         *)
Fits(i, f) ==
    LET Own(v) == v.type # "bad" /\ \A u \in {v} \cup ToSet(v.operands) : u.from = "place" => u.place[1] \in {"main", f}
    IN  CASE i.op = "store"   -> Own(i.value) /\ i.place[1] \in {"main", f}
          [] i.op = "print"   -> Own(i.value)
          [] i.op = "ret"     -> Own(i.value) /\ i.value.type = TypeOfFn(f)
          [] i.op = "retvoid" -> TypeOfFn(f) = "void"
          [] i.op = "br"      -> blocks[i.to].fn = f
          [] i.op = "condbr"  -> blocks[i.then].fn = f /\ Own(i.on.left) /\ Own(i.on.right) /\ i.on.left.type = i.on.right.type
          [] i.op = "call"    -> \A a \in DOMAIN i.args : Own(i.args[a]) /\ i.args[a].type = "i32"
          [] OTHER            -> TRUE

Whole(block) ==
    /\ block.code # <<>>
    /\ \A i \in DOMAIN block.code :
          /\ block.code[i].op \in Terminators <=> i = Len(block.code)
          /\ Fits(block.code[i], block.fn)

verifyModule(bs) == \A b \in DOMAIN bs : Whole(bs[b])

(* (A slip: what the verifier says is only written out.)                   *)
Accepted_all(bs) == TRUE
Accepted(bs)     == verifyModule(bs)

Finish ==
    /\ phase = "compile" /\ todo = <<>>
    /\ blocks' = Finished
    /\ IF Accepted(Finished)
       THEN phase' = "run" /\ frames' = <<[block |-> MainBlock, at |-> 1]>>
       ELSE phase' = "rejected" /\ UNCHANGED frames
    /\ UNCHANGED <<program, todo, insert, places, funs, arrays, last, memory, result, output>>

-----------------------------------------------------------------------------
(* The program that was made, an instruction at a time.                    *)
Ahead   == SubSeq(blocks[frames[1].block].code, frames[1].at, Len(blocks[frames[1].block].code))
Now     == Ahead[1]
At(op)  == phase = "run" /\ Ahead # <<>> /\ Now.op = op
Stored(place) == IF place \in DOMAIN memory THEN memory[place] ELSE [type |-> places[place], value |-> 0]
Leaf(v) == CASE v.from = "literal" -> v.value
             [] v.from = "result"  -> result
             [] v.from = "place"   -> IF Stored(v.place).type = v.type THEN Stored(v.place).value ELSE Junk
Eval(v) == IF v.from = "sum" THEN Leaf(v.operands[1]) + Leaf(v.operands[2]) ELSE Leaf(v)

Onward     == <<[frames[1] EXCEPT !.at = @ + 1]>> \o Tail(frames)
Jump(b)    == frames' = <<[block |-> b, at |-> 1]>> \o Tail(frames)
Running    == UNCHANGED <<program, code, phase>>

(* A static array is a constant.                                           *)
ReadOnly(place) == place \in DOMAIN arrays /\ arrays[place].kind = "static"

RunStore == /\ At("store") /\ ~ReadOnly(Now.place) /\ Running /\ frames' = Onward
            /\ memory' = With(memory, Now.place, [type |-> Now.as, value |-> Eval(Now.value)])
            /\ UNCHANGED <<result, output>>
RunPrint == /\ At("print") /\ Running /\ frames' = Onward
            /\ output' = IF Now.shown THEN Append(output, Eval(Now.value)) ELSE output
            /\ UNCHANGED <<memory, result>>
RunCall  == /\ At("call") /\ Running
            /\ LET fun == funs[Now.fn]
               IN  /\ frames' = <<[block |-> fun.block, at |-> 1]>> \o Onward
                   /\ memory' = [p \in {<<Now.fn, x>> : x \in ToSet(fun.params)} |->
                                   [type |-> "i32", value |-> Eval(Now.args[CHOOSE a \in DOMAIN fun.params : p[2] = fun.params[a]])]]
                                  @@ memory
            /\ UNCHANGED <<result, output>>
RunBranch == /\ Running /\ UNCHANGED <<memory, result, output>>
             /\ \/ At("br") /\ Jump(Now.to)
                \/ At("condbr") /\ Jump(IF Eval(Now.on.left) = Eval(Now.on.right) THEN Now.then ELSE Now.else)
RunRet   == /\ At("ret") \/ At("retvoid")
            /\ result' = IF Now.op = "ret" THEN Eval(Now.value) ELSE result
            /\ frames' = Tail(frames)
            /\ phase' = IF Len(frames) = 1 THEN "exited" ELSE phase
            /\ UNCHANGED <<program, code, memory, output>>
RunUnreachable == /\ At("unreachable") \/ (At("store") /\ ReadOnly(Now.place))
                  /\ phase' = "undefined" /\ UNCHANGED <<program, code, machine>>

-----------------------------------------------------------------------------
MainTable == [fn |-> "main", locals |-> {}]

Init ==
    /\ program \in Programs
    /\ todo = NodesOf(program, MainTable)
    /\ blocks = <<[fn |-> "main", name |-> "entry_point", code |-> <<>>]>> /\ insert = MainBlock
    /\ places = <<>> /\ arrays = <<>> /\ funs = <<>> /\ last = "none"
    /\ phase = "compile"
    /\ frames = <<>> /\ memory = <<>> /\ result = 0 /\ output = <<>>

Next ==
    \/ GlobalDefinition \/ GlobalDeclaration \/ LocalVariable \/ Assignment
    \/ ArrayDefinition \/ ElementAssignment
    \/ PrintCall \/ CallStatement \/ Throws \/ Return \/ ForLoop \/ Undefined
    \/ If \/ Else \/ Merge \/ FunctionDef \/ FunctionEnd \/ Finish
    \/ RunStore \/ RunPrint \/ RunCall \/ RunBranch \/ RunRet \/ RunUnreachable

CodegenSpec == Init /\ [][Next]_vars /\ WF_vars(Next)

-----------------------------------------------------------------------------
(* The builder stands in a block, and what it branches to exists.  What    *)
(* LLVM accepted never runs off the end of a block, whatever returns and   *)
(* branches it takes: each frame stands at an instruction, and the         *)
(* outermost one stays in main.                                            *)
CodegenTypeOK ==
    /\ insert \in DOMAIN blocks
    /\ \A b \in DOMAIN blocks : \A i \in DOMAIN blocks[b].code :
          LET c == blocks[b].code[i]
          IN  /\ c.op = "br" => c.to \in DOMAIN blocks
              /\ c.op = "condbr" => {c.then, c.else} \subseteq DOMAIN blocks
    /\ last \in {"none", "value", "ret"}
    /\ phase \in {"compile", "rejected", "run", "exited", "undefined", "thrown"}
    /\ phase = "run" => frames # <<>> /\ blocks[frames[Len(frames)].block].fn = "main"
    /\ \A f \in DOMAIN frames :
          frames[f].block \in DOMAIN blocks /\ frames[f].at \in DOMAIN blocks[frames[f].block].code

=============================================================================
