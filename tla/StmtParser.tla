----------------------------- MODULE StmtParser -----------------------------
(***************************************************************************)
(* The statement parser (donsus_parse, donsus_statements and a function    *)
(* for every statement in src/src/parser.cc), on top of the expressions.   *)
(* A statement's call is on the stack of ExprParser, which runs the        *)
(* expressions in it.                                                      *)
(*                                                                         *)
(* Nobody owns the token a statement ends with: some functions leave it    *)
(* current, some the one after it, and the loops around them always take   *)
(* one more.  The body loop also passes over what it does not recognise    *)
(* without a word.  Errors are only counted; parsing goes on.              *)
(***************************************************************************)
EXTENDS ExprParser

Assigns == {"="}        \* =, +=, -=, *= and /= are parsed alike

(* A call of a statement's function: the token it starts at, what it has   *)
(* collected, and, of a body, which of its tests comes next.               *)
Stmt(fn, at) == [fn |-> fn, pc |-> "start", at |-> at, args |-> <<>>, body |-> <<>>,
                 alternate |-> <<>>, test |-> 1]

Descend(fn, pc)   == calls' = <<Stmt(fn, cur'), [top EXCEPT !.pc = pc]>> \o Tail(calls)
Into(call)        == calls' = <<call>> \o Tail(calls)
Block(ss)         == Node("block", ss)
Yield(kind, kids) == Return([Node(kind, kids) EXCEPT !.value = TokenAt(top.at).value])

(* donsus_parser_except, which moves on, and donsus_parser_except_current. *)
Fails(bad)   == failed' = (failed \/ bad)
Except(n, k) == Skip(n) /\ Fails(Peek(n) # k)

(* The number of a missing handle: it is not kept in a list.               *)
With(ss, tree) == IF tree = Nothing THEN ss ELSE Append(ss, tree)

(* An if without a condition is reported by whom called for it.            *)
NoCondition(tree) == tree.op = "if" /\ tree.kids[1].kids = <<>>

-----------------------------------------------------------------------------
(* donsus_parse: the statements at the top.                                *)
TopFn ==
    CASE Current = "name" /\ Peek(1) = "("                         -> "decl"
      [] Current = "name" /\ Peek(1) = ":"                         -> "var"
      [] Current = "name" /\ Peek(1) \in Assigns \cup {"["}        -> "assign"
      [] Current = "name" /\ Peek(1) = "," /\ Peek(2) = "name"     -> "multi"
      [] Current \in {"if", "while", "for", "print", "def"}        -> Current
      [] OTHER                                                     -> "none"

TopStatement ==
    /\ Running("parse", "start") /\ TopFn # "none"
    /\ Skip(0) /\ Descend(TopFn, "add")
    /\ UNCHANGED <<input, result, list, failed, outcome>>

TopAdd ==
    /\ Running("parse", "add")
    /\ list' = With(list, result)
    /\ Fails(NoCondition(result))
    /\ Skip(1)
    /\ Goto("start")
    /\ UNCHANGED <<input, result, outcome>>

TopOther ==
    /\ Running("parse", "start") /\ TopFn = "none" /\ Current # "end"
    /\ Fails(Current \notin {"newline", ";"})
    /\ Skip(1)
    /\ UNCHANGED <<input, calls, result, list, outcome>>

TopEnd ==
    /\ Running("parse", "start") /\ Current = "end"
    /\ outcome' = IF failed THEN "rejected" ELSE "accepted"
    /\ calls' = <<>>
    /\ UNCHANGED <<input, cur, result, list, failed>>

-----------------------------------------------------------------------------
(* donsus_statements: five tests in a row, each of whatever the statement  *)
(* before it has left current; a token passed over; two more tests.        *)
(* (A slip: an operator missing from the second list of them.)             *)
BodyAssigns_none == {}
BodyAssigns      == Assigns

BodyFn(t) ==
    CASE t = 1 /\ Current = "def"                   -> "def"
      [] t = 2 /\ Current = "print"                 -> "print"
      [] t = 3 /\ Current = "name" /\ Peek(1) = "(" -> "decl"
      [] t = 3 /\ Current = "name" /\ Peek(1) = ":" -> "var"
      [] t = 4 /\ Current = "while"                 -> "while"
      [] t = 5 /\ Current = "if"                    -> "if"
      [] t = 7 /\ Current \in {"name", "number"} /\ Peek(1) \in BodyAssigns -> "assign"
      [] t = 8 /\ Current = "return"                -> "return"
      [] OTHER                                      -> "none"

Passing == 6
Recognised(t) == {u \in t..(IF t <= Passing THEN 5 ELSE 8) : BodyFn(u) # "none"}

EndsBody_brace_only(k) == k = "}"   \* a slip
EndsBody(k) == k \in {"}", "end"}

BodyGoesOn == Running("statements", "start") /\ ~(top.test = 1 /\ EndsBody(Current))

BodyEnd ==
    /\ Running("statements", "start") /\ top.test = 1 /\ EndsBody(Current)
    /\ Return(Block(top.body))
    /\ UNCHANGED <<input, cur, list, failed, outcome>>

BodyStatement ==
    /\ BodyGoesOn
    /\ \E u \in Recognised(top.test) :
         /\ \A v \in Recognised(top.test) : u <= v
         /\ calls' = <<Stmt(BodyFn(u), cur), [top EXCEPT !.pc = "add", !.test = u + 1]>> \o Tail(calls)
    /\ UNCHANGED <<input, cur, result, list, failed, outcome>>

BodyAdd ==
    /\ Running("statements", "add")
    /\ Into([top EXCEPT !.pc = "start", !.body = With(@, result)])
    /\ Fails(NoCondition(result))
    /\ UNCHANGED <<input, cur, result, list, outcome>>

BodyPasses ==
    /\ BodyGoesOn /\ Recognised(top.test) = {} /\ top.test <= Passing
    /\ Skip(1)
    /\ Into([top EXCEPT !.test = Passing + 1])
    /\ UNCHANGED <<input, result, list, failed, outcome>>

BodyRepeats ==
    /\ BodyGoesOn /\ Recognised(top.test) = {} /\ top.test > Passing
    /\ Into([top EXCEPT !.test = 1])
    /\ UNCHANGED <<input, cur, result, list, failed, outcome>>

-----------------------------------------------------------------------------
(* donsus_variable_decl.  A function that runs off its end returns         *)
(* anything: what happens then is undefined.                               *)
Undefined == outcome' = "undefined" /\ calls' = <<>>

InvalidType_void(k) == k \notin Types   \* a slip: void is not reported
InvalidType(k) == k # "type"

ValueMissing == Peek(2) = "type" /\ Peek(3) = "=" /\ Peek(4) \in {";", "newline"}
EndMissing   == Peek(2) = "type" /\ Peek(3) \notin {"=", "[", ";", ")", ","}

VarFails ==
    /\ Running("var", "start") /\ Peek(1) = ":"
    /\ \/ Peek(2) # "type" /\ Skip(2) /\ Fails(InvalidType(Peek(2)))
       \/ ValueMissing /\ Skip(3) /\ Fails(TRUE)
       \/ EndMissing /\ Skip(2) /\ Fails(TRUE)
    /\ Return(Nothing)
    /\ UNCHANGED <<input, list, outcome>>

(* Its messages cut the text from an offset nothing has set in the node,   *)
(* before the error is counted: past the end of the text substr throws,    *)
(* and no one catches.                                                     *)
VarThrows ==
    /\ Running("var", "start") /\ Peek(1) = ":"
    /\ \/ InvalidType(Peek(2)) /\ Skip(2)
       \/ ValueMissing /\ Skip(3)
       \/ EndMissing /\ Skip(2)
    /\ outcome' = "thrown" /\ calls' = <<>>
    /\ UNCHANGED <<input, result, list, failed>>

VarDeclares ==
    /\ Running("var", "start") /\ Peek(1) = ":" /\ Peek(2) = "type" /\ Peek(3) \in {";", ")", ","}
    /\ Skip(2)
    /\ Yield("declaration", <<>>)
    /\ UNCHANGED <<input, list, failed, outcome>>

VarDefines ==
    /\ Running("var", "start") /\ Peek(1) = ":" /\ Peek(2) = "type" /\ Peek(3) = "="
    /\ Peek(4) \notin {";", "newline"}
    /\ Skip(4)
    /\ CallThen("expr", 0, "defined")
    /\ UNCHANGED <<input, result, list, failed, outcome>>

VarDefined ==
    /\ Running("var", "defined")
    /\ Fails(Current # ";")
    /\ Yield("definition", <<>>)
    /\ UNCHANGED <<input, cur, list, outcome>>

(* An array: its size, if any, and its dot decide where its type ends.     *)
ArrayTypeEnd ==
    CASE Peek(4) = "]"                       -> 5
      [] Peek(4) = "number" /\ Peek(6) = "." -> 7
      [] OTHER                               -> 6

ArrayTypeIs(k) == Peek(4) \in {"]", "number"} /\ Peek(ArrayTypeEnd) = k

VarIsArray == Running("var", "start") /\ Peek(1) = ":" /\ Peek(2) = "type" /\ Peek(3) = "["

ArrayDeclares ==
    /\ VarIsArray /\ ArrayTypeIs(";")
    /\ Skip(ArrayTypeEnd)
    /\ Yield("array", <<>>)
    /\ UNCHANGED <<input, list, failed, outcome>>

ArrayDefines ==
    /\ VarIsArray /\ ArrayTypeIs("=")
    /\ Fails(Peek(ArrayTypeEnd + 1) # "[")
    /\ Skip(ArrayTypeEnd + 2)
    /\ Goto("elements")
    /\ UNCHANGED <<input, result, list, outcome>>

ArrayElement ==
    /\ Running("var", "elements") /\ Current # "]"
    /\ CallThen("expr", 0, "element")
    /\ UNCHANGED <<input, cur, result, list, failed, outcome>>

ArrayComma ==
    /\ Running("var", "element")
    /\ Skip(IF Current = "," THEN 1 ELSE 0)
    /\ Goto("elements")
    /\ UNCHANGED <<input, result, list, failed, outcome>>

ArrayDefined ==
    /\ Running("var", "elements") /\ Current = "]"
    /\ Yield("array", <<>>)
    /\ UNCHANGED <<input, cur, list, failed, outcome>>

VarRunsOff ==
    /\ \/ Running("var", "start") /\ Peek(1) # ":" /\ Skip(1) /\ Fails(TRUE)
       \/ /\ VarIsArray /\ ~ArrayTypeIs(";") /\ ~ArrayTypeIs("=")
          /\ UNCHANGED <<cur, failed>>
    /\ Undefined
    /\ UNCHANGED <<input, result, list>>

-----------------------------------------------------------------------------
(* donsus_variable_multi_decl_def: a, b: int = e; the names are collected  *)
(* while the loop goes over everything up to the semicolon.                *)
Multi ==
    /\ Running("multi", "start") /\ Current \notin {";", "end"}
    /\ IF Current = "="
       THEN Skip(1) /\ CallThen("expr", 0, "rest")
       ELSE Skip(0) /\ Goto("rest")
    /\ UNCHANGED <<input, result, list, failed, outcome>>

MultiRest ==
    /\ Running("multi", "rest")
    /\ LET colon == IF Current = ":" THEN 1 ELSE 0
           comma == IF Peek(colon) = "," THEN 1 ELSE 0
           here  == colon + comma
       IN  /\ Fails(colon = 1 /\ Peek(1) \notin Types)
           /\ Into([top EXCEPT !.pc = "start",
                               !.args = IF Peek(here) = "name" THEN Append(@, TokenAt(cur + here).value) ELSE @,
                               !.body = IF colon = 1 THEN <<Peek(1)>> ELSE @])
           /\ Skip(IF Peek(here) = ";" THEN here ELSE here + 1)
    /\ UNCHANGED <<input, result, list, outcome>>

(* One node for each name, all with the expression that was met.  A type   *)
(* that was not given is uninitialised, and may be void.                   *)
MultiEnd ==
    /\ Running("multi", "start") /\ Current \in {";", "end"}
    /\ list' = list \o [i \in DOMAIN top.args |-> [Node("multi", <<>>) EXCEPT !.value = top.args[i]]]
    /\ \E void \in (IF top.body = <<>> THEN BOOLEAN ELSE {top.body = <<"void">>}) : Fails(void)
    /\ Return(Nothing)
    /\ UNCHANGED <<input, cur, outcome>>

-----------------------------------------------------------------------------
(* donsus_assignments, donsus_return_statement, donsus_print.              *)
Assign ==
    /\ Running("assign", "start")
    /\ Skip(0) /\ CallThen("expr", 0, "operator")
    /\ UNCHANGED <<input, result, list, failed, outcome>>

AssignOperator ==
    /\ Running("assign", "operator")
    /\ Skip(1) /\ Goto("values")
    /\ UNCHANGED <<input, result, list, failed, outcome>>

AssignValue ==
    /\ Running("assign", "values") /\ Current # ";"
    /\ Skip(0) /\ CallThen("expr", 0, "value")
    /\ UNCHANGED <<input, result, list, failed, outcome>>

AssignNext ==
    /\ Running("assign", "value")
    /\ Skip(IF Current = ";" THEN 0 ELSE 2) /\ Goto("values")
    /\ UNCHANGED <<input, result, list, failed, outcome>>

Assigned ==
    /\ Running("assign", "values") /\ Current = ";"
    /\ Yield("assignment", <<>>)
    /\ UNCHANGED <<input, cur, list, failed, outcome>>

Returns ==
    /\ Running("return", "start")
    /\ Skip(1) /\ CallThen("expr", 0, "close")
    /\ UNCHANGED <<input, result, list, failed, outcome>>

Prints ==
    /\ Running("print", "start")
    /\ Fails(Peek(1) # "(")
    /\ Skip(2) /\ CallThen("args", 0, "close")
    /\ UNCHANGED <<input, result, list, outcome>>

Closes ==
    /\ \/ Running("return", "close") /\ Except(0, ";")
       \/ Running("print", "close") /\ Except(1, ";")
    /\ Yield(top.fn, <<>>)
    /\ UNCHANGED <<input, list, outcome>>

-----------------------------------------------------------------------------
(* donsus_function_decl, which also parses the head of a definition and    *)
(* every call; and donsus_function_signature.                              *)
Decl ==
    /\ Running("decl", "start")
    /\ Except(1, "(")
    /\ Goto("head")
    /\ UNCHANGED <<input, result, list, outcome>>

HasParameter == Peek(1) = "name" /\ Peek(2) = ":"

DeclSignature ==
    /\ Running("decl", "head") /\ HasParameter /\ Peek(3) \in Types
    /\ Skip(0) /\ Descend("signature", "arrow")
    /\ UNCHANGED <<input, result, list, failed, outcome>>

DeclInvalid ==
    /\ Running("decl", "head") /\ HasParameter /\ Peek(3) \notin Types
    /\ Skip(3) /\ Fails(TRUE)
    /\ Return(Nothing)
    /\ UNCHANGED <<input, list, outcome>>

DeclIsCall ==
    /\ Running("decl", "head") /\ Peek(2) # ":" /\ Peek(3) \notin Types
    /\ Skip(1) /\ CallThen("args", 0, "called")
    /\ UNCHANGED <<input, result, list, failed, outcome>>

DeclCalled ==
    /\ Running("decl", "called")
    /\ Yield("call", <<>>)
    /\ UNCHANGED <<input, cur, list, failed, outcome>>

DeclNoParameters ==
    /\ Running("decl", "head") /\ ~HasParameter /\ (Peek(2) = ":" \/ Peek(3) \in Types)
    /\ Goto("arrow")
    /\ UNCHANGED <<input, cur, result, list, failed, outcome>>

DeclArrow ==
    /\ Running("decl", "arrow")
    /\ Skip(3) /\ Fails(Peek(1) # ")" \/ Peek(2) # "->" \/ Peek(3) \in {"{", ";"})
    /\ IF Peek(3) \in {"{", ";"} THEN Return(Nothing) ELSE UNCHANGED result /\ Goto("types")
    /\ UNCHANGED <<input, list, outcome>>

DeclType ==
    /\ Running("decl", "types") /\ Current \notin {"{", ";", "end"}
    /\ LET comma == IF Current = "," THEN 1 ELSE 0
       IN  \/ /\ Peek(comma) \in Types
              /\ Skip(comma + 1)
              /\ UNCHANGED <<calls, result, failed>>
           \/ /\ Peek(comma) \notin Types
              /\ Skip(comma) /\ Fails(TRUE)
              /\ Return(Nothing)
    /\ UNCHANGED <<input, list, outcome>>

DeclEnd ==
    /\ Running("decl", "types") /\ Current \in {"{", ";", "end"}
    /\ Yield("prototype", <<>>)
    /\ UNCHANGED <<input, cur, list, failed, outcome>>

Parameter ==
    /\ Running("signature", "start") /\ Peek(1) # ")"
    /\ Except(1, "name") /\ Descend("var", "parameter")
    /\ UNCHANGED <<input, result, list, outcome>>

Crashes == outcome' = "crashed" /\ calls' = <<>>

ParameterMissing ==
    /\ Running("signature", "parameter") /\ result = Nothing
    /\ Crashes
    /\ UNCHANGED <<input, cur, result, list, failed>>

NextParameter ==
    /\ Running("signature", "parameter") /\ result # Nothing /\ Peek(1) = ","
    /\ Skip(1) /\ Goto("start")
    /\ UNCHANGED <<input, result, list, failed, outcome>>

SignatureEnd ==
    /\ \/ Running("signature", "parameter") /\ result # Nothing /\ Peek(1) # ","
       \/ Running("signature", "start") /\ Peek(1) = ")"
    /\ Return(Block(<<>>))
    /\ UNCHANGED <<input, cur, list, failed, outcome>>

(* An expression may be led into a declaration as well.                    *)
CalleeDeclares ==
    /\ Running("expr", "start") /\ Current = "name" /\ Peek(1) = "(" /\ ~IsCall
    /\ Skip(0) /\ Descend("decl", "declared")
    /\ UNCHANGED <<input, result, list, failed, outcome>>

CalleeDeclared ==
    /\ Running("expr", "declared")
    /\ Fails(result = Nothing)
    /\ IF result = Nothing THEN Return(result) ELSE UNCHANGED result /\ Goto("operand")
    /\ UNCHANGED <<input, cur, list, outcome>>

-----------------------------------------------------------------------------
(* donsus_function_definition.                                             *)
Def ==
    /\ Running("def", "start")
    /\ Except(1, "name") /\ Descend("decl", "body")
    /\ UNCHANGED <<input, result, list, outcome>>

DefMissing ==
    /\ Running("def", "body") /\ result = Nothing
    /\ Crashes
    /\ UNCHANGED <<input, cur, result, list, failed>>

(* A call, for want of a return type, is read as if it were a declaration. *)
DefIsCall ==
    /\ Running("def", "body") /\ result.op = "call"
    /\ Undefined
    /\ UNCHANGED <<input, cur, result, list, failed>>

DefBody ==
    /\ Running("def", "body") /\ result.op = "prototype"
    /\ Skip(0) /\ Fails(Current # "{")
    /\ IF Current = "{" THEN Descend("statements", "close") /\ UNCHANGED result
       ELSE Yield("def", <<Block(<<>>)>>)
    /\ UNCHANGED <<input, list, outcome>>

-----------------------------------------------------------------------------
(* donsus_if_statement and donsus_else_statement; elif is an if in the     *)
(* alternate.  After its body an if moves on to see whether there is more, *)
(* and leaves the token it sees current.  (A slip: it does not move on.)   *)
If ==
    /\ Running("if", "start")
    /\ Skip(2) /\ Fails(Peek(1) # "(")
    /\ Goto("condition")
    /\ UNCHANGED <<input, result, list, outcome>>

IfCondition ==
    /\ Running("if", "condition") /\ Current # ")"
    /\ Skip(0) /\ CallThen("expr", 0, "conditions")
    /\ UNCHANGED <<input, result, list, failed, outcome>>

IfConditions ==
    /\ Running("if", "conditions")
    /\ Into([top EXCEPT !.pc = "condition", !.args = Remember(@, result)])
    /\ UNCHANGED <<input, cur, result, list, failed, outcome>>

IfBody ==
    /\ Running("if", "condition") /\ Current = ")"
    /\ Except(1, "{") /\ Descend("statements", "then")
    /\ UNCHANGED <<input, result, list, outcome>>

PastBody_stays == 0
PastBody == 1

IfThen ==
    /\ Running("if", "then")
    /\ Skip(PastBody)
    /\ Into([top EXCEPT !.pc = "elif", !.body = result.kids])
    /\ UNCHANGED <<input, result, list, failed, outcome>>

IfAlternate ==
    /\ \/ Running("if", "elif") /\ Current = "elif" /\ Skip(0) /\ Descend("if", "alternate")
       \/ Running("if", "elif") /\ Current # "elif" /\ Skip(0) /\ Goto("else")
       \/ Running("if", "else") /\ Current = "else" /\ Skip(0) /\ Descend("else", "last")
    /\ UNCHANGED <<input, result, list, failed, outcome>>

IfAdds ==
    /\ \/ Running("if", "alternate") /\ Into([top EXCEPT !.pc = "else", !.alternate = Append(@, result)])
       \/ Running("if", "last") /\ Into([top EXCEPT !.pc = "end", !.alternate = Append(@, result)])
    /\ UNCHANGED <<input, cur, result, list, failed, outcome>>

IfEnd ==
    /\ \/ Running("if", "end")
       \/ Running("if", "else") /\ Current # "else"
    /\ Yield("if", <<Block(top.args), Block(top.body), Block(top.alternate)>>)
    /\ UNCHANGED <<input, cur, list, failed, outcome>>

Else ==
    /\ Running("else", "start")
    /\ Except(1, "{") /\ Descend("statements", "close")
    /\ UNCHANGED <<input, result, list, outcome>>

-----------------------------------------------------------------------------
(* donsus_while_loop, donsus_for_loop and donsus_range.                    *)
While ==
    /\ Running("while", "start")
    /\ Skip(1) /\ CallThen("expr", 0, "open")
    /\ UNCHANGED <<input, result, list, failed, outcome>>

(* What follows `for' decides, by how far one can see: a name and a range, *)
(* a name and an array, an array, a range; or none of them.                *)
ForRange ==
    /\ Running("for", "start")
    /\ \/ Peek(1) = "name" /\ Peek(2) = ":" /\ Peek(4) = ".." /\ Skip(3)
       \/ Peek(1) # "name" /\ Skip(1)
    /\ CallThen("expr", 0, "range")
    /\ UNCHANGED <<input, result, list, failed, outcome>>

ForTo ==
    /\ Running("for", "range")
    /\ Skip(1) /\ Fails(Current # "..")
    /\ CallThen("expr", 0, "open")
    /\ UNCHANGED <<input, result, list, outcome>>

ForArray ==
    /\ Running("for", "start") /\ Peek(1) = "name"
    /\ \/ /\ Peek(2) = ":" /\ Peek(4) = "{"
          /\ Skip(4) /\ Fails(Peek(3) # "name") /\ Goto("open")
       \/ /\ Peek(2) = ":" /\ Peek(4) \notin {"..", "{"}
          /\ Skip(0) /\ Goto("open") /\ UNCHANGED failed
       \/ /\ Peek(2) = "{"
          /\ Skip(1) /\ CallThen("expr", 0, "open") /\ UNCHANGED failed
       \/ /\ Peek(2) \notin {":", "{"}
          /\ Skip(0) /\ Goto("open") /\ UNCHANGED failed
    /\ UNCHANGED <<input, result, list, outcome>>

LoopBody ==
    /\ \E fn \in {"while", "for"} : Running(fn, "open")
    /\ Except(0, "{") /\ Descend("statements", "close")
    /\ UNCHANGED <<input, result, list, outcome>>

(* Of all the bodies only that of a while must be closed.                  *)
EndsWithBody ==
    /\ \E fn \in {"def", "else", "while", "for"} : Running(fn, "close")
    /\ Fails(top.fn = "while" /\ Current # "}")
    /\ Yield(top.fn, <<result>>)
    /\ UNCHANGED <<input, cur, list, outcome>>

-----------------------------------------------------------------------------
ProgramInit ==
    /\ input \in Inputs
    /\ cur = 1
    /\ calls = <<Stmt("parse", 1)>>
    /\ result = Nothing
    /\ list = <<>>
    /\ failed = FALSE
    /\ outcome = "running"

Top   == TopStatement \/ TopAdd \/ TopOther \/ TopEnd
Body  == BodyEnd \/ BodyStatement \/ BodyAdd \/ BodyPasses \/ BodyRepeats
Var   == VarFails \/ VarThrows \/ VarDeclares \/ VarDefines \/ VarDefined \/ VarRunsOff
           \/ ArrayDeclares \/ ArrayDefines \/ ArrayElement \/ ArrayComma \/ ArrayDefined
Small == Multi \/ MultiRest \/ MultiEnd \/ Assign \/ AssignOperator \/ AssignValue \/ AssignNext
           \/ Assigned \/ Returns \/ Prints \/ Closes
Decls == Decl \/ DeclSignature \/ DeclInvalid \/ DeclIsCall \/ DeclCalled \/ DeclNoParameters
           \/ DeclArrow \/ DeclType \/ DeclEnd \/ CalleeDeclares \/ CalleeDeclared
           \/ Parameter \/ ParameterMissing \/ NextParameter \/ SignatureEnd
Large == Def \/ DefMissing \/ DefIsCall \/ DefBody
           \/ If \/ IfCondition \/ IfConditions \/ IfBody \/ IfThen \/ IfAlternate \/ IfAdds \/ IfEnd \/ Else
           \/ While \/ ForRange \/ ForTo \/ ForArray \/ LoopBody \/ EndsWithBody

ProgramNext == ExprNext \/ Top \/ Body \/ Var \/ Small \/ Decls \/ Large

(* One thread parses, and waits for nothing.                               *)
ProgramSpec == ProgramInit /\ [][ProgramNext]_vars /\ WF_vars(ProgramNext)

-----------------------------------------------------------------------------
Functions == {"parse", "decl", "var", "assign", "multi", "if", "while", "for", "print", "def",
              "return", "statements", "signature", "else", "expr", "args"}
Outcomes  == {"running", "accepted", "rejected", "crashed", "undefined", "thrown"}

(* Type invariant.  donsus_parse is the outermost call, and the only one of *)
(* its name; every other one was made while the parser stood at or before  *)
(* its token, and hence after that of the call it was made from.           *)
ProgramTypeOK ==
    /\ IsInput(input) /\ cur \in 1..TheEnd
    /\ failed \in BOOLEAN /\ outcome \in Outcomes
    /\ outcome = "running" <=> calls # <<>>
    /\ \A f \in DOMAIN calls : /\ calls[f].fn \in Functions
                               /\ calls[f].fn = "parse" <=> f = Len(calls)
                               /\ "at" \in DOMAIN calls[f] => calls[f].at \in 1..cur
                               /\ "test" \in DOMAIN calls[f] => calls[f].test \in 1..9

(* A null handle is only met after an error has been reported.             *)
CrashIsReported == outcome = "crashed" => failed
=============================================================================
