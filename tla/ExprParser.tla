----------------------------- MODULE ExprParser -----------------------------
(***************************************************************************)
(* The expression parser (donsus_expr and what it calls in                 *)
(* src/src/parser.cc): precedence climbing by recursion, over a cursor that *)
(* every function both reads and moves.  Whoever calls has to know which   *)
(* token the callee leaves current, and the functions do not agree on it.  *)
(*                                                                         *)
(* The recursion is the stack `calls', the innermost call first; a step is *)
(* the code between two calls.  A token is its kind; an operand also has a *)
(* value, so that the tree says which operand went where.                  *)
(***************************************************************************)
EXTENDS Integers, Sequences

CONSTANTS
    Inputs        \* what to parse: see IsInput

Operators  == {"<", "+", "-", "*"}
Operands   == {"number", "string", "bool"}
Closers    == {";", ")", ","}
Types      == {"type", "void"}
Keywords   == {"def", "if", "elif", "else", "while", "for", "print", "return"}
TokenKinds == Operators \cup Operands \cup Closers \cup Types \cup Keywords
                \cup {"name", "(", "[", "]", "{", "}", "=", ":", "->", ".", "..", "newline", "end"}

(* A program is module StmtParser's to parse.                              *)
Contexts   == {"definition", "print", "condition", "program"}

(* The lexer's token_precedence: 0 for whatever is not an operator.        *)
Precedence(k) == CASE k = "<" -> 1 [] k \in {"+", "-"} -> 10 [] k = "*" -> 20 [] OTHER -> 0

(* It does not initialise that of a type, which may be anything: between   *)
(* or above those of the operators.                                        *)
Precedences(k) == IF k \in Types THEN {0, 1, 10, 20, 30} ELSE {Precedence(k)}

(* The tree is the one the tokens are written for, Nothing when they are   *)
(* not an expression; the parser does not see it.                          *)
IsInput(i) == /\ i.context \in Contexts
              /\ DOMAIN i = {"context", "tokens", "tree"}
              /\ Len(i.tokens) \in Nat /\ DOMAIN i.tokens = 1..Len(i.tokens)
              /\ \A p \in DOMAIN i.tokens : i.tokens[p].kind \in TokenKinds

ASSUME InputAssumption == \A i \in Inputs : IsInput(i)

VARIABLES
    input,        \* the input, which is what the lexer has still to say
    cur,          \* cur_token, as a position in the input
    calls,        \* the recursion
    result,       \* what the last call returned: a tree, or Nothing
    list,         \* the expressions the statement has collected
    failed,       \* error_count is not 0
    outcome       \* running, accepted, rejected (or, of a program, crashed, undefined)

vars == <<input, cur, calls, result, list, failed, outcome>>

Node(op, kids) == [op |-> op, value |-> 0, kids |-> kids]
Leaf(v)        == [op |-> "operand", value |-> v, kids |-> <<>>]
Nothing        == Node("nothing", <<>>)

(* Past the end of the input the lexer says DONSUS_END for ever.           *)
TokenAt(p) == IF p \in DOMAIN input.tokens THEN input.tokens[p] ELSE [kind |-> "end", value |-> 0]
Current  == TokenAt(cur).kind
Peek(n)  == TokenAt(cur + n).kind
TheEnd   == Len(input.tokens) + 1
Skip_on(n) == cur' = cur + n   \* a slip: the end is passed
Skip(n)  == cur' = IF cur + n > TheEnd THEN TheEnd ELSE cur + n

top == Head(calls)
Running(fn, pc) == outcome = "running" /\ calls # <<>> /\ top.fn = fn /\ top.pc = pc

Frame(fn, ptp) == [fn |-> fn, pc |-> "start", ptp |-> ptp, left |-> Nothing, op |-> 0,
                   args |-> <<>>]

Goto(pc)            == calls' = <<[top EXCEPT !.pc = pc]>> \o Tail(calls)
CallThen(fn, p, pc) == calls' = <<Frame(fn, p), [top EXCEPT !.pc = pc]>> \o Tail(calls)
Return(tree)        == calls' = Tail(calls) /\ result' = tree

-----------------------------------------------------------------------------
(* donsus_expr and match_expressions.  An operand, by the token it starts  *)
(* with.  What is inside parentheses is parsed under the caller's ptp.     *)
ParenPtp_tighter(ptp) == ptp + 1   \* a slip
ParenPtp(ptp) == ptp

Parenthesis ==
    /\ Running("expr", "start") /\ Current = "("
    /\ Skip(1)
    /\ CallThen("expr", ParenPtp(top.ptp), "operand")
    /\ UNCHANGED <<input, result, list, failed, outcome>>

Operand ==
    /\ Running("expr", "start")
    /\ \/ Current \in Operands
       \/ Current = "name" /\ Peek(1) \notin {"(", "["}
    /\ result' = Leaf(TokenAt(cur).value)
    /\ Goto("operand")
    /\ UNCHANGED <<input, cur, list, failed, outcome>>

(* donsus_function_decl, which a name with a parenthesis leads to, takes   *)
(* it for a call when it sees no parameter and no return type.             *)
IsCall == Peek(3) # ":" /\ Peek(4) \notin Types

Callee ==
    /\ Running("expr", "start") /\ Current = "name" /\ Peek(1) = "(" /\ IsCall
    /\ Skip(2)                    \* past the name and '('
    /\ CallThen("args", 0, "operand")
    /\ UNCHANGED <<input, result, list, failed, outcome>>

ArrayAccess ==
    /\ Running("expr", "start") /\ Current = "name" /\ Peek(1) = "["
    /\ Skip(2)
    /\ CallThen("expr", 0, "index")
    /\ UNCHANGED <<input, result, list, failed, outcome>>

Indexed ==
    /\ Running("expr", "index")
    /\ Skip(1)                    \* to the token after ']', which is not tested
    /\ Return(Node("index", <<result>>))
    /\ UNCHANGED <<input, list, failed, outcome>>

Unary ==
    /\ Running("expr", "start") /\ Current = "-"
    /\ Skip(1)
    /\ CallThen("expr", 0, "negate")
    /\ UNCHANGED <<input, result, list, failed, outcome>>

Negated ==
    /\ Running("expr", "negate")
    /\ Return(Node("neg", <<result>>))
    /\ UNCHANGED <<input, cur, list, failed, outcome>>

(* The token is reported, and not consumed.                                *)
Invalid ==
    /\ Running("expr", "start")
    /\ Current \notin Operands \cup {"(", "-", "name"}
    /\ failed' = TRUE
    /\ Return(Nothing)
    /\ UNCHANGED <<input, cur, list, outcome>>

(* After an operand: one in parentheses that is an array access or a       *)
(* negation is returned at once, its parenthesis still current.            *)
Shift ==
    /\ Running("expr", "operand")
    /\ \/ /\ result.op \in {"index", "neg"}
          /\ Return(result)
          /\ UNCHANGED cur
       \/ /\ result.op \notin {"index", "neg"}
          /\ Skip(1)
          /\ \/ /\ TokenAt(cur').kind \in Closers \cup {".."}
                /\ Return(result)
             \/ /\ TokenAt(cur').kind \notin Closers \cup {".."}
                /\ calls' = <<[top EXCEPT !.pc = "loop", !.left = result, !.op = cur']>>
                              \o Tail(calls)
                /\ UNCHANGED result
    /\ UNCHANGED <<input, list, failed, outcome>>

(* The loop: while the operator binds tighter than the one on the left.    *)
(* (A slip: an operator that binds as tight is taken too.)                 *)
BindsTighter_or_as(p, ptp) == p >= ptp /\ p > 0
BindsTighter(p, ptp) == p > ptp

RightOperand ==
    /\ Running("expr", "loop")
    /\ \E p \in Precedences(TokenAt(top.op).kind) : /\ BindsTighter(p, top.ptp)
                                                    /\ CallThen("expr", p, "combine")
    /\ Skip(1)
    /\ UNCHANGED <<input, result, list, failed, outcome>>

(* (A slip: what the loop has combined so far is lost.)                    *)
Combined_dropped(op, left, right) == Node(op, <<IF left.op \in Operators THEN left.kids[1] ELSE left, right>>)
Combined(op, left, right) == Node(op, <<left, right>>)

Combine ==
    /\ Running("expr", "combine")
    /\ LET left == Combined(TokenAt(top.op).kind, top.left, result)
       IN  IF Current \in Closers
           THEN Return(left)
           ELSE /\ calls' = <<[top EXCEPT !.pc = "loop", !.left = left, !.op = cur]>> \o Tail(calls)
                /\ UNCHANGED result
    /\ UNCHANGED <<input, cur, list, failed, outcome>>

LoopEnds ==
    /\ Running("expr", "loop")
    /\ \E p \in Precedences(TokenAt(top.op).kind) : ~BindsTighter(p, top.ptp)
    /\ Return(top.left)
    /\ UNCHANGED <<input, cur, list, failed, outcome>>

-----------------------------------------------------------------------------
(* (bound: arguments, and the expressions of a statement, are remembered   *)
(* up to the third; a well-formed input here has fewer.)                   *)
Remember(s, tree) == IF Len(s) < 3 THEN Append(s, tree) ELSE s

(* donsus_function_args, then donsus_parser_except_current(DONSUS_RPAR).   *)
NextArgument ==
    /\ Running("args", "start") /\ Current # ")"
    /\ CallThen("expr", 0, "argument")
    /\ UNCHANGED <<input, cur, result, list, failed, outcome>>

Argument ==
    /\ Running("args", "argument")
    /\ calls' = <<[top EXCEPT !.pc = "start", !.args = Remember(@, result)]>> \o Tail(calls)
    /\ IF Current = "," THEN Skip(1) ELSE UNCHANGED cur
    /\ UNCHANGED <<input, result, list, failed, outcome>>

ArgumentsEnd ==
    /\ Running("args", "start") /\ Current = ")"
    /\ Return(Node("call", top.args))
    /\ UNCHANGED <<input, cur, list, failed, outcome>>

-----------------------------------------------------------------------------
(* The statements an expression stands in: a definition (or a return)      *)
(* takes one and wants a semicolon; printf and the condition of an if take *)
(* as many as there are before a parenthesis, whatever is between them.    *)
Collects_always(context) == TRUE   \* a slip
Collects(context) == context # "definition"

StatementCalls ==
    /\ Running("statement", "start")
    /\ Collects(input.context) => Current # ")"
    /\ CallThen("expr", 0, "collect")
    /\ UNCHANGED <<input, cur, result, list, failed, outcome>>

StatementCollects ==
    /\ Running("statement", "collect")
    /\ list' = Remember(list, result)
    /\ IF input.context = "print" /\ Current = "," THEN Skip(1) ELSE UNCHANGED cur
    /\ Goto(IF Collects(input.context) THEN "start" ELSE "end")
    /\ UNCHANGED <<input, result, failed, outcome>>

Terminator == CASE input.context = "definition" -> Current = ";"
                [] input.context = "print"      -> Peek(1) = ";"
                [] input.context = "condition"  -> Peek(1) = "{"

StatementEnds ==
    /\ \/ Running("statement", "end")
       \/ Running("statement", "start") /\ Collects(input.context) /\ Current = ")"
    /\ failed' = (failed \/ ~Terminator)
    /\ outcome' = IF failed' THEN "rejected" ELSE "accepted"
    /\ calls' = <<>>
    /\ UNCHANGED <<input, cur, result, list>>

Init ==
    /\ input \in Inputs
    /\ cur = 1
    /\ calls = <<Frame("statement", 0)>>
    /\ result = Nothing
    /\ list = <<>>
    /\ failed = FALSE
    /\ outcome = "running"

ExprNext ==
    \/ Parenthesis \/ Operand \/ Callee \/ ArrayAccess \/ Indexed \/ Unary \/ Negated \/ Invalid
    \/ Shift \/ RightOperand \/ Combine \/ LoopEnds
    \/ NextArgument \/ Argument \/ ArgumentsEnd

Next == ExprNext \/ StatementCalls \/ StatementCollects \/ StatementEnds

(* One thread parses, and waits for nothing.                               *)
Spec == Init /\ [][Next]_vars /\ WF_vars(Next)

-----------------------------------------------------------------------------
Pcs == {"start", "operand", "index", "negate", "loop", "combine", "argument", "collect", "end"}

(* Type invariant.  The innermost call is the one that runs and the        *)
(* statement is the outermost; a call waits in the step after its own.     *)
TypeOK ==
    /\ IsInput(input) /\ cur \in 1..TheEnd
    /\ \A f \in DOMAIN calls : /\ calls[f].fn \in {"expr", "args", "statement"}
                               /\ calls[f].pc \in Pcs
                               /\ calls[f].ptp \in {0, 1, 10, 20, 30} /\ calls[f].op \in 0..TheEnd
                               /\ calls[f].fn = "statement" <=> f = Len(calls)
    /\ Len(list) <= 3 /\ failed \in BOOLEAN
    /\ outcome \in {"running", "accepted", "rejected"}
    /\ outcome = "running" <=> calls # <<>>
=============================================================================
