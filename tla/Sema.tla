-------------------------------- MODULE Sema --------------------------------
(***************************************************************************)
(* The walk of the semantic analysis over the AST (src/src/ast/tree.cc,    *)
(* src/src/sema.cc), composed with the symbol tables of module SymTable.   *)
(*                                                                         *)
(* The walk is: traverse_nodes enters every declaration into the tables;   *)
(* evaluate then empties stack_assign, which gives every node its type,    *)
(* and stack_visit, which checks them.  The recursion of the handlers is   *)
(* the variable `agenda': the calls still to be made, the next one first.  *)
(* A handler is one action, but for its look-ups, each of which is a call  *)
(* of its own: what one look-up does to the links, the next one meets.     *)
(*                                                                         *)
(* Modelled is the walk without code generation (the codegen.Builder of    *)
(* evaluate unset, as the test API runs it), and without arrays.           *)
(***************************************************************************)
EXTENDS Integers, Sequences, FiniteSets, DonsusTypes

CONSTANTS
    Programs,     \* the ASTs to check: see IsProgram
    Tables, Root, Null, Names, GlobalName, ModValues, Values, MaxObjects \* SymTable's

(* An AST: its nodes by number, children numbered above their parent, and  *)
(* the list of the top-level ones.  args: the parameters of a function, the *)
(* arguments of a call, the lvalue and rvalue of an assignment.             *)
NodeLists(nd) == {nd.children, nd.args, nd.body, nd.alternate}

Members(l) == {l[k] : k \in DOMAIN l}
Once(l)    == \A j, k \in DOMAIN l : l[j] = l[k] => j = k

ValueKinds   == {"identifier", "number", "string", "float", "bool", "expression", "unary",
                 "function_call"}
NamedKinds   == {"identifier", "variable_def", "variable_decl", "function_arg", "function_def",
                 "function_decl", "function_call"}
WithOperand  == {"variable_def", "return", "unary", "print", "if", "while"}
WithArgs     == {"function_def", "function_decl", "function_call", "assignment"}
WithBody     == {"function_def", "if", "else", "for", "while"}

(* The parameters and statements of a node.                                *)
Below(nd) ==
    CASE nd.kind = "function_def"             -> nd.args \o nd.body
      [] nd.kind = "if"                       -> nd.body \o nd.alternate
      [] nd.kind \in {"else", "for", "while"} -> nd.body
      [] OTHER                                -> <<>>

HoldersIn(p, n) == {h \in DOMAIN p.node : \E l \in NodeLists(p.node[h]) : n \in Members(l)}

(* What the parser makes of a text without syntax errors: operands where   *)
(* the handlers read them, and no node in two places, but for the value of *)
(* `a, b : int = value', which all of the definitions share.               *)
IsProgram(p) ==
    /\ Len(p.node) \in Nat /\ DOMAIN p.node = 1..Len(p.node)
    /\ p.top \in Seq(DOMAIN p.node) /\ Once(p.top)
    /\ \A n \in DOMAIN p.node : n \in Members(p.top) <=> HoldersIn(p, n) = {}
    /\ \A i \in DOMAIN p.node :
         LET nd == p.node[i]
         IN  /\ \A l \in NodeLists(nd) : l \in Seq((i + 1)..Len(p.node))
             /\ \A m \in Members(nd.children) : p.node[m].kind \in ValueKinds
             /\ nd.kind \in {"function_call", "assignment"} =>
                  \A m \in Members(nd.args) : p.node[m].kind \in ValueKinds
             /\ nd.kind \in {"function_def", "function_decl"} =>
                  \A m \in Members(nd.args) : p.node[m].kind = "function_arg"
             /\ nd.kind \in {"function_def", "function_call"} => nd.children = <<>>
             /\ nd.kind \notin WithArgs => nd.args = <<>>
             /\ nd.kind \notin WithBody => nd.body = <<>>
             /\ nd.kind # "if" => nd.alternate = <<>>
             /\ nd.kind \in NamedKinds => nd.name \in Names
             /\ nd.kind \in WithOperand => nd.children # <<>>
             /\ nd.kind = "return" => Len(nd.children) = 1
             /\ nd.kind = "expression" => Len(nd.children) = 2
             /\ nd.kind = "assignment" => Len(nd.args) = 2
             /\ Once(Below(nd))
    /\ \A n \in DOMAIN p.node : \A h, g \in HoldersIn(p, n) :
         h # g => /\ {h, g} \subseteq Members(p.top)
                  /\ p.node[h].kind = "variable_def" /\ p.node[g].kind = "variable_def"

ASSUME ProgramAssumption == \A p \in Programs : IsProgram(p)
ASSUME TableAssumption ==
    /\ Root \in Tables /\ Null \notin Tables \cup Values
    /\ GlobalName \in Names
    /\ ModValues \subseteq Int /\ ModValues # {} /\ MaxObjects \in Nat

VARIABLES
    ast,                                                             \* the program
    live, qa, parent, children, underlying, encl, crashed,           \* the tables
    symbols,      \* the type of each symbol of `underlying', and is_function_arg
    return_type,  \* function_return_type of each table
    agenda,       \* the calls the recursion has still to make
    answers,      \* what the look-ups of the current handler returned
    stack_assign, stack_visit,
    real_type, parent_type,  \* of each node
    types,        \* return_kw::types of each node
    error_count,
    resolved,     \* history: the table whose symbol typed an identifier
    assigned,     \* history: the nodes assign_type_to_node was called on
    home,         \* history: the table a node was entered into; the one made for a function
    outcome       \* running, accepted, rejected, crashed or thrown

tables == <<live, qa, parent, children, underlying, encl, crashed, symbols, return_type>>
typing == <<real_type, parent_type, types>>
stacks == <<stack_assign, stack_visit>>
history == <<resolved, assigned>>
vars   == <<ast, tables, agenda, answers, stacks, typing, error_count, history, home, outcome>>

ST == INSTANCE SymTable

Nodes == DOMAIN ast.node
kind(n) == ast.node[n].kind
name(n) == ast.node[n].name
kids(n) == ast.node[n].children

-----------------------------------------------------------------------------
(* The agenda.                                                             *)
Call(d, n, t)   == [do |-> d, n |-> n, t |-> t]
Calls(d, ns, t) == [i \in DOMAIN ns |-> Call(d, ns[i], t)]

(* The look-ups a handler begins with, all for the name of its node, and    *)
(* the tables they start from.                                             *)
LookUps(c) ==
    LET get(t)  == [op |-> "get", t |-> t]
        find(t) == [op |-> "find", t |-> t]
    IN  CASE c.do = "resolve" -> <<get(c.t), get(Root), get(c.t), get(Root)>>
          [] c.do \in {"enter_assign", "enter_visit"} -> <<find(Root)>>
          [] c.do = "type_call" -> <<find(Root), find(Root)>>
          [] c.do = "declared" -> <<get(c.t)>>
          [] c.do = "defined" -> <<get(c.t), get(Root)>>
          [] c.do = "not_duplicated" -> <<find(c.t)>>
          [] c.do = "check_call" -> [i \in 1..2 |-> [op |-> "find_unqualified", t |-> c.t]]
          [] OTHER -> <<>>

task == Head(agenda)
Running    == outcome = "running" /\ agenda # <<>>
Answered   == Len(answers) = Len(LookUps(task))
Doing(d)   == Running /\ task.do = d /\ Answered
At(d, ks)  == Doing(d) /\ kind(task.n) \in ks
Then(cs)   == agenda' = cs \o Tail(agenda)
Idle       == outcome = "running" /\ agenda = <<>>

Errors(conditions) ==
    error_count' = error_count + Cardinality({i \in DOMAIN conditions : conditions[i]})

-----------------------------------------------------------------------------
(* Types over expressions.                                                 *)
IsOperator(n) == kind(n) = "expression" /\ name(n) \in {"+", "-", "*", "/"}

Subtree(n) ==
    LET under[m \in Nodes] == {m} \cup UNION {under[kids(m)[i]] : i \in DOMAIN kids(m)}
    IN  under[n]

(* donsus_typecheck_support_between_types: the type of an operator is its  *)
(* left operand's.  The types it leaves behind, and the errors it counts.  *)
Supported(n) ==
    LET t[m \in Nodes] == IF IsOperator(m) THEN t[kids(m)[1]] ELSE real_type[m]
    IN  [m \in Nodes |-> IF m \in Subtree(n) THEN t[m] ELSE real_type[m]]

Mismatches(n) ==
    {m \in Subtree(n) : IsOperator(m) /\
        LET l == Supported(n)[kids(m)[1]]
            r == Supported(n)[kids(m)[2]]
        IN  ~Compatible(l, r)}

NotArithmetic(n) ==
    {m \in Subtree(n) : IsOperator(m) /\
        LET l == Supported(n)[kids(m)[1]]
            r == Supported(n)[kids(m)[2]]
        IN  ~(\/ is_integer(l) /\ is_integer(r)
              \/ is_float(l) /\ is_float(r))}

SupportErrors(n) == Cardinality(Mismatches(n)) + Cardinality(NotArithmetic(n))

(* The first child of an expression that is not one itself gives it its    *)
(* type; with none, decide_type_for_expression returns garbage.            *)
Plain(n) == {i \in DOMAIN kids(n) : kind(kids(n)[i]) # "expression"}
FirstPlain(n) == kids(n)[CHOOSE i \in Plain(n) : \A j \in Plain(n) : i <= j]

type_expr(n, ty) ==
    IF kind(n) \in {"expression", "unary"} /\ Plain(n) # {} THEN ty[FirstPlain(n)] ELSE ty[n]

DecidedTypes(n) == IF Plain(n) = {} THEN Kinds ELSE {real_type[FirstPlain(n)]}

(* process_donsus_expression: the operands, left to right.                 *)
Operands(n) ==
    LET flat[m \in Nodes] ==
          IF kind(m) # "expression" THEN <<m>> ELSE flat[kids(m)[1]] \o flat[kids(m)[2]]
    IN  flat[n]

pre_match(n, k) ==
    CASE kind(n) = "number" -> is_integer(k)
      [] kind(n) = "string" -> is_string(k)
      [] kind(n) = "float"  -> is_float(k)
      [] kind(n) = "bool"   -> is_bool(k)
      [] OTHER              -> kind(n) = "expression"

-----------------------------------------------------------------------------
(* Look-ups: the next one of the call at hand, and what it answers.        *)
Ask ==
    /\ Running /\ Len(answers) < Len(LookUps(task))
    /\ LET a == LookUps(task)[Len(answers) + 1]
           q == ST!apply_scope(a.t, name(task.n))
       IN  \/ /\ a.op = "get"
              /\ ST!get(a.t, name(task.n))
              /\ answers' = Append(answers, ST!GetAnswer(a.t, name(task.n)))
           \/ /\ a.op = "find"
              /\ ST!get_sym_table(a.t, q)
              /\ answers' = Append(answers, ST!FoundTable(a.t, q))
           \/ /\ a.op = "find_unqualified"
              /\ ST!get_sym_table_from_unqualified(a.t, name(task.n))
              /\ answers' = IF crashed' THEN answers
                            ELSE Append(answers, ST!FoundUnqualified(a.t, name(task.n)))
    /\ outcome' = IF crashed' THEN "crashed" ELSE outcome
    /\ UNCHANGED <<ast, symbols, return_type, agenda, stacks, typing, error_count, history, home>>

(* What get returns, whether its caller takes it for a symbol or not (mod    *)
(* may be -1): the last symbol of the name, or an empty one, of the table  *)
(* it read last.  That is the one a get that climbed has left as parent.   *)
LastRead(t, n) == IF ST!Visible(t, n) \/ parent[t] = Null THEN t ELSE parent[t]

LastMatch(t, n) == CHOOSE i \in ST!Matches(t, n) : \A j \in ST!Matches(t, n) : j <= i
TypeIn(t, n)    ==
    IF ST!Matches(t, n) = {} THEN "UNKNOWN" ELSE symbols[t][LastMatch(t, n)].type
Duplicated(t, n) == ST!Duplicated(LastRead(t, n), n)

-----------------------------------------------------------------------------
(* traverse_nodes: enter the declarations, before anything is evaluated.   *)
(* Only function definitions open a table; a while loop, an assignment, a  *)
(* call or a return enters nothing, nor does anything inside it.           *)
EnterSymbol ==
    /\ At("collect", {"function_arg", "variable_def", "variable_decl", "function_decl"})
    /\ ST!add(task.t, name(task.n))
    /\ symbols' = [symbols EXCEPT ![task.t] = Append(@,
         [type |-> IF kind(task.n) = "function_decl" THEN "UNKNOWN"
                   ELSE make_type(ast.node[task.n].type),
          is_function_arg |-> kind(task.n) = "function_arg"])]
    /\ home' = [home EXCEPT ![task.n] = task.t]
    /\ Then(<<>>)
    /\ UNCHANGED <<ast, return_type, answers, stacks, typing, error_count, history, outcome>>

EnterFunction ==
    /\ At("collect", {"function_def"})
    /\ ST!add_sym_table(task.t, name(task.n))
    /\ LET b == CHOOSE b \in live' : b \notin live
       IN  /\ return_type' = [return_type EXCEPT ![b] = make_type(ast.node[task.n].type)]
           /\ home' = [home EXCEPT ![task.n] = b]
           /\ Then(Calls("collect", Below(ast.node[task.n]), b))
    /\ UNCHANGED <<ast, symbols, answers, stacks, typing, error_count, history, outcome>>

Collected(n) == IF kind(n) = "while" THEN <<>> ELSE Below(ast.node[n])

EnterBlock ==
    /\ Doing("collect")
    /\ kind(task.n) \notin
         {"function_arg", "variable_def", "variable_decl", "function_decl", "function_def"}
    /\ home' = [home EXCEPT ![task.n] = task.t]
    /\ Then(Calls("collect", Collected(task.n), task.t))
    /\ UNCHANGED <<ast, tables, answers, stacks, typing, error_count, history, outcome>>

-----------------------------------------------------------------------------
(* evaluate.  For a function definition both loops first look its table up *)
(* from the global one, and pass what they find.                           *)
Entering(d) == IF d = "assign" THEN "enter_assign" ELSE "enter_visit"
Entry(d, n) == <<Call(IF kind(n) = "function_def" THEN Entering(d) ELSE d, n, Root)>>

PopAssign ==
    /\ Idle /\ stack_assign # <<>>
    /\ LET n == stack_assign[Len(stack_assign)]
       IN  agenda' = Entry("assign", n) \o <<Call("derive", n, Root)>>
    /\ stack_assign' = SubSeq(stack_assign, 1, Len(stack_assign) - 1)
    /\ UNCHANGED <<ast, tables, answers, stack_visit, typing, error_count, history, home, outcome>>

PopVisit ==
    /\ Idle /\ stack_assign = <<>> /\ stack_visit # <<>>
    /\ agenda' = Entry("visit", Head(stack_visit))
    /\ stack_visit' = Tail(stack_visit)
    /\ UNCHANGED <<ast, tables, answers, stack_assign, typing, error_count, history, home, outcome>>

Enter ==
    /\ \E d \in {"assign", "visit"} :
         /\ Doing(Entering(d))
         /\ Then(<<Call(d, task.n, answers[1])>>)
    /\ answers' = <<>>
    /\ UNCHANGED <<ast, tables, stacks, typing, error_count, history, home, outcome>>

(* The type of a definition or an expression is handed to the literals     *)
(* below it, and the children are put on the stack.                        *)
Pushed_again(n) == IF kids(n) = <<>> THEN <<n>> ELSE kids(n)   \* a slip
Pushed(n) == kids(n)

Derive ==
    /\ Doing("derive")
    /\ parent_type' =
         [m \in Nodes |->
            IF /\ kind(task.n) \in {"variable_def", "expression"}
               /\ \E i \in DOMAIN kids(task.n) : kids(task.n)[i] = m
               /\ pre_match(m, real_type[task.n])
            THEN task.n ELSE parent_type[m]]
    /\ stack_assign' = stack_assign \o Pushed(task.n)
    /\ Then(<<>>)
    /\ UNCHANGED <<ast, tables, answers, stack_visit, real_type, types, error_count,
                   history, home, outcome>>

Finish ==
    /\ Idle /\ stack_assign = <<>> /\ stack_visit = <<>>
    /\ outcome' = IF error_count = 0 THEN "accepted" ELSE "rejected"
    /\ UNCHANGED <<ast, tables, agenda, answers, stacks, typing, error_count, history, home>>

-----------------------------------------------------------------------------
(* assign_type_to_node.                                                    *)
rest == <<ast, tables, stacks, parent_type, home>>

Assigning == assigned' = assigned \cup {task.n}

GetsType(n, k) == real_type' = [real_type EXCEPT ![n] = k]

AssignLeaf ==
    /\ \/ /\ At("assign", {"number"})
          /\ LET p == parent_type[task.n]
             IN  GetsType(task.n, IF p # 0 /\ real_type[p] # "UNKNOWN" THEN real_type[p] ELSE "I32")
       \/ /\ At("assign", {"string", "bool"})
          /\ GetsType(task.n, IF kind(task.n) = "bool" THEN "BOOL" ELSE "STRING")
       \/ /\ At("assign", {"float"})
          /\ GetsType(task.n, "F32")
       \/ /\ At("assign", {"variable_decl", "variable_def", "function_arg"})
          /\ GetsType(task.n, make_type(ast.node[task.n].type))
    /\ Assigning
    /\ Then(<<>>)
    /\ UNCHANGED <<rest, answers, types, error_count, resolved, outcome>>

(* The calls the handlers of the other kinds make.  Bodies are assigned    *)
(* with the table of the node itself, a function's body before its         *)
(* parameters.  (Their assignments are passed over: assigning one, as      *)
(* evaluate does at the top level, does nothing.)                          *)
AssignCalls(n, t) ==
    CASE kind(n) = "identifier" ->
           <<Call("resolve", n, t)>>
      [] kind(n) = "expression" ->
           Calls("assign", Operands(n), t) \o <<Call("support", n, t), Call("decide", n, t)>>
      [] kind(n) = "return" ->
           <<Call("support", kids(n)[1], t), Call("assign", kids(n)[1], t), Call("push_type", n, t)>>
      [] kind(n) = "unary" ->
           <<Call("support", kids(n)[1], t), Call("assign", kids(n)[1], t)>>
      [] kind(n) = "print" -> <<Call("assign", kids(n)[1], t)>>
      [] kind(n) = "function_def" ->
           Calls("assign", ast.node[n].body \o ast.node[n].args, t)
      [] kind(n) \in {"if", "while", "for", "else"} -> Calls("assign", Below(ast.node[n]), t)
      [] kind(n) = "function_call" -> <<Call("type_call", n, t)>>
      [] OTHER -> <<>>

AssignNode ==
    /\ Doing("assign")
    /\ kind(task.n) \notin
         {"number", "string", "bool", "float", "variable_decl", "variable_def", "function_arg",
          "function_decl"}
    /\ Assigning
    /\ Then(AssignCalls(task.n, task.t))
    /\ UNCHANGED <<rest, answers, real_type, types, error_count, resolved, outcome>>

AssignFunctionDecl ==
    /\ At("assign", {"function_decl"})
    /\ GetsType(task.n, make_type(ast.node[task.n].type))
    /\ Assigning
    /\ Then(Calls("assign", ast.node[task.n].args, task.t))
    /\ UNCHANGED <<rest, answers, types, error_count, resolved, outcome>>

(* An identifier: found in neither table is an error; its own table goes   *)
(* before the global one, whose answer is its type even when it is none.   *)
(* (Slips: the other way round; a negation forgotten.)                     *)
Preferred_global(local, global)  == IF global # Null THEN global ELSE local
Undeclared_negated(local, global) == local = Null /\ global # Null

Undeclared(local, global) == local = Null /\ global = Null
Preferred(local, global) == IF local # Null THEN local ELSE global

Resolve ==
    /\ Doing("resolve")
    /\ Errors(<<Undeclared(answers[1], answers[2])>>)
    /\ LET from == Preferred(answers[3], answers[4])
       IN  /\ GetsType(task.n, TypeIn(IF from = Null THEN Root ELSE from, name(task.n)))
           /\ resolved' = [resolved EXCEPT ![task.n] = from]
    /\ answers' = <<>>
    /\ Then(<<>>)
    /\ UNCHANGED <<rest, types, assigned, outcome>>

Support ==
    /\ Doing("support")
    /\ real_type' = Supported(task.n)
    /\ error_count' = error_count + SupportErrors(task.n)
    /\ Then(<<>>)
    /\ UNCHANGED <<rest, answers, types, history, outcome>>

Decide ==
    /\ Doing("decide")
    /\ \/ /\ parent_type[task.n] # 0
          /\ GetsType(task.n, real_type[parent_type[task.n]])
       \/ /\ parent_type[task.n] = 0
          /\ \E k \in DecidedTypes(task.n) : GetsType(task.n, k)
    /\ Then(<<>>)
    /\ UNCHANGED <<rest, answers, types, error_count, history, outcome>>

PushType ==
    /\ Doing("push_type")
    /\ types' = [types EXCEPT ![task.n] = Append(@, type_expr(kids(task.n)[1], real_type))]
    /\ Then(<<>>)
    /\ UNCHANGED <<rest, answers, real_type, error_count, history, outcome>>

(* A call takes its type from the table the global table finds; the report *)
(* of an undefined function does not keep the null table from being read.  *)
(* A function called like the global table finds that one, which has no    *)
(* return type: the first element of an empty vector is read.              *)
TypeCall ==
    /\ Doing("type_call")
    /\ Errors(<<children[Root] = <<>>, answers[1] = Null>>)
    /\ \/ /\ answers[2] \in {Null, Root}
          /\ outcome' = "crashed"
          /\ Then(<<>>)
          /\ UNCHANGED real_type
       \/ /\ answers[2] \notin {Null, Root}
          /\ GetsType(task.n, return_type[answers[2]])
          /\ Then(Calls("assign", ast.node[task.n].args, task.t))
          /\ UNCHANGED outcome
    /\ answers' = <<>>
    /\ UNCHANGED <<rest, types, history>>

-----------------------------------------------------------------------------
(* donsus_sym, the checks.  Of the compound statements only the bodies of  *)
(* functions and of ifs are visited: not an alternate, not a loop's body.  *)
VisitCalls(n, t) ==
    CASE kind(n) = "variable_decl" -> <<Call("declared", n, t)>>
      [] kind(n) = "variable_def" ->
           <<Call("defined", n, t), Call("assign", kids(n)[1], t), Call("support", n, t), Call("check_def", n, t)>>
      [] kind(n) \in {"if", "while"} ->
           <<Call("condition", n, t), Call("support", kids(n)[1], t)>>
             \o (IF kind(n) = "if" THEN Calls("visit", ast.node[n].body, t) ELSE <<>>)
      [] kind(n) = "function_decl" -> <<Call("not_duplicated", n, t)>>
      [] kind(n) = "function_def" ->
           <<Call("not_duplicated", n, t), Call("returns", n, t)>>
             \o Calls("visit", ast.node[n].body, t)
      [] kind(n) = "assignment" ->
           LET sides == ast.node[n].args
           IN  Calls("assign", sides, t) \o Calls("support", sides, t)
                 \o <<Call("check_assignment", n, t)>>
      [] kind(n) = "function_call" ->
           <<Call("check_call", n, t)>>
      [] OTHER -> <<>>

VisitNode ==
    /\ Doing("visit")
    /\ Then(VisitCalls(task.n, task.t))
    /\ UNCHANGED <<rest, answers, real_type, types, error_count, history, outcome>>

(* What the checks report, when their look-ups have answered.              *)
RedefinitionIn_local(n, t) == t # Root /\ Duplicated(t, name(n))   \* a slip
RedefinitionIn(n, t) == Duplicated(t, name(n)) /\ Duplicated(Root, name(n))

NegatedUnsigned(n) ==
    /\ ast.node[n].type \in {"U32", "U64"}
    /\ kind(kids(n)[1]) = "unary"
    /\ kind(kids(kids(n)[1])[1]) = "number"

(* get_sym_table never sets `duplicated': it returns the first table of a  *)
(* name before it could count a second one.                                *)
FlaggedDuplicate(t) == FALSE

Returning(n) ==
    LET body == Members(ast.node[n].body)
        ifs  == {m \in body : kind(m) = "if"}
    IN  {m \in body \cup UNION {Members(Below(ast.node[b])) : b \in ifs} : kind(m) = "return"}

Matching_any(n) == Returning(n)   \* a slip
Matching(n) ==
    {m \in Returning(n) :
        Len(types[m]) = 1 /\ Compatible(types[m][1], make_type(ast.node[n].type))}

ReturnErrors(n) ==
    IF make_type(ast.node[n].type) = "VOID" THEN Cardinality(Returning(n))
    ELSE IF Matching(n) = {} THEN 1 ELSE 0

Misfits(n) == ~Compatible(make_type(ast.node[n].type), type_expr(kids(n)[1], real_type))

Report ==
    /\ \/ /\ Doing("declared")
          /\ Errors(<<Duplicated(task.t, name(task.n))>>)
       \/ /\ Doing("defined")
          /\ Errors(<<RedefinitionIn(task.n, task.t), NegatedUnsigned(task.n)>>)
       \/ /\ Doing("not_duplicated")
          /\ Errors(<<FlaggedDuplicate(answers[1])>>)
       \/ /\ Doing("returns")
          /\ error_count' = error_count + ReturnErrors(task.n)
       \/ /\ Doing("check_def")
          /\ Errors(<<Misfits(task.n)>>)
       \/ /\ Doing("check_assignment")
          /\ Errors(<<~Compatible(real_type[ast.node[task.n].args[1]],
                                  real_type[ast.node[task.n].args[2]])>>)
    /\ answers' = <<>>
    /\ Then(<<>>)
    /\ UNCHANGED <<rest, real_type, types, history, outcome>>

(* A message cuts the line of its node out of the text BEFORE its error is  *)
(* counted.  Nothing has set the offset it starts from in a definition, a  *)
(* declaration or an operator: past the end of the text substr throws, and *)
(* no one catches.                                                         *)
MessageThrows ==
    /\ \/ /\ Doing("declared")
          /\ Duplicated(task.t, name(task.n))
       \/ /\ Doing("defined")
          /\ RedefinitionIn(task.n, task.t) \/ NegatedUnsigned(task.n)
       \/ /\ Doing("check_def")
          /\ Misfits(task.n)
       \/ /\ Doing("support")
          /\ Mismatches(task.n) # {}
    /\ outcome' = "thrown"
    /\ UNCHANGED <<ast, tables, agenda, answers, stacks, typing, error_count, history, home>>

Condition ==
    /\ Doing("condition")
    /\ GetsType(kids(task.n)[1], "BOOL")
    /\ Then(<<>>)
    /\ UNCHANGED <<rest, answers, types, error_count, history, outcome>>

(* A call: its arguments are compared with the first symbols of the table  *)
(* of the function, whatever they are; past their end it reads anything.   *)
Parameters(t) == {i \in DOMAIN symbols[t] : symbols[t][i].is_function_arg}

CheckCall ==
    /\ Doing("check_call")
    /\ LET t     == answers[2]
           args  == ast.node[task.n].args
           known == {i \in DOMAIN args : i \in DOMAIN symbols[t]}
           wrong == {i \in known : ~Compatible(symbols[t][i].type, real_type[args[i]])}
       IN  \/ /\ t = Null
              /\ Errors(<<answers[1] = Null>>)
              /\ outcome' = "crashed"
           \/ /\ t # Null
              /\ \E garbage \in 0..(Len(args) - Cardinality(known)) :
                   error_count' = error_count + Cardinality(wrong) + garbage
                     + (IF Len(args) # Cardinality(Parameters(t)) THEN 1 ELSE 0)
              /\ outcome' \in {outcome} \cup (IF known = DOMAIN args THEN {} ELSE {"crashed"})
    /\ answers' = <<>>
    /\ Then(<<>>)
    /\ UNCHANGED <<rest, real_type, types, history>>

-----------------------------------------------------------------------------
(* init_traverse puts the top-level nodes on both containers.              *)
Init ==
    /\ ast \in Programs
    /\ ST!Init
    /\ symbols = [t \in Tables |-> <<>>]
    /\ return_type = [t \in Tables |-> "UNKNOWN"]
    /\ agenda = Calls("collect", ast.top, Root)
    /\ answers = <<>>
    /\ stack_assign = ast.top /\ stack_visit = ast.top
    /\ real_type = [n \in Nodes |-> "UNKNOWN"]
    /\ parent_type = [n \in Nodes |-> 0]
    /\ types = [n \in Nodes |-> <<>>]
    /\ error_count = 0
    /\ resolved = [n \in Nodes |-> Null]
    /\ assigned = {}
    /\ home = [n \in Nodes |-> Null]
    /\ outcome = "running"

Collect == EnterSymbol \/ EnterFunction \/ EnterBlock
Assign  == PopAssign \/ Derive \/ AssignLeaf \/ AssignNode \/ AssignFunctionDecl
             \/ Resolve \/ Support \/ Decide \/ PushType \/ TypeCall
Visit   == PopVisit \/ VisitNode \/ Report \/ MessageThrows \/ Condition \/ CheckCall

Next == Collect \/ Ask \/ Enter \/ Assign \/ Visit \/ Finish

(* One thread runs the walk and waits for nothing.                         *)
Spec == Init /\ [][Next]_vars /\ WF_vars(Next)

-----------------------------------------------------------------------------
TypeOK ==
    /\ ST!TypeOK
    /\ symbols \in [Tables -> Seq([type : Kinds, is_function_arg : BOOLEAN])]
    /\ return_type \in [Tables -> Kinds]
    /\ \A i \in DOMAIN agenda : agenda[i].n \in Nodes /\ agenda[i].t \in live
    /\ answers \in Seq(live \cup {Null})
    /\ stack_assign \in Seq(Nodes) /\ stack_visit \in Seq(Nodes)
    /\ real_type \in [Nodes -> Kinds]
    /\ parent_type \in [Nodes -> Nodes \cup {0}]
    /\ types \in [Nodes -> Seq(Kinds)]
    /\ error_count \in Nat
    /\ resolved \in [Nodes -> live \cup {Null}]
    /\ assigned \subseteq Nodes
    /\ home \in [Nodes -> live \cup {Null}]
    /\ outcome \in {"running", "accepted", "rejected", "crashed", "thrown"}

-----------------------------------------------------------------------------
(* The AST, read from below.                                               *)
Holders(n) == HoldersIn(ast, n)

Around(n) ==
    LET up[m \in Nodes] == Holders(m) \cup UNION {up[h] : h \in Holders(m)}
    IN  up[n]

Functions(n) == {h \in Around(n) : kind(h) = "function_def"}

TopLevel(n) == n \in Members(ast.top)

Named(ks) == {n \in Nodes : kind(n) \in ks}

UniqueFunctions == \A f, g \in Named({"function_def"}) : name(f) = name(g) => f = g

Declared(t, n) == ST!Matches(t, n) # {}

(* A name used in a function, at any depth of its blocks, is the function's *)
(* own if it declares it, and otherwise the global one: whatever links the *)
(* look-ups made before it have moved or cut.  (Not in a function that is   *)
(* itself in a block or a function, or that is called `global', nor where  *)
(* two functions share a name: there the code looks elsewhere.)            *)
UsesResolveLexically ==
    UniqueFunctions =>
        \A n \in Named({"identifier"}) :
            (/\ resolved[n] # Null
             /\ \A f \in Functions(n) : TopLevel(f) /\ name(f) # GlobalName) =>
                LET own == {home[f] : f \in Functions(n)}
                    near == {t \in own : Declared(t, name(n))}
                IN  resolved[n] \in (IF near = {} THEN {Root} ELSE near)

Statement(n) == TopLevel(n) \/ \E h \in Nodes : n \in Members(Below(ast.node[h]))

(* In an accepted program a returned name, or an argument of a call that is *)
(* a statement, is a declared one, however deep in blocks and loops the    *)
(* statement is.  (Not of a call on the right of an assignment: in the body *)
(* of a loop nothing looks at it.)                                         *)
AcceptedUsesAreDeclared ==
    outcome = "accepted" =>
        \A n \in Named({"identifier"}) :
            (\E h \in Holders(n) : kind(h) \in {"return", "function_call"} /\ Statement(h)) =>
                resolved[n] # Null

(* An accepted program gives the name of a top-level variable to nothing   *)
(* else the global table holds, before or after it.                        *)
GlobalsAreUnique ==
    outcome = "accepted" =>
        \A n \in Named({"variable_def", "variable_decl"}) :
            TopLevel(n) => Cardinality(ST!Matches(Root, name(n))) = 1

(* An accepted function that is not void returns its type somewhere.       *)
AcceptedFunctionsReturn ==
    outcome = "accepted" =>
        \A f \in Named({"function_def"}) :
            (TopLevel(f) /\ make_type(ast.node[f].type) # "VOID") =>
                \E m \in Named({"return"}) :
                    /\ f \in Around(m)
                    /\ Compatible(type_expr(kids(m)[1], real_type), make_type(ast.node[f].type))

(* Functions as the look-ups of functions find them: no two of one name,   *)
(* none called `global', definitions nested at most once, declarations not *)
(* at all.                                                                 *)
PlainFunctions ==
    /\ UniqueFunctions
    /\ \A n \in Named({"function_def", "function_call"}) : name(n) # GlobalName
    /\ \A f \in Named({"function_def"}) : Cardinality(Functions(f)) <= 1
    /\ \A d \in Named({"function_decl"}) : Functions(d) = {}

(* The analysis does not die of a program without telling what is wrong    *)
(* with it, where functions are plain: elsewhere a look-up of the visit     *)
(* misses and cuts the link the next call reads through.                   *)
CrashIsReported ==
    (outcome = "crashed" /\ PlainFunctions) => error_count > 0

(* The walk ends, on every program.                                        *)
WalkEnds == <>(outcome # "running")

(* As long as nothing is wrong with the program, and its functions are     *)
(* plain, the look-ups of the walk leave every link of the tables where    *)
(* add_sym_table put it.                                                   *)
LinksSurvive ==
    (error_count = 0 /\ PlainFunctions) => \A t \in live : ST!Linked(t)

(* Readme.md: "Donsus doesn't allow redefinition of variables(ODR)": an    *)
(* accepted program defines a variable once in each function.  The check   *)
(* asks for a second definition in the function AND in the global table.   *)
NoVariableIsRedefined ==
    outcome = "accepted" =>
        \A m, n \in Named({"variable_def"}) :
            (m # n /\ name(m) = name(n)) => Holders(m) # Holders(n)
=============================================================================
