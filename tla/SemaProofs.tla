----------------------------- MODULE SemaProofs -----------------------------
(***************************************************************************)
(* The walk of the semantic analysis, for any programs the parser makes    *)
(* and any number of tables: the invariant TypeInv of the calls that are   *)
(* due, the stacks, the tables and the answers of the look-ups, that the   *)
(* walk keeps the types of its state, and that it uses the tables as       *)
(* module SymTable says they may be used.                                  *)
(*                                                                         *)
(* Tab is the tables with all that is proved of them: what holds of them   *)
(* in any order of operations holds of the order the walk makes.           *)
(*                                                                         *)
(* On top of it, what the walk does with names:                            *)
(*   GlobalsAlwaysUnique   a global variable is declared once,             *)
(*   UsesAlwaysDeclared    a name that is used is a declared one,          *)
(*   NamesAlwaysLexical    and it is the declaration its function sees.    *)
(* Each has an invariant of its own about the calls that are due:          *)
(* GlobalsInv, UsesInv and LexInv.  The last has a hypothesis, ModsShow:   *)
(* that no `mod' left uninitialised in a symbol happens to be -1, which    *)
(* look-ups take for no symbol at all.                                     *)
(***************************************************************************)
EXTENDS Sema, Least, SequenceTheorems, FiniteSetTheorems, TLAPS

Tab == INSTANCE SymTableProofs

-----------------------------------------------------------------------------
(* Programs.                                                               *)
Last == Len(ast.node)

LEMMA Whole == ASSUME ast \in Programs PROVE IsProgram(ast)
BY ProgramAssumption

LEMMA Numbered ==
    ASSUME ast \in Programs
    PROVE  Last \in Nat /\ Nodes = 1..Last /\ ast.top \in Seq(Nodes)
BY Whole DEF IsProgram, Nodes, Last

(* Every list of a node is of nodes numbered above it.                     *)
LEMMA ListsGoUp ==
    ASSUME ast \in Programs, NEW n \in Nodes, NEW l \in NodeLists(ast.node[n])
    PROVE  /\ l \in Seq(Nodes) /\ Len(l) \in Nat /\ DOMAIN l = 1..Len(l)
           /\ \A i \in DOMAIN l : l[i] \in Nodes /\ l[i] > n
<1>1. l \in Seq((n + 1)..Last) /\ Last \in Nat /\ Nodes = 1..Last
  BY Whole, Numbered DEF IsProgram, Nodes, Last
<1>2. (n + 1)..Last \subseteq Nodes
  BY <1>1
<1>3. \A i \in DOMAIN l : l[i] \in (n + 1)..Last
  BY <1>1
<1>4. QED
  BY <1>1, <1>2, <1>3

LEMMA KidsGoUp ==
    ASSUME ast \in Programs, NEW n \in Nodes
    PROVE  /\ kids(n) \in Seq(Nodes) /\ Len(kids(n)) \in Nat /\ DOMAIN kids(n) = 1..Len(kids(n))
           /\ \A i \in DOMAIN kids(n) : kids(n)[i] \in Nodes /\ kids(n)[i] > n
<1>1. kids(n) \in NodeLists(ast.node[n])
  BY DEF kids, NodeLists
<1>2. QED
  BY <1>1, ListsGoUp

(* The recursive definitions over the AST go from a node to its children.  *)
Height == [m \in Nodes |-> Last - m]

LEMMA FromBelow ==
    ASSUME ast \in Programs, NEW P,
           \A m \in Nodes : (\A k \in Nodes : k > m => k \in P) => m \in P
    PROVE  Nodes \subseteq P
<1>1. Last \in Nat /\ Nodes = 1..Last
  BY Numbered
<1>2. Height \in [Nodes -> Nat] /\ \A k, m \in Nodes : k > m => Height[k] < Height[m]
  BY <1>1 DEF Height
<1>3. \A m \in Nodes : (\A k \in Nodes : Height[k] < Height[m] => k \in P) => m \in P
  BY <1>2
<1>4. QED
  BY <1>2, <1>3, ByRank, ZenonT(30)

Reads(V, step) ==
    /\ V # {} /\ step \in [Nodes -> [[Nodes -> V] -> V]]
    /\ \A m \in Nodes : \A f, g \in [Nodes -> V] :
         (\A k \in Nodes : k > m => f[k] = g[k]) => step[m][f] = step[m][g]

LEMMA DefinedFromBelow ==
    ASSUME ast \in Programs, NEW V, NEW step, Reads(V, step)
    PROVE  \E f : Fixpoint(Nodes, V, step, f)
<1>1. Last \in Nat /\ Nodes = 1..Last
  BY Numbered
<1>2. Height \in [Nodes -> 0..Last] /\ \A k, m \in Nodes : k > m => Height[k] < Height[m]
  BY <1>1 DEF Height
<1>3. \A m \in Nodes : \A f, g \in [Nodes -> V] :
         (\A k \in Nodes : Height[k] < Height[m] => f[k] = g[k]) => step[m][f] = step[m][g]
  <2>1. ASSUME NEW m \in Nodes, NEW f \in [Nodes -> V], NEW g \in [Nodes -> V],
               \A k \in Nodes : Height[k] < Height[m] => f[k] = g[k]
        PROVE  step[m][f] = step[m][g]
    <3>1. \A k \in Nodes : k > m => f[k] = g[k]
      BY <1>2, <2>1
    <3>2. QED
      BY <3>1 DEF Reads
  <2>2. QED
    BY <2>1
<1>4. StepsDown(Nodes, V, Last, Height, step)
  BY <1>1, <1>2, <1>3 DEF StepsDown, Reads
<1>5. QED
  BY <1>4, Recursion

LEMMA SubtreeIs ==
    ASSUME ast \in Programs, NEW n \in Nodes
    PROVE  /\ Subtree(n) = {n} \cup UNION {Subtree(kids(n)[i]) : i \in DOMAIN kids(n)}
           /\ Subtree(n) \subseteq Nodes
<1> DEFINE Step(f, m) == {m} \cup UNION {f[kids(m)[i]] : i \in DOMAIN kids(m)}
           Is(f) == f = [m \in Nodes |-> Step(f, m)]
           under == CHOOSE f : Is(f)
           V == SUBSET Nodes
           step == [m \in Nodes |-> [f \in [Nodes -> V] |-> Step(f, m)]]
<1>1. \A m \in Nodes : \A i \in DOMAIN kids(m) : kids(m)[i] \in Nodes /\ kids(m)[i] > m
  BY KidsGoUp
<1>2. \A m \in Nodes : Subtree(m) = under[m]
  BY DEF Subtree
<1>3. Reads(V, step)
  <2>1. step \in [Nodes -> [[Nodes -> V] -> V]]
    BY <1>1
  <2>2. ASSUME NEW m \in Nodes, NEW f \in [Nodes -> V], NEW g \in [Nodes -> V],
               \A k \in Nodes : k > m => f[k] = g[k]
        PROVE  step[m][f] = step[m][g]
    BY <1>1, <2>2
  <2>3. QED
    BY <2>1, <2>2 DEF Reads
<1>4. Is(under)
  <2>1. PICK f : Fixpoint(Nodes, V, step, f)
    <3> HIDE DEF V, step
    <3>1. QED
      BY <1>3, DefinedFromBelow
  <2>2. f \in [Nodes -> V] /\ \A m \in Nodes : f[m] = Step(f, m)
    BY <2>1 DEF Fixpoint
  <2> HIDE DEF Step
  <2>3. Is(f)
    BY <2>2
  <2> HIDE DEF Is
  <2>4. QED
    BY <2>3
<1> DEFINE P == {m \in Nodes : under[m] \subseteq Nodes}
<1> HIDE DEF under
<1>5. \A m \in Nodes : under[m] = Step(under, m)
  BY <1>4
<1>6. Nodes \subseteq P
  <2>1. ASSUME NEW m \in Nodes, \A k \in Nodes : k > m => k \in P
        PROVE  m \in P
    BY <1>1, <1>5, <2>1
  <2> HIDE DEF P
  <2>2. QED
    BY <2>1, FromBelow
<1>7. QED
  BY <1>1, <1>2, <1>5, <1>6

(* What the parser promises of each kind of node.                          *)
LEMMA Shapes ==
    ASSUME ast \in Programs, NEW n \in Nodes
    PROVE  /\ kind(n) \in WithOperand => 1 \in DOMAIN kids(n)
           /\ kind(n) = "expression" => 1 \in DOMAIN kids(n) /\ 2 \in DOMAIN kids(n)
           /\ kind(n) = "assignment" => 1 \in DOMAIN ast.node[n].args /\ 2 \in DOMAIN ast.node[n].args
           /\ kind(n) \in NamedKinds => name(n) \in Names
           /\ \A i \in DOMAIN kids(n) : kind(kids(n)[i]) \in ValueKinds
<1>1. n \in DOMAIN ast.node
  BY DEF Nodes
<1>2. LET nd == ast.node[n]
      IN  /\ nd.kind \in NamedKinds => nd.name \in Names
          /\ nd.kind \in WithOperand => nd.children # <<>>
          /\ nd.kind = "expression" => Len(nd.children) = 2
          /\ nd.kind = "assignment" => Len(nd.args) = 2
          /\ \A m \in Members(nd.children) : ast.node[m].kind \in ValueKinds
  BY <1>1, Whole DEF IsProgram
<1>3. kids(n) \in Seq(Nodes) /\ ast.node[n].args \in Seq(Nodes)
  <2>1. ast.node[n].args \in NodeLists(ast.node[n])
    BY DEF NodeLists
  <2>2. QED
    BY <2>1, KidsGoUp, ListsGoUp
<1>4. \A s \in Seq(Nodes) : (s # <<>> => 1 \in DOMAIN s) /\ (Len(s) = 2 => 1 \in DOMAIN s /\ 2 \in DOMAIN s)
  OBVIOUS
<1>5. QED
  BY <1>2, <1>3, <1>4 DEF kids, kind, name, Members

LEMMA SupportedTypes ==
    ASSUME ast \in Programs, real_type \in [Nodes -> Kinds], NEW n \in Nodes
    PROVE  Supported(n) \in [Nodes -> Kinds] /\ SupportErrors(n) \in Nat
<1> DEFINE Step(f, m) == IF IsOperator(m) THEN f[kids(m)[1]] ELSE real_type[m]
           Is(f) == f = [m \in Nodes |-> Step(f, m)]
           t == CHOOSE f : Is(f)
           step == [m \in Nodes |-> [f \in [Nodes -> Kinds] |-> Step(f, m)]]
<1>1. \A m \in Nodes : IsOperator(m) => kids(m)[1] \in Nodes /\ kids(m)[1] > m
  BY KidsGoUp, Shapes DEF IsOperator
<1>2. \A n_1 \in Nodes : Supported(n_1) = [m \in Nodes |-> IF m \in Subtree(n_1) THEN t[m] ELSE real_type[m]]
  BY DEF Supported
<1>3. Reads(Kinds, step)
  <2>1. step \in [Nodes -> [[Nodes -> Kinds] -> Kinds]]
    BY <1>1
  <2>2. ASSUME NEW m \in Nodes, NEW f \in [Nodes -> Kinds], NEW g \in [Nodes -> Kinds],
               \A k \in Nodes : k > m => f[k] = g[k]
        PROVE  step[m][f] = step[m][g]
    BY <1>1, <2>2
  <2>3. Kinds # {}
    BY DEF Kinds
  <2>4. QED
    BY <2>1, <2>2, <2>3 DEF Reads
<1>4. Is(t)
  <2>1. PICK f : Fixpoint(Nodes, Kinds, step, f)
    <3> HIDE DEF step
    <3>1. QED
      BY <1>3, DefinedFromBelow
  <2>2. f \in [Nodes -> Kinds] /\ \A m \in Nodes : f[m] = Step(f, m)
    BY <2>1 DEF Fixpoint
  <2> HIDE DEF Step
  <2>3. Is(f)
    BY <2>2
  <2> HIDE DEF Is
  <2>4. QED
    BY <2>3
<1> DEFINE P == {m \in Nodes : t[m] \in Kinds}
<1> HIDE DEF t
<1>5. \A m \in Nodes : t[m] = Step(t, m)
  BY <1>4
<1>6. Nodes \subseteq P
  <2>1. ASSUME NEW m \in Nodes, \A k \in Nodes : k > m => k \in P
        PROVE  m \in P
    BY <1>1, <1>5, <2>1
  <2> HIDE DEF P
  <2>2. QED
    BY <2>1, FromBelow
<1>7. Supported(n) \in [Nodes -> Kinds]
  BY <1>2, <1>6
<1>8. SupportErrors(n) \in Nat
  <2>1. IsFiniteSet(Subtree(n))
    <3>1. Subtree(n) \subseteq 1..Last /\ Last \in Nat
      BY SubtreeIs, Numbered
    <3>2. IsFiniteSet(1..Last)
      BY <3>1, FS_Interval
    <3>3. QED
      BY <3>1, <3>2, FS_Subset
  <2>2. Mismatches(n) \subseteq Subtree(n) /\ NotArithmetic(n) \subseteq Subtree(n)
    BY DEF Mismatches, NotArithmetic
  <2>3. Cardinality(Mismatches(n)) \in Nat /\ Cardinality(NotArithmetic(n)) \in Nat
    BY <2>1, <2>2, FS_Subset, FS_CardinalityType
  <2>4. QED
    BY <2>3 DEF SupportErrors
<1>9. QED
  BY <1>7, <1>8

(* The operands of an expression: they are in every set that contains it   *)
(* and, with an expression, what it is made of.                            *)
LEMMA OperandsWithin ==
    ASSUME ast \in Programs, NEW n \in Nodes
    PROVE  /\ Operands(n) \in Seq(Nodes)
           /\ \A P : (n \in P /\ \A m \in Nodes \cap P : kind(m) = "expression" =>
                                     kids(m)[1] \in P /\ kids(m)[2] \in P)
                     => \A i \in DOMAIN Operands(n) : Operands(n)[i] \in P
<1> DEFINE Step(f, m) == IF kind(m) # "expression" THEN <<m>> ELSE f[kids(m)[1]] \o f[kids(m)[2]]
           Is(f) == f = [m \in Nodes |-> Step(f, m)]
           flat == CHOOSE f : Is(f)
           V == Seq(Nodes)
           step == [m \in Nodes |-> [f \in [Nodes -> V] |-> Step(f, m)]]
<1>1. \A m \in Nodes : kind(m) = "expression" =>
         kids(m)[1] \in Nodes /\ kids(m)[1] > m /\ kids(m)[2] \in Nodes /\ kids(m)[2] > m
  BY KidsGoUp, Shapes
<1>2. \A m \in Nodes : Operands(m) = flat[m]
  BY DEF Operands
<1>3. Reads(V, step)
  <2>1. step \in [Nodes -> [[Nodes -> V] -> V]]
    <3>1. ASSUME NEW m \in Nodes, NEW f \in [Nodes -> V] PROVE Step(f, m) \in V
      <4>1. CASE kind(m) = "expression"
        <5>1. f[kids(m)[1]] \in V /\ f[kids(m)[2]] \in V
          BY <1>1, <4>1
        <5>2. QED
          BY <4>1, <5>1
      <4>2. CASE kind(m) # "expression"
        BY <4>2
      <4>3. QED
        BY <4>1, <4>2
    <3> HIDE DEF Step, V
    <3>2. QED
      BY <3>1
  <2>2. ASSUME NEW m \in Nodes, NEW f \in [Nodes -> V], NEW g \in [Nodes -> V],
               \A k \in Nodes : k > m => f[k] = g[k]
        PROVE  step[m][f] = step[m][g]
    <3>1. Step(f, m) = Step(g, m)
      BY <1>1, <2>2
    <3> HIDE DEF Step, V
    <3>2. QED
      BY <3>1
  <2>3. V # {}
    BY EmptySeq
  <2> HIDE DEF V, step
  <2>4. QED
    BY <2>1, <2>2, <2>3 DEF Reads
<1>4. Is(flat)
  <2>1. PICK f : Fixpoint(Nodes, V, step, f)
    <3> HIDE DEF step, V
    <3>1. QED
      BY <1>3, DefinedFromBelow
  <2>2. f \in [Nodes -> V] /\ \A m \in Nodes : f[m] = Step(f, m)
    <3> HIDE DEF Step
    <3>1. QED
      BY <2>1 DEF Fixpoint
  <2> HIDE DEF Step, V
  <2>3. Is(f)
    BY <2>2
  <2> HIDE DEF Is
  <2>4. QED
    BY <2>3
<1> HIDE DEF flat
<1>5. \A m \in Nodes : flat[m] = Step(flat, m)
  <2> HIDE DEF Step
  <2>1. QED
    BY <1>4
<1>6. Nodes \subseteq {m \in Nodes : flat[m] \in V}
  <2> DEFINE P == {m \in Nodes : flat[m] \in V}
  <2>1. ASSUME NEW m \in Nodes, \A k \in Nodes : k > m => k \in P
        PROVE  m \in P
    <3>1. CASE kind(m) = "expression"
      <4>1. PICK l, r : l = flat[kids(m)[1]] /\ r = flat[kids(m)[2]]
        OBVIOUS
      <4>2. l \in Seq(Nodes) /\ r \in Seq(Nodes)
        BY <1>1, <2>1, <3>1, <4>1
      <4>3. flat[m] = l \o r
        BY <1>5, <3>1, <4>1
      <4>4. l \o r \in Seq(Nodes)
        BY <4>2
      <4>5. QED
        BY <4>3, <4>4
    <3>2. CASE kind(m) # "expression"
      <4>1. flat[m] = <<m>>
        BY <1>5, <3>2
      <4>2. <<m>> \in Seq(Nodes)
        OBVIOUS
      <4>3. QED
        BY <4>1, <4>2
    <3>3. QED
      BY <3>1, <3>2
  <2> HIDE DEF P
  <2>2. Nodes \subseteq P
    BY <2>1, FromBelow
  <2>3. QED
    BY <2>2 DEF P
<1>7. ASSUME NEW P, \A m \in Nodes \cap P : kind(m) = "expression" => kids(m)[1] \in P /\ kids(m)[2] \in P
      PROVE  \A m \in Nodes \cap P : \A i \in DOMAIN flat[m] : flat[m][i] \in P
  <2> DEFINE Q == {m \in Nodes : m \in P => \A i \in DOMAIN flat[m] : flat[m][i] \in P}
  <2>1. ASSUME NEW m \in Nodes, \A k \in Nodes : k > m => k \in Q, m \in P
        PROVE  \A i \in DOMAIN flat[m] : flat[m][i] \in P
    <3>1. CASE kind(m) = "expression"
      <4>1. PICK l, r : l = flat[kids(m)[1]] /\ r = flat[kids(m)[2]]
        OBVIOUS
      <4>2. l \in Seq(Nodes) /\ r \in Seq(Nodes)
        BY <1>1, <1>6, <3>1, <4>1
      <4>3. kids(m)[1] \in Q /\ kids(m)[2] \in Q /\ kids(m)[1] \in P /\ kids(m)[2] \in P
        BY <1>1, <1>7, <2>1, <3>1
      <4>4. (\A i \in DOMAIN l : l[i] \in P) /\ (\A i \in DOMAIN r : r[i] \in P)
        BY <4>1, <4>3
      <4>5. flat[m] = l \o r
        BY <1>5, <3>1, <4>1
      <4>6. \A i \in DOMAIN (l \o r) : (l \o r)[i] \in P
        BY <4>2, <4>4
      <4>7. QED
        BY <4>5, <4>6
    <3>2. CASE kind(m) # "expression"
      <4>1. flat[m] = <<m>>
        BY <1>5, <3>2
      <4>2. \A i \in DOMAIN <<m>> : <<m>>[i] = m
        OBVIOUS
      <4>3. QED
        BY <2>1, <4>1, <4>2
    <3>3. QED
      BY <3>1, <3>2
  <2>2. \A m \in Nodes : (\A k \in Nodes : k > m => k \in Q) => m \in Q
    BY <2>1
  <2> HIDE DEF Q
  <2>3. Nodes \subseteq Q
    BY <2>2, FromBelow
  <2>4. QED
    BY <2>3 DEF Q
<1> HIDE DEF Step, Is, step
<1>8. Operands(n) \in Seq(Nodes)
  BY <1>2, <1>6
<1>9. QED
  BY <1>2, <1>7, <1>8

-----------------------------------------------------------------------------
(* The invariant.  A call that is due is one its handler is written for:   *)
(* of a node of its kind, and with a table.                                *)
Fits(c) ==
    /\ c.do = "collect" /\ TopLevel(c.n) => c.t = Root
    /\ c.do \in {"enter_assign", "enter_visit"} => kind(c.n) = "function_def" /\ TopLevel(c.n)
    /\ c.do = "resolve" => kind(c.n) = "identifier"
    /\ c.do = "decide" => kind(c.n) = "expression"
    /\ c.do = "push_type" => kind(c.n) = "return"
    /\ c.do \in {"type_call", "check_call"} => kind(c.n) = "function_call"
    /\ c.do = "declared" => kind(c.n) = "variable_decl"
    /\ c.do \in {"defined", "check_def"} => kind(c.n) = "variable_def"
    /\ c.do = "not_duplicated" => kind(c.n) \in {"function_decl", "function_def"}
    /\ c.do = "returns" => kind(c.n) = "function_def"
    /\ c.do = "check_assignment" => kind(c.n) = "assignment"
    /\ c.do = "condition" => kind(c.n) \in {"if", "while"}

Checks == {"enter_assign", "enter_visit", "assign", "derive", "resolve", "support", "decide",
           "push_type", "type_call", "visit", "declared", "defined", "check_def",
           "not_duplicated", "returns", "check_assignment", "condition", "check_call"}

ToCollect == {c \in [do : {"collect"}, n : Nodes, t : live] : Fits(c)}
ToCheck   == {c \in [do : Checks, n : Nodes, t : live] : Fits(c)}

(* traverse_nodes is over before the first node is evaluated.              *)
AgendaOK == agenda \in Seq(ToCollect) \cup Seq(ToCheck)

(* The stacks hold no function but the top-level ones.                     *)
Stacked  == {n \in Nodes : kind(n) = "function_def" => TopLevel(n)}
StacksOK == stack_assign \in Seq(Stacked) /\ stack_visit \in Seq(Stacked)

(* The look-ups of an identifier answer with a table that has its name;    *)
(* those of a function definition always answer.                           *)
AnswersOK ==
    /\ answers \in Seq(live \cup {Null})
    /\ agenda = <<>> => answers = <<>>
    /\ agenda # <<>> =>
         /\ Len(answers) <= Len(LookUps(task))
         /\ \A i \in DOMAIN answers :
              /\ task.do = "resolve" => answers[i] = Null \/ Declared(answers[i], name(task.n))
              /\ task.do \in {"enter_assign", "enter_visit"} => answers[i] # Null

TablesOK ==
    /\ Tab!ForestInv
    /\ qa[Root] = <<GlobalName>>
    /\ symbols \in [Tables -> Seq([type : Kinds, is_function_arg : BOOLEAN])]
    /\ \A t \in Tables : Len(symbols[t]) = Len(underlying[t])
    /\ return_type \in [Tables -> Kinds]
    /\ outcome = "running" => ~crashed

(* A top-level function has a table in the global one, or will have.       *)
Entered(f) ==
    /\ home[f] \in live /\ home[f] \in Members(children[Root])
    /\ qa[home[f]] = <<GlobalName, name(f)>>

HomesOK ==
    \A f \in Members(ast.top) : kind(f) = "function_def" =>
        Call("collect", f, Root) \in Members(agenda) \/ Entered(f)

NodesOK ==
    /\ real_type \in [Nodes -> Kinds]
    /\ parent_type \in [Nodes -> Nodes \cup {0}]
    /\ types \in [Nodes -> Seq(Kinds)]
    /\ error_count \in Nat
    /\ resolved \in [Nodes -> live \cup {Null}]
    /\ assigned \subseteq Nodes
    /\ home \in [Nodes -> live \cup {Null}]
    /\ outcome \in {"running", "accepted", "rejected", "crashed", "thrown"}

TypeInv ==
    /\ ast \in Programs
    /\ TablesOK /\ AgendaOK /\ StacksOK /\ AnswersOK /\ HomesOK /\ NodesOK

LEMMA TypeInvTypes == TypeInv => TypeOK
<1> SUFFICES ASSUME TypeInv PROVE TypeOK
  OBVIOUS
<1>1. ST!TypeOK
  BY DEF TypeInv, TablesOK, Tab!ForestInv, Tab!IInv, Tab!TypeOK, ST!TypeOK, Tab!QaName, ST!QaName,
         Tab!Sym, ST!Sym
<1>2. \A i \in DOMAIN agenda : agenda[i].n \in Nodes /\ agenda[i].t \in live
  BY DEF TypeInv, AgendaOK, ToCollect, ToCheck
<1>3. \A s \in Seq(Stacked) : s \in Seq(Nodes)
  BY DEF Stacked
<1>4. QED
  BY <1>1, <1>2, <1>3 DEF TypeInv, TypeOK, TablesOK, StacksOK, AnswersOK, NodesOK

-----------------------------------------------------------------------------
(* The agenda.                                                             *)
LEMMA SeqsGrow == ASSUME NEW S, NEW T, S \subseteq T PROVE Seq(S) \subseteq Seq(T)
OBVIOUS

LEMMA CallsAre ==
    ASSUME NEW S, NEW X, NEW d, NEW t, NEW ns \in Seq(X), \A i \in DOMAIN ns : Call(d, ns[i], t) \in S
    PROVE  Calls(d, ns, t) \in Seq(S)
<1>1. DOMAIN ns = 1..Len(ns) /\ Len(ns) \in Nat
  OBVIOUS
<1> DEFINE cs == [i \in DOMAIN ns |-> Call(d, ns[i], t)]
<1>2. cs \in [1..Len(ns) -> S]
  BY <1>1
<1> HIDE DEF cs
<1>3. cs \in Seq(S)
  BY <1>1, <1>2
<1>4. QED
  BY <1>3 DEF Calls, cs

LEMMA Onward ==
    ASSUME NEW S, NEW s \in Seq(S), s # <<>>
    PROVE  /\ Head(s) \in S /\ Tail(s) \in Seq(S)
           /\ \A cs \in Seq(S) : cs \o Tail(s) \in Seq(S)
OBVIOUS

(* The statements below a node are numbered above it, are held by it and   *)
(* are not at the top level.                                               *)
LEMMA BelowIs ==
    ASSUME ast \in Programs, NEW n \in Nodes
    PROVE  /\ Below(ast.node[n]) \in Seq(Nodes) /\ Collected(n) \in Seq(Nodes)
           /\ \A l \in NodeLists(ast.node[n]) \cup {Below(ast.node[n]), Collected(n)} : \A i \in DOMAIN l :
                l[i] \in Nodes /\ l[i] > n /\ n \in Holders(l[i]) /\ ~TopLevel(l[i])
<1> DEFINE nd == ast.node[n]
           Good == {m \in Nodes : m > n /\ n \in Holders(m) /\ ~TopLevel(m)}
<1>1. ASSUME NEW l \in NodeLists(nd) PROVE l \in Seq(Good) /\ \A i \in DOMAIN l : l[i] \in Good
  <2>1. l \in Seq(Nodes) /\ Len(l) \in Nat /\ DOMAIN l = 1..Len(l)
        /\ \A i \in DOMAIN l : l[i] \in Nodes /\ l[i] > n
    BY ListsGoUp
  <2>2. \A i \in DOMAIN l : n \in Holders(l[i])
    BY DEF Holders, HoldersIn, Nodes, Members
  <2>3. \A m \in Nodes : TopLevel(m) <=> Holders(m) = {}
    BY Whole DEF IsProgram, TopLevel, Holders, Nodes
  <2>4. \A i \in DOMAIN l : l[i] \in Good
    BY <2>1, <2>2, <2>3
  <2> HIDE DEF Good
  <2>5. QED
    BY <2>1, <2>4
<1>2. /\ nd.args \in NodeLists(nd) /\ nd.body \in NodeLists(nd) /\ nd.alternate \in NodeLists(nd)
  BY DEF NodeLists
<1>3. \/ Below(nd) = nd.args \o nd.body
      \/ Below(nd) = nd.body \o nd.alternate
      \/ Below(nd) = nd.body
      \/ Below(nd) = <<>>
  BY Zenon DEF Below
<1>4. Below(nd) \in Seq(Good)
  <2>1. nd.args \in Seq(Good) /\ nd.body \in Seq(Good) /\ nd.alternate \in Seq(Good)
    BY <1>1, <1>2
  <2> HIDE DEF Good, nd
  <2>2. nd.args \o nd.body \in Seq(Good) /\ nd.body \o nd.alternate \in Seq(Good) /\ <<>> \in Seq(Good)
    BY <2>1
  <2>3. QED
    BY <1>3, <2>1, <2>2
<1>5. Collected(n) \in Seq(Good)
  <2>1. Collected(n) = <<>> \/ Collected(n) = Below(nd)
    BY DEF Collected
  <2> HIDE DEF Good, nd
  <2>2. <<>> \in Seq(Good)
    OBVIOUS
  <2>3. QED
    BY <1>4, <2>1, <2>2
<1>6. \A l \in NodeLists(nd) \cup {Below(nd), Collected(n)} : \A i \in DOMAIN l : l[i] \in Good
  <2> HIDE DEF Good, nd
  <2>1. \A s \in Seq(Good) : \A i \in DOMAIN s : s[i] \in Good
    OBVIOUS
  <2>2. QED
    BY <1>1, <1>4, <1>5, <2>1
<1>7. Below(nd) \in Seq(Nodes) /\ Collected(n) \in Seq(Nodes)
  <2>1. Good \subseteq Nodes
    OBVIOUS
  <2> HIDE DEF Good, nd
  <2>2. QED
    BY <1>4, <1>5, <2>1, SeqsGrow
<1>8. QED
  BY <1>6, <1>7

(* What the two handlers of all kinds of nodes call is written for the     *)
(* nodes they call it on.                                                  *)
LEMMA CallFits ==
    ASSUME NEW n \in Nodes, NEW t \in live, NEW d \in {"assign", "visit", "support", "derive"}
    PROVE  Call(d, n, t) \in ToCheck
BY DEF Call, ToCheck, Fits, Checks

LEMMA CallsFit ==
    ASSUME NEW ns \in Seq(Nodes), NEW t \in live, NEW d \in {"assign", "visit", "support"}
    PROVE  Calls(d, ns, t) \in Seq(ToCheck)
<1>1. \A i \in DOMAIN ns : ns[i] \in Nodes
  OBVIOUS
<1>2. \A i \in DOMAIN ns : Call(d, ns[i], t) \in ToCheck
  BY <1>1, CallFits
<1>3. QED
  BY <1>2, CallsAre

LEMMA Joined ==
    ASSUME NEW S, NEW a \in Seq(S), NEW b \in Seq(S) PROVE a \o b \in Seq(S)
OBVIOUS

LEMMA AssignCallsFit ==
    ASSUME ast \in Programs, NEW n \in Nodes, NEW t \in live
    PROVE  AssignCalls(n, t) \in Seq(ToCheck)
<1>1. \A m \in Nodes : Call("assign", m, t) \in ToCheck /\ Call("support", m, t) \in ToCheck
  BY CallFits
<1>2. \A ns \in Seq(Nodes) : Calls("assign", ns, t) \in Seq(ToCheck)
  BY CallsFit
<1>3. Below(ast.node[n]) \in Seq(Nodes) /\ ast.node[n].body \in Seq(Nodes) /\ ast.node[n].args \in Seq(Nodes)
  BY BelowIs, ListsGoUp DEF NodeLists
<1>4. kind(n) \in {"return", "unary", "print"} => kids(n)[1] \in Nodes
  BY KidsGoUp, Shapes DEF WithOperand
<1>5. CASE kind(n) = "identifier"
  <2>1. AssignCalls(n, t) = <<Call("resolve", n, t)>>
    BY <1>5, Zenon DEF AssignCalls
  <2>2. Call("resolve", n, t) \in ToCheck
    BY <1>5 DEF Call, ToCheck, Fits, Checks
  <2>3. QED
    BY <2>1, <2>2
<1>6. CASE kind(n) = "expression"
  <2>1. AssignCalls(n, t)
          = Calls("assign", Operands(n), t) \o <<Call("support", n, t), Call("decide", n, t)>>
    BY <1>6, Zenon DEF AssignCalls
  <2>2. Call("decide", n, t) \in ToCheck
    BY <1>6 DEF Call, ToCheck, Fits, Checks
  <2>3. <<Call("support", n, t), Call("decide", n, t)>> \in Seq(ToCheck)
    BY <1>1, <2>2
  <2>4. Calls("assign", Operands(n), t) \in Seq(ToCheck)
    BY <1>2, OperandsWithin
  <2>5. QED
    BY <2>1, <2>3, <2>4, Joined
<1>7. CASE kind(n) = "return"
  <2>1. AssignCalls(n, t)
          = <<Call("support", kids(n)[1], t), Call("assign", kids(n)[1], t), Call("push_type", n, t)>>
    BY <1>7, Zenon DEF AssignCalls
  <2>2. Call("push_type", n, t) \in ToCheck
    BY <1>7 DEF Call, ToCheck, Fits, Checks
  <2>3. QED
    BY <1>1, <1>4, <1>7, <2>1, <2>2
<1>8. CASE kind(n) = "unary"
  <2>1. AssignCalls(n, t) = <<Call("support", kids(n)[1], t), Call("assign", kids(n)[1], t)>>
    BY <1>8, Zenon DEF AssignCalls
  <2>2. QED
    BY <1>1, <1>4, <1>8, <2>1
<1>9. CASE kind(n) = "print"
  <2>1. AssignCalls(n, t) = <<Call("assign", kids(n)[1], t)>>
    BY <1>9, Zenon DEF AssignCalls
  <2>2. QED
    BY <1>1, <1>4, <1>9, <2>1
<1>10. CASE kind(n) = "function_def"
  <2>1. AssignCalls(n, t) = Calls("assign", ast.node[n].body \o ast.node[n].args, t)
    BY <1>10, Zenon DEF AssignCalls
  <2>2. QED
    BY <1>2, <1>3, <2>1, Joined
<1>11. CASE kind(n) \in {"if", "while", "for", "else"}
  <2>1. AssignCalls(n, t) = Calls("assign", Below(ast.node[n]), t)
    BY <1>11, Zenon DEF AssignCalls
  <2>2. QED
    BY <1>2, <1>3, <2>1
<1>12. CASE kind(n) = "function_call"
  <2>1. AssignCalls(n, t) = <<Call("type_call", n, t)>>
    BY <1>12, Zenon DEF AssignCalls
  <2>2. Call("type_call", n, t) \in ToCheck
    BY <1>12 DEF Call, ToCheck, Fits, Checks
  <2>3. QED
    BY <2>1, <2>2
<1>13. CASE kind(n) \notin {"identifier", "expression", "return", "unary", "print", "function_def",
                            "if", "while", "for", "else", "function_call"}
  <2>1. AssignCalls(n, t) = <<>>
    BY <1>13, Zenon DEF AssignCalls
  <2>2. QED
    BY <2>1
<1>14. QED
  BY <1>5, <1>6, <1>7, <1>8, <1>9, <1>10, <1>11, <1>12, <1>13

LEMMA VisitCallsFit ==
    ASSUME ast \in Programs, NEW n \in Nodes, NEW t \in live
    PROVE  VisitCalls(n, t) \in Seq(ToCheck)
<1>1. \A m \in Nodes : Call("assign", m, t) \in ToCheck /\ Call("support", m, t) \in ToCheck
  BY CallFits
<1>2. \A ns \in Seq(Nodes) : /\ Calls("assign", ns, t) \in Seq(ToCheck)
                             /\ Calls("support", ns, t) \in Seq(ToCheck)
                             /\ Calls("visit", ns, t) \in Seq(ToCheck)
  BY CallsFit
<1>3. ast.node[n].body \in Seq(Nodes) /\ ast.node[n].args \in Seq(Nodes)
  BY ListsGoUp DEF NodeLists
<1>4. kind(n) \in {"variable_def", "if", "while"} => kids(n)[1] \in Nodes
  BY KidsGoUp, Shapes DEF WithOperand
<1>5. CASE kind(n) = "variable_decl"
  <2>1. VisitCalls(n, t) = <<Call("declared", n, t)>>
    BY <1>5, Zenon DEF VisitCalls
  <2>2. Call("declared", n, t) \in ToCheck
    BY <1>5 DEF Call, ToCheck, Fits, Checks
  <2>3. QED
    BY <2>1, <2>2
<1>6. CASE kind(n) = "variable_def"
  <2>1. VisitCalls(n, t)
          = <<Call("defined", n, t), Call("assign", kids(n)[1], t), Call("support", n, t),
              Call("check_def", n, t)>>
    BY <1>6, Zenon DEF VisitCalls
  <2>2. Call("defined", n, t) \in ToCheck /\ Call("check_def", n, t) \in ToCheck
    BY <1>6 DEF Call, ToCheck, Fits, Checks
  <2>3. QED
    BY <1>1, <1>4, <1>6, <2>1, <2>2
<1>7. CASE kind(n) \in {"if", "while"}
  <2>1. VisitCalls(n, t)
          = <<Call("condition", n, t), Call("support", kids(n)[1], t)>>
              \o (IF kind(n) = "if" THEN Calls("visit", ast.node[n].body, t) ELSE <<>>)
    BY <1>7, Zenon DEF VisitCalls
  <2>2. Call("condition", n, t) \in ToCheck
    BY <1>7 DEF Call, ToCheck, Fits, Checks
  <2>3. <<Call("condition", n, t), Call("support", kids(n)[1], t)>> \in Seq(ToCheck)
    BY <1>1, <1>4, <1>7, <2>2
  <2>4. (IF kind(n) = "if" THEN Calls("visit", ast.node[n].body, t) ELSE <<>>) \in Seq(ToCheck)
    <3>1. <<>> \in Seq(ToCheck)
      OBVIOUS
    <3>2. QED
      BY <1>2, <1>3, <3>1
  <2>5. QED
    BY <2>1, <2>3, <2>4, Joined
<1>8. CASE kind(n) = "function_decl"
  <2>1. VisitCalls(n, t) = <<Call("not_duplicated", n, t)>>
    BY <1>8, Zenon DEF VisitCalls
  <2>2. Call("not_duplicated", n, t) \in ToCheck
    BY <1>8 DEF Call, ToCheck, Fits, Checks
  <2>3. QED
    BY <2>1, <2>2
<1>9. CASE kind(n) = "function_def"
  <2>1. VisitCalls(n, t)
          = <<Call("not_duplicated", n, t), Call("returns", n, t)>> \o Calls("visit", ast.node[n].body, t)
    BY <1>9, Zenon DEF VisitCalls
  <2>2. Call("not_duplicated", n, t) \in ToCheck /\ Call("returns", n, t) \in ToCheck
    BY <1>9 DEF Call, ToCheck, Fits, Checks
  <2>3. <<Call("not_duplicated", n, t), Call("returns", n, t)>> \in Seq(ToCheck)
    BY <2>2
  <2>4. QED
    BY <1>2, <1>3, <2>1, <2>3, Joined
<1>10. CASE kind(n) = "assignment"
  <2> DEFINE sides == ast.node[n].args
  <2>1. VisitCalls(n, t)
          = Calls("assign", sides, t) \o Calls("support", sides, t) \o <<Call("check_assignment", n, t)>>
    BY <1>10, Zenon DEF VisitCalls
  <2>2. Call("check_assignment", n, t) \in ToCheck
    BY <1>10 DEF Call, ToCheck, Fits, Checks
  <2>3. <<Call("check_assignment", n, t)>> \in Seq(ToCheck)
    BY <2>2
  <2>4. Calls("assign", sides, t) \o Calls("support", sides, t) \in Seq(ToCheck)
    BY <1>2, <1>3, Joined
  <2>5. QED
    BY <2>1, <2>3, <2>4, Joined
<1>11. CASE kind(n) = "function_call"
  <2>1. VisitCalls(n, t) = <<Call("check_call", n, t)>>
    BY <1>11, Zenon DEF VisitCalls
  <2>2. Call("check_call", n, t) \in ToCheck
    BY <1>11 DEF Call, ToCheck, Fits, Checks
  <2>3. QED
    BY <2>1, <2>2
<1>12. CASE kind(n) \notin {"variable_decl", "variable_def", "if", "while", "function_decl",
                            "function_def", "assignment", "function_call"}
  <2>1. VisitCalls(n, t) = <<>>
    BY <1>12, Zenon DEF VisitCalls
  <2>2. QED
    BY <2>1
<1>13. QED
  BY <1>5, <1>6, <1>7, <1>8, <1>9, <1>10, <1>11, <1>12

-----------------------------------------------------------------------------
(* Every step of the walk is a call of the public interface of the symbol  *)
(* tables, or leaves them alone.                                           *)
LEMMA TaskIs ==
    ASSUME TypeInv, Running
    PROVE  /\ task \in ToCollect \cup ToCheck /\ task.n \in Nodes /\ task.t \in live /\ Fits(task)
           /\ task.do = "collect" =>
                task \in ToCollect /\ agenda \in Seq(ToCollect) /\ Tail(agenda) \in Seq(ToCollect)
           /\ task.do # "collect" =>
                task \in ToCheck /\ agenda \in Seq(ToCheck) /\ Tail(agenda) \in Seq(ToCheck)
<1>1. agenda # <<>> /\ agenda \in Seq(ToCollect) \cup Seq(ToCheck)
  BY DEF TypeInv, AgendaOK, Running
<1>2. CASE agenda \in Seq(ToCollect)
  <2>1. task \in ToCollect /\ Tail(agenda) \in Seq(ToCollect)
    BY <1>1, <1>2, Onward DEF task
  <2>2. task.do = "collect" /\ task.n \in Nodes /\ task.t \in live /\ Fits(task)
    BY <2>1 DEF ToCollect
  <2>3. QED
    BY <1>2, <2>1, <2>2
<1>3. CASE agenda \in Seq(ToCheck)
  <2>1. task \in ToCheck /\ Tail(agenda) \in Seq(ToCheck)
    BY <1>1, <1>3, Onward DEF task
  <2>2. task.do # "collect" /\ task.n \in Nodes /\ task.t \in live /\ Fits(task)
    BY <2>1 DEF ToCheck, Checks
  <2>3. QED
    BY <1>3, <2>1, <2>2
<1>4. QED
  BY <1>1, <1>2, <1>3

Look(op, t) == [op |-> op, t |-> t]

(* The look-ups of each handler, and of those of no other.                 *)
LEMMA LookUpsAre ==
    ASSUME NEW c
    PROVE  /\ c.do = "resolve" => LookUps(c) = <<Look("get", c.t), Look("get", Root), Look("get", c.t), Look("get", Root)>>
           /\ c.do \in {"enter_assign", "enter_visit"} => LookUps(c) = <<Look("find", Root)>>
           /\ c.do = "type_call" => LookUps(c) = <<Look("find", Root), Look("find", Root)>>
           /\ c.do = "declared" => LookUps(c) = <<Look("get", c.t)>>
           /\ c.do = "defined" => LookUps(c) = <<Look("get", c.t), Look("get", Root)>>
           /\ c.do = "not_duplicated" => LookUps(c) = <<Look("find", c.t)>>
           /\ c.do = "check_call" => LookUps(c) = [i \in 1..2 |-> Look("find_unqualified", c.t)]
           /\ c.do \notin {"resolve", "enter_assign", "enter_visit", "type_call", "declared", "defined",
                           "not_duplicated", "check_call"} => LookUps(c) = <<>>
<1>1. c.do = "resolve" => LookUps(c) = <<Look("get", c.t), Look("get", Root), Look("get", c.t), Look("get", Root)>>
  BY Zenon DEF LookUps, Look
<1>2. c.do \in {"enter_assign", "enter_visit"} => LookUps(c) = <<Look("find", Root)>>
  BY Zenon DEF LookUps, Look
<1>3. c.do = "type_call" => LookUps(c) = <<Look("find", Root), Look("find", Root)>>
  BY Zenon DEF LookUps, Look
<1>4. c.do = "declared" => LookUps(c) = <<Look("get", c.t)>>
  BY Zenon DEF LookUps, Look
<1>5. c.do = "defined" => LookUps(c) = <<Look("get", c.t), Look("get", Root)>>
  BY Zenon DEF LookUps, Look
<1>6. c.do = "not_duplicated" => LookUps(c) = <<Look("find", c.t)>>
  BY Zenon DEF LookUps, Look
<1>7. c.do = "check_call" => LookUps(c) = [i \in 1..2 |-> Look("find_unqualified", c.t)]
  BY Zenon DEF LookUps, Look
<1>8. c.do \notin {"resolve", "enter_assign", "enter_visit", "type_call", "declared", "defined",
                   "not_duplicated", "check_call"} => LookUps(c) = <<>>
  BY Zenon DEF LookUps, Look
<1>9. QED
  BY <1>1, <1>2, <1>3, <1>4, <1>5, <1>6, <1>7, <1>8

(* They start from the table of the call or the global one.  A handler     *)
(* that looks a name up is written for nodes that have one.                *)
LEMMA LookUpsFit ==
    ASSUME ast \in Programs, NEW c, c.n \in Nodes, Fits(c), LookUps(c) # <<>>
    PROVE  /\ Len(LookUps(c)) \in Nat /\ DOMAIN LookUps(c) = 1..Len(LookUps(c))
           /\ \A i \in 1..Len(LookUps(c)) : LookUps(c)[i].t \in {c.t, Root}
           /\ name(c.n) \in Names
<1>1. /\ Len(LookUps(c)) \in Nat /\ DOMAIN LookUps(c) = 1..Len(LookUps(c))
      /\ \A i \in 1..Len(LookUps(c)) : LookUps(c)[i].t \in {c.t, Root}
  <2>1. CASE c.do = "check_call"
    <3>1. LookUps(c) = [i \in 1..2 |-> Look("find_unqualified", c.t)]
      BY <2>1, LookUpsAre
    <3>2. Look("find_unqualified", c.t).t = c.t
      BY DEF Look
    <3> HIDE DEF Look
    <3>3. Len(LookUps(c)) = 2
      BY <3>1
    <3>4. QED
      BY <3>1, <3>2, <3>3
  <2>2. CASE c.do # "check_call"
    <3>1. \A op, t : Look(op, t).t = t
      BY DEF Look
    <3> HIDE DEF Look
    <3>2. CASE c.do = "resolve"
      BY <3>1, <3>2, LookUpsAre
    <3>3. CASE c.do \in {"enter_assign", "enter_visit", "declared", "not_duplicated"}
      BY <3>1, <3>3, LookUpsAre
    <3>4. CASE c.do \in {"type_call", "defined"}
      BY <3>1, <3>4, LookUpsAre
    <3>5. QED
      BY <2>2, <3>2, <3>3, <3>4, LookUpsAre
  <2>3. QED
    BY <2>1, <2>2
<1>2. kind(c.n) \in NamedKinds
  BY LookUpsAre DEF Fits, NamedKinds
<1>3. QED
  BY <1>1, <1>2, Shapes

(* Tab is the module ST of Sema, with what is proved of it.                *)
LEMMA SameAnswers ==
    ASSUME NEW t, NEW n
    PROVE  /\ ST!create_qualified_name(t, n) = Tab!create_qualified_name(t, n)
           /\ ST!apply_scope(t, n) = Tab!apply_scope(t, n)
           /\ ST!Matches(t, n) = Tab!Matches(t, n)
           /\ ST!Visible(t, n) <=> Tab!Visible(t, n)
           /\ ST!StopsAt(t, n) = Tab!StopsAt(t, n)
           /\ ST!NearMatches(t, n) = Tab!NearMatches(t, n)
           /\ ST!ScanFinds(t, n) <=> Tab!ScanFinds(t, n)
           /\ ST!ScanCrashes(t, n) <=> Tab!ScanCrashes(t, n)
           /\ ST!GetAnswer(t, n) = Tab!GetAnswer(t, n)
           /\ ST!FoundTable(t, n) = Tab!FoundTable(t, n)
           /\ ST!FoundUnqualified(t, n) = Tab!FoundUnqualified(t, n)
<1>1. /\ ST!create_qualified_name(t, n) = Tab!create_qualified_name(t, n)
      /\ ST!apply_scope(t, n) = Tab!apply_scope(t, n)
      /\ ST!Matches(t, n) = Tab!Matches(t, n)
  BY Zenon DEF ST!apply_scope, Tab!apply_scope, ST!short_name, Tab!short_name,
       ST!create_qualified_name, Tab!create_qualified_name, ST!Matches, Tab!Matches
<1>2. ST!Visible(t, n) <=> Tab!Visible(t, n)
  BY Zenon DEF ST!Visible, Tab!Visible, ST!Matches, Tab!Matches, ST!Absent, Tab!Absent,
       ST!create_qualified_name, Tab!create_qualified_name
<1>3. ST!StopsAt(t, n) = Tab!StopsAt(t, n) /\ ST!NearMatches(t, n) = Tab!NearMatches(t, n)
  BY Zenon DEF ST!StopsAt, Tab!StopsAt, ST!NearMatches, Tab!NearMatches
<1>4. (ST!ScanFinds(t, n) <=> Tab!ScanFinds(t, n)) /\ (ST!ScanCrashes(t, n) <=> Tab!ScanCrashes(t, n))
  BY Zenon DEF ST!ScanFinds, Tab!ScanFinds, ST!UnqualifiedMatch, Tab!UnqualifiedMatch,
       ST!ScanCrashes, Tab!ScanCrashes, ST!create_qualified_name, Tab!create_qualified_name
<1>5. ST!GetAnswer(t, n) = Tab!GetAnswer(t, n)
  BY Zenon DEF ST!GetAnswer, Tab!GetAnswer, ST!Handles, Tab!Handles, ST!Visible, Tab!Visible,
       ST!Matches, Tab!Matches, ST!Absent, Tab!Absent, ST!create_qualified_name, Tab!create_qualified_name
<1>6. ST!FoundTable(t, n) = Tab!FoundTable(t, n)
  BY <1>3, SMT DEF ST!FoundTable, Tab!FoundTable, ST!First, Tab!First, ST!StopsAt, Tab!StopsAt
<1>7. ST!FoundUnqualified(t, n) = Tab!FoundUnqualified(t, n)
  BY SMT DEF ST!FoundUnqualified, Tab!FoundUnqualified, ST!First, Tab!First, ST!StopsAt, Tab!StopsAt,
       ST!ScanFinds, Tab!ScanFinds, ST!UnqualifiedMatch, Tab!UnqualifiedMatch,
       ST!create_qualified_name, Tab!create_qualified_name
<1>8. QED
  BY <1>1, <1>2, <1>3, <1>4, <1>5, <1>6, <1>7

LEMMA SameRoom == ST!Room <=> Tab!Room
<1>1. \A S : ST!Cardinality(S) = Tab!Cardinality(S)
  BY Zenon DEF ST!Cardinality, Tab!Cardinality
<1>2. ST!AllSymbols = Tab!AllSymbols
  BY Zenon DEF ST!AllSymbols, Tab!AllSymbols
<1>3. QED
  BY <1>1, <1>2 DEF ST!Room, Tab!Room

LEMMA SameCalls ==
    ASSUME NEW t, NEW n
    PROVE  /\ ST!add(t, n) <=> Tab!add(t, n)
           /\ ST!add_sym_table(t, n) <=> Tab!add_sym_table(t, n)
           /\ ST!get(t, n) <=> Tab!get(t, n)
           /\ ST!get_sym_table(t, n) <=> Tab!get_sym_table(t, n)
           /\ ST!get_sym_table_from_unqualified(t, n) <=> Tab!get_sym_table_from_unqualified(t, n)
<1>1. /\ \A x, y : ST!create_qualified_name(x, y) = Tab!create_qualified_name(x, y)
      /\ \A x, y : ST!Visible(x, y) <=> Tab!Visible(x, y)
      /\ \A x, y : ST!StopsAt(x, y) = Tab!StopsAt(x, y)
      /\ \A x, y : ST!NearMatches(x, y) = Tab!NearMatches(x, y)
      /\ \A x, y : (ST!ScanFinds(x, y) <=> Tab!ScanFinds(x, y)) /\ (ST!ScanCrashes(x, y) <=> Tab!ScanCrashes(x, y))
  BY SameAnswers
<1>2. ST!add(t, n) <=> Tab!add(t, n)
  BY <1>1, SameRoom, Zenon DEF ST!add, Tab!add, ST!tree, Tab!tree
<1>3. ST!add_sym_table(t, n) <=> Tab!add_sym_table(t, n)
  BY <1>1, SameRoom, Zenon DEF ST!add_sym_table, Tab!add_sym_table, ST!NewParent, Tab!NewParent
<1>4. ST!GetStops(n) = Tab!GetStops(n)
  BY <1>1 DEF ST!GetStops, Tab!GetStops
<1>5. ST!get(t, n) <=> Tab!get(t, n)
  BY <1>1, <1>4, Zenon DEF ST!get, Tab!get, ST!tree, Tab!tree
<1>6. ST!get_sym_table(t, n) <=> Tab!get_sym_table(t, n)
  BY <1>1, Zenon DEF ST!get_sym_table, Tab!get_sym_table, ST!tree, Tab!tree
<1>7. ST!get_sym_table_from_unqualified(t, n) <=> Tab!get_sym_table_from_unqualified(t, n)
  BY <1>1, Zenon DEF ST!get_sym_table_from_unqualified, Tab!get_sym_table_from_unqualified, ST!tree, Tab!tree
<1>8. QED
  BY <1>2, <1>3, <1>5, <1>6, <1>7

LEMMA CollectIsAdd ==
    ASSUME TypeInv, Collect
    PROVE  Tab!Next \/ UNCHANGED tables
<1>1. ASSUME EnterSymbol PROVE Tab!Next
  <2>1. Running /\ kind(task.n) \in NamedKinds /\ ST!add(task.t, name(task.n))
    BY <1>1, Zenon DEF EnterSymbol, At, Doing, NamedKinds
  <2>2. name(task.n) \in Names /\ task.t \in live
    BY <2>1, TaskIs, Shapes DEF TypeInv
  <2>3. Tab!add(task.t, name(task.n))
    BY <2>1, SameCalls
  <2>4. ~crashed
    BY <2>1 DEF Running, TypeInv, TablesOK
  <2>5. QED
    BY <2>2, <2>3, <2>4 DEF Tab!Next, Tab!Update
<1>2. ASSUME EnterFunction PROVE Tab!Next
  <2>1. Running /\ kind(task.n) \in NamedKinds /\ ST!add_sym_table(task.t, name(task.n))
    BY <1>2, Zenon DEF EnterFunction, At, Doing, NamedKinds
  <2>2. name(task.n) \in Names /\ task.t \in live
    BY <2>1, TaskIs, Shapes DEF TypeInv
  <2>3. Tab!add_sym_table(task.t, name(task.n))
    BY <2>1, SameCalls
  <2>4. ~crashed
    BY <2>1 DEF Running, TypeInv, TablesOK
  <2>5. QED
    BY <2>2, <2>3, <2>4 DEF Tab!Next, Tab!Update
<1>3. ASSUME EnterBlock PROVE UNCHANGED tables
  BY <1>3 DEF EnterBlock
<1>4. QED
  BY <1>1, <1>2, <1>3 DEF Collect

LEMMA AskIsLookup ==
    ASSUME TypeInv, Ask
    PROVE  Tab!Lookup /\ ~crashed
<1>1. Running /\ Len(answers) < Len(LookUps(task))
  BY DEF Ask
<1>2. Len(answers) \in Nat
  BY DEF TypeInv, AnswersOK
<1>3. PICK i : i = Len(answers) + 1
  OBVIOUS
<1>4. LookUps(task) # <<>>
  BY <1>1, <1>2
<1>5. /\ LookUps(task)[i].t \in live /\ name(task.n) \in Names
  <2>1. task.n \in Nodes /\ task.t \in live /\ Fits(task)
    BY <1>1, TaskIs
  <2>2. Root \in live
    BY DEF TypeInv, TablesOK, Tab!ForestInv, Tab!IInv, Tab!TypeOK
  <2>3. i \in 1..Len(LookUps(task))
    BY <1>1, <1>2, <1>3, <1>4, <2>1, LookUpsFit DEF TypeInv
  <2>4. QED
    BY <1>4, <2>1, <2>2, <2>3, LookUpsFit DEF TypeInv
<1>6. PICK t \in live : t = LookUps(task)[i].t
  BY <1>5
<1>7. \/ ST!get(t, name(task.n))
      \/ ST!get_sym_table(t, ST!apply_scope(t, name(task.n)))
      \/ ST!get_sym_table_from_unqualified(t, name(task.n))
  BY <1>3, <1>6 DEF Ask
<1>8. \/ Tab!get(t, name(task.n))
      \/ Tab!get_sym_table(t, Tab!apply_scope(t, name(task.n)))
      \/ Tab!get_sym_table_from_unqualified(t, name(task.n))
  BY <1>7, SameCalls, SameAnswers
<1>9. Tab!apply_scope(t, name(task.n)) \in Tab!QualifiedNames(t)
  BY <1>5 DEF Tab!QualifiedNames
<1>10. ~crashed
  BY <1>1 DEF Running, TypeInv, TablesOK
<1>11. QED
  BY <1>5, <1>8, <1>9, <1>10 DEF Tab!Lookup

(* A step that ends the walk in a message, or does nothing at all.         *)
Quiet ==
    /\ outcome' = outcome \/ (outcome = "running" /\ outcome' = "thrown")
    /\ UNCHANGED <<ast, tables, agenda, answers, stacks, typing, error_count, history, home>>

LEMMA QuietSteps == MessageThrows \/ UNCHANGED vars => Quiet
BY DEF MessageThrows, Doing, Running, Quiet, vars

LEMMA TableStep == TypeInv /\ [Next]_vars => [Tab!Next]_(Tab!vars)
<1> SUFFICES ASSUME TypeInv, [Next]_vars PROVE Tab!Next \/ UNCHANGED tables
  BY DEF tables, Tab!vars
<1>1. CASE Collect
  BY <1>1, CollectIsAdd
<1>2. CASE Ask
  BY <1>2, AskIsLookup DEF Tab!Next
<1>3. CASE Enter \/ Finish \/ MessageThrows \/ UNCHANGED vars
  BY <1>3 DEF Enter, Finish, MessageThrows, vars
<1>4. CASE Assign
  BY <1>4 DEF Assign, PopAssign, Derive, AssignLeaf, AssignNode, AssignFunctionDecl, Resolve,
              Support, Decide, PushType, TypeCall, rest
<1>5. CASE Visit
  BY <1>5 DEF Visit, PopVisit, VisitNode, Report, MessageThrows, Condition, CheckCall, rest
<1>6. QED
  BY <1>1, <1>2, <1>3, <1>4, <1>5 DEF Next

-----------------------------------------------------------------------------
(* TypeInv is an inductive invariant: it holds initially, ...              *)
LEMMA InitTypes == Init => TypeInv
<1> SUFFICES ASSUME Init PROVE TypeInv
  OBVIOUS
<1>1. ast \in Programs /\ Last \in Nat /\ Nodes = 1..Last /\ ast.top \in Seq(Nodes)
  BY Numbered DEF Init
<1>2. Root \in live /\ Null \notin Tables
  BY TableAssumption DEF Init, ST!Init
<1>3. TablesOK
  <2>1. Tab!Init
    BY DEF Init, ST!Init, Tab!Init
  <2>2. Tab!ForestInv
    BY <2>1, Tab!InitEstablishesForest, TableAssumption
  <2>3. <<>> \in Seq([type : Kinds, is_function_arg : BOOLEAN]) /\ "UNKNOWN" \in Kinds
    BY DEF Kinds
  <2>4. QED
    BY <2>1, <2>2, <2>3, TableAssumption DEF Init, Tab!Init, TablesOK
<1>4. agenda \in Seq(ToCollect)
  <2>1. \A i \in DOMAIN ast.top : ast.top[i] \in Nodes
    BY <1>1
  <2>2. \A n \in Nodes : Call("collect", n, Root) \in ToCollect
    BY <1>2 DEF Call, ToCollect, Fits
  <2>3. QED
    BY <1>1, <2>1, <2>2, CallsAre DEF Init
<1>5. StacksOK
  <2>1. \A i \in DOMAIN ast.top : ast.top[i] \in Stacked
    BY <1>1 DEF Stacked, TopLevel, Members
  <2>2. DOMAIN ast.top = 1..Len(ast.top) /\ Len(ast.top) \in Nat
    BY <1>1
  <2> HIDE DEF Stacked
  <2>3. ast.top \in Seq(Stacked)
    BY <1>1, <2>1, <2>2, SMTT(30)
  <2>4. QED
    BY <2>3 DEF Init, StacksOK
<1>6. AnswersOK
  <2>1. <<>> \in Seq(live \cup {Null}) /\ Len(<<>>) = 0 /\ DOMAIN <<>> = {}
    OBVIOUS
  <2>2. ASSUME agenda # <<>> PROVE LookUps(task) = <<>>
    <3>1. task \in ToCollect
      BY <1>4, <2>2, Onward DEF task
    <3>2. QED
      BY <3>1, LookUpsAre DEF ToCollect
  <2>3. QED
    BY <2>1, <2>2 DEF Init, AnswersOK
<1>7. HomesOK
  <2>1. ASSUME NEW f \in Members(ast.top) PROVE Call("collect", f, Root) \in Members(agenda)
    <3>1. PICK k \in DOMAIN ast.top : ast.top[k] = f
      BY DEF Members
    <3>2. agenda[k] = Call("collect", f, Root) /\ k \in DOMAIN agenda
      BY <3>1 DEF Init, Calls
    <3>3. QED
      BY <3>2 DEF Members
  <2>2. QED
    BY <2>1 DEF HomesOK
<1>8. NodesOK
  <2>1. "UNKNOWN" \in Kinds /\ <<>> \in Seq(Kinds)
    BY DEF Kinds
  <2>2. QED
    BY <2>1 DEF Init, NodesOK
<1>9. QED
  BY <1>1, <1>3, <1>4, <1>5, <1>6, <1>7, <1>8 DEF TypeInv, AgendaOK

(* The program does not change, and tables are only added.                 *)
LEMMA SameDue ==
    ASSUME ast' = ast, live \subseteq live'
    PROVE  /\ ToCheck \subseteq ToCheck' /\ ToCollect \subseteq ToCollect'
           /\ Nodes' = Nodes /\ Stacked' = Stacked
           /\ \A n : kind(n)' = kind(n) /\ name(n)' = name(n) /\ TopLevel(n)' = TopLevel(n)
           /\ \A c : LookUps(c)' = LookUps(c)
<1>1. /\ Nodes' = Nodes
      /\ \A n : kind(n)' = kind(n) /\ name(n)' = name(n) /\ TopLevel(n)' = TopLevel(n)
  BY DEF Nodes, kind, name, TopLevel
<1>2. \A c : Fits(c)' <=> Fits(c)
  BY <1>1 DEF Fits
<1>3. \A c : LookUps(c)' = LookUps(c)
  BY Zenon DEF LookUps
<1>4. ToCheck \subseteq ToCheck' /\ ToCollect \subseteq ToCollect'
  BY <1>1, <1>2 DEF ToCheck, ToCollect
<1>5. Stacked' = Stacked
  BY <1>1 DEF Stacked
<1>6. QED
  BY <1>1, <1>3, <1>4, <1>5

(* A handler begins with no look-up made.                                  *)
LEMMA LookUpsCounted == \A c : Len(LookUps(c)) \in Nat /\ (c.do = "collect" => LookUps(c) = <<>>)
<1> SUFFICES ASSUME NEW c PROVE Len(LookUps(c)) \in Nat /\ (c.do = "collect" => LookUps(c) = <<>>)
  OBVIOUS
<1>1. CASE c.do = "check_call"
  BY <1>1, LookUpsAre
<1>2. CASE c.do # "check_call"
  BY <1>2, LookUpsAre
<1>3. QED
  BY <1>1, <1>2

LEMMA Fresh ==
    ASSUME ast' = ast, live \subseteq live', answers' = <<>>
    PROVE  AnswersOK'
<1>1. <<>> \in Seq((live \cup {Null})') /\ Len(<<>>) = 0 /\ DOMAIN <<>> = {}
  OBVIOUS
<1>2. Len(LookUps(task)') \in Nat
  <2>1. LookUps(task)' = LookUps(task')
    <3>1. PICK c : c = task'
      OBVIOUS
    <3>2. LookUps(c)' = LookUps(c)
      BY SameDue
    <3>3. QED
      BY <3>1, <3>2 DEF LookUps
  <2>2. QED
    BY <2>1, LookUpsCounted
<1>3. QED
  BY <1>1, <1>2 DEF AnswersOK

LEMMA Pair == ASSUME NEW S, NEW x \in S, NEW y \in S PROVE <<x>> \o <<y>> = <<x, y>>
<1>1. PICK a, b : a = <<x>> /\ b = <<y>>
  OBVIOUS
<1>2. a \in Seq(S) /\ b \in Seq(S) /\ Len(a) = 1 /\ Len(b) = 1 /\ a[1] = x /\ b[1] = y
  BY <1>1
<1>3. a \o b \in Seq(S) /\ Len(a \o b) = 2 /\ \A i \in 1..2 : (a \o b)[i] = IF i <= 1 THEN a[i] ELSE b[i - 1]
  BY <1>2, ConcatProperties
<1>4. PICK c, d : c = a \o b /\ d = <<x, y>>
  OBVIOUS
<1>5. c \in Seq(S) /\ Len(c) = 2 /\ c[1] = x /\ c[2] = y
  BY <1>2, <1>3, <1>4
<1>6. d \in Seq(S) /\ Len(d) = 2 /\ d[1] = x /\ d[2] = y
  BY <1>4
<1>7. c = d
  BY <1>5, <1>6, SeqEqual
<1>8. QED
  BY <1>1, <1>4, <1>7

LEMMA MakeTypes == \A tok : make_type(tok) \in Kinds
BY DEF make_type, from_parse, TypeTokens, PrimitiveKinds, Kinds

(* ... of the entering of a declaration, ...                               *)
LEMMA EnteringKeeps ==
    ASSUME TypeInv, Running, task.do = "collect", Answered, live \subseteq live',
           NEW cs \in Seq(ToCollect'), agenda' = cs \o Tail(agenda),
           UNCHANGED <<ast, answers, stacks>>
    PROVE  (AgendaOK /\ StacksOK /\ AnswersOK)' /\ \A i \in DOMAIN agenda :
             agenda[i] = task \/ agenda[i] \in Members(agenda')
<1>1. /\ ToCollect \subseteq ToCollect' /\ Stacked' = Stacked
      /\ agenda # <<>> /\ agenda \in Seq(ToCollect) /\ Tail(agenda) \in Seq(ToCollect)
  BY SameDue, TaskIs DEF Running
<1>2. Tail(agenda) \in Seq(ToCollect')
  BY <1>1, SeqsGrow
<1>3. agenda' \in Seq(ToCollect')
  BY <1>2, Joined
<1>4. StacksOK'
  BY <1>1 DEF TypeInv, StacksOK, stacks
<1>5. answers = <<>>
  <2>1. Len(answers) = 0 /\ answers \in Seq(live \cup {Null})
    BY LookUpsCounted DEF Answered, TypeInv, AnswersOK
  <2>2. QED
    BY <2>1
<1>6. AnswersOK'
  BY <1>5, Fresh
<1>7. ASSUME NEW i \in DOMAIN agenda PROVE agenda[i] = task \/ agenda[i] \in Members(agenda')
  <2>1. PICK S : S = ToCollect
    OBVIOUS
  <2>2. PICK T : T = ToCollect'
    OBVIOUS
  <2>3. agenda \in Seq(S) /\ cs \in Seq(T)
    BY <1>1, <2>1, <2>2
  <2>4. CASE i = 1
    BY <1>1, <2>4 DEF task
  <2>5. CASE i # 1
    <3>1. i - 1 \in DOMAIN Tail(agenda) /\ Tail(agenda)[i - 1] = agenda[i]
      BY <2>3, <2>5
    <3>2. Len(cs) + (i - 1) \in DOMAIN (cs \o Tail(agenda))
          /\ (cs \o Tail(agenda))[Len(cs) + (i - 1)] = Tail(agenda)[i - 1]
      BY <2>3, <3>1, <1>1
    <3>3. QED
      BY <3>1, <3>2 DEF Members
  <2>6. QED
    BY <2>4, <2>5
<1>8. QED
  BY <1>3, <1>4, <1>6, <1>7 DEF AgendaOK

LEMMA HomesStay ==
    ASSUME TypeInv, Running, task.do = "collect", live \subseteq live', ast' = ast, NEW m, m = task.n,
           \A i \in DOMAIN agenda : agenda[i] = task \/ agenda[i] \in Members(agenda'),
           \A t \in live : qa'[t] = qa[t],
           Members(children[Root]) \subseteq Members(children'[Root]),
           \A n \in Nodes : n # m => home'[n] = home[n],
           kind(m) = "function_def" /\ TopLevel(m) => Entered(m)'
    PROVE  HomesOK'
<1>1. SUFFICES ASSUME NEW f \in Members(ast.top), kind(f) = "function_def"
               PROVE  Call("collect", f, Root) \in Members(agenda') \/ Entered(f)'
  BY DEF HomesOK, kind
<1>2. f \in Nodes /\ TopLevel(f)
  BY Numbered DEF TypeInv, TopLevel, Members
<1>3. CASE f = m
  BY <1>1, <1>2, <1>3
<1>4. CASE f # m
  <2>1. CASE Entered(f)
    BY <1>2, <1>4, <2>1 DEF Entered, name
  <2>2. CASE Call("collect", f, Root) \in Members(agenda)
    <3>1. PICK i \in DOMAIN agenda : agenda[i] = Call("collect", f, Root)
      BY <2>2 DEF Members
    <3>2. agenda[i] # task
      BY <1>4, <3>1 DEF Call
    <3>3. QED
      BY <3>1, <3>2
  <2>3. QED
    BY <1>1, <2>1, <2>2 DEF TypeInv, HomesOK
<1>5. QED
  BY <1>3, <1>4

LEMMA CollectTypes == TypeInv /\ Collect => TypeInv'
<1> SUFFICES ASSUME TypeInv, Collect PROVE TypeInv'
  OBVIOUS
<1>1. Tab!ForestInv /\ Tab!ForestInv'
  BY TableStep, Tab!NextKeepsForest, TableAssumption DEF TypeInv, TablesOK, Next
<1>2. /\ Tab!TypeOK /\ Tab!TypeOK' /\ Root \in live /\ Null \notin live
  BY <1>1, TableAssumption DEF Tab!ForestInv, Tab!IInv, Tab!TypeOK
<1>3. Running /\ task.do = "collect" /\ Answered /\ task.n \in Nodes /\ task.t \in live
  BY TaskIs DEF Collect, EnterSymbol, EnterFunction, EnterBlock, At, Doing
<1>m. PICK m : m = task.n
  OBVIOUS
<1>4. /\ ast' = ast /\ UNCHANGED <<answers, stacks, typing, error_count, history, outcome>>
  BY DEF Collect, EnterSymbol, EnterFunction, EnterBlock
<1>5. CASE EnterSymbol
  <2>1. /\ ST!add(task.t, name(task.n)) /\ kind(task.n) # "function_def"
        /\ home' = [home EXCEPT ![task.n] = task.t]
        /\ agenda' = <<>> \o Tail(agenda)
        /\ return_type' = return_type
    BY <1>5 DEF EnterSymbol, At, Then
  <2>2. /\ UNCHANGED <<live, qa, children, crashed>>
        /\ \E s : underlying' = [underlying EXCEPT ![task.t] = Append(@, s)]
    BY <2>1 DEF ST!add, ST!tree
  <2>3. PICK y : /\ y \in [type : Kinds, is_function_arg : BOOLEAN]
                 /\ symbols' = [symbols EXCEPT ![task.t] = Append(@, y)]
    <3> DEFINE y == [type |-> IF kind(task.n) = "function_decl" THEN "UNKNOWN"
                              ELSE make_type(ast.node[task.n].type),
                     is_function_arg |-> kind(task.n) = "function_arg"]
    <3>1. symbols' = [symbols EXCEPT ![task.t] = Append(@, y)]
      BY <1>5 DEF EnterSymbol
    <3>2. (IF kind(task.n) = "function_decl" THEN "UNKNOWN" ELSE make_type(ast.node[task.n].type)) \in Kinds
      BY MakeTypes DEF Kinds
    <3>3. (kind(task.n) = "function_arg") \in BOOLEAN
      OBVIOUS
    <3>4. y \in [type : Kinds, is_function_arg : BOOLEAN]
      BY <3>2, <3>3
    <3> HIDE DEF y
    <3>5. QED
      BY <3>1, <3>4
  <2>4. TablesOK'
    <3>1. symbols' \in [Tables -> Seq([type : Kinds, is_function_arg : BOOLEAN])]
      <4>1. PICK S : S = [type : Kinds, is_function_arg : BOOLEAN]
        OBVIOUS
      <4>2. y \in S /\ symbols \in [Tables -> Seq(S)]
        BY <2>3, <4>1 DEF TypeInv, TablesOK
      <4>3. \A t \in Tables : Append(symbols[t], y) \in Seq(S)
        BY <4>2
      <4>4. symbols' \in [Tables -> Seq(S)]
        BY <2>3, <4>2, <4>3
      <4>5. QED
        BY <4>1, <4>4
    <3>2. \A t \in Tables : Len(symbols'[t]) = Len(underlying'[t])
      <4>1. PICK s : underlying' = [underlying EXCEPT ![task.t] = Append(@, s)]
        BY <2>2
      <4>2. \A t \in Tables : symbols[t] \in Seq([type : Kinds, is_function_arg : BOOLEAN])
              /\ underlying[t] \in Seq(Tab!Sym) /\ Len(symbols[t]) = Len(underlying[t])
              /\ t \in DOMAIN underlying /\ t \in DOMAIN symbols
        BY <1>2 DEF TypeInv, TablesOK, Tab!TypeOK
      <4>3. \A t \in Tables : t # task.t => symbols'[t] = symbols[t] /\ underlying'[t] = underlying[t]
        BY <2>3, <4>1, <4>2
      <4>4. task.t \in Tables => symbols'[task.t] = Append(symbols[task.t], y)
                                 /\ underlying'[task.t] = Append(underlying[task.t], s)
        BY <2>3, <4>1, <4>2
      <4>5. task.t \in Tables => Len(Append(symbols[task.t], y)) = Len(symbols[task.t]) + 1
                                 /\ Len(Append(underlying[task.t], s)) = Len(underlying[task.t]) + 1
        BY <4>2
      <4>6. QED
        BY <4>2, <4>3, <4>4, <4>5
    <3>3. QED
      BY <1>1, <1>4, <2>1, <2>2, <3>1, <3>2 DEF TypeInv, TablesOK
  <2>5. <<>> \in Seq(ToCollect')
    OBVIOUS
  <2>6. (AgendaOK /\ StacksOK /\ AnswersOK)' /\ \A i \in DOMAIN agenda :
             agenda[i] = task \/ agenda[i] \in Members(agenda')
    BY <1>3, <1>4, <2>1, <2>2, <2>5, EnteringKeeps
  <2>7. \A n \in Nodes : n # m => home'[n] = home[n]
    BY <1>m, <2>1 DEF TypeInv, NodesOK
  <2>8. HomesOK'
    BY <1>2, <1>3, <1>4, <2>1, <2>2, <2>6, <2>7, HomesStay, <1>m
  <2>9. NodesOK'
    BY <1>3, <1>4, <2>1, <2>2, SameDue DEF TypeInv, NodesOK, typing, history
  <2>10. QED
    BY <1>4, <2>4, <2>6, <2>8, <2>9 DEF TypeInv
<1>6. CASE EnterFunction
  <2> DEFINE b == CHOOSE b \in live' : b \notin live
             c == CHOOSE c \in Tables : c \notin live
             q == Tab!create_qualified_name(task.t, name(task.n))
  <2>1. /\ Tab!add_sym_table(task.t, name(task.n)) /\ kind(task.n) = "function_def"
        /\ return_type' = [return_type EXCEPT ![b] = make_type(ast.node[task.n].type)]
        /\ home' = [home EXCEPT ![task.n] = b]
        /\ agenda' = Calls("collect", Below(ast.node[task.n]), b) \o Tail(agenda)
        /\ symbols' = symbols
    BY <1>6, SameCalls DEF EnterFunction, At, Then
  <2>2. c \in Tables \ live
    <3>1. live # Tables /\ live \subseteq Tables
      BY <1>2, <2>1 DEF Tab!add_sym_table, Tab!TypeOK
    <3>2. \E x \in Tables : x \notin live
      BY <3>1
    <3>3. QED
      BY <3>2
  <2>3. /\ live' = live \cup {c}
        /\ qa' = [qa EXCEPT ![c] = q]
        /\ children' = [children EXCEPT ![task.t] = Append(@, c)]
        /\ UNCHANGED <<underlying, crashed>>
    BY <2>1 DEF Tab!add_sym_table
  <2> HIDE DEF c, q
  <2>4. b = c
    BY <2>2, <2>3
  <2> HIDE DEF b
  <2>5. /\ \A t \in live : qa'[t] = qa[t]
        /\ qa'[c] = q
        /\ Members(children[Root]) \subseteq Members(children'[Root])
        /\ c \in Members(children'[task.t])
    <3>1. \A t \in live : children[t] \in Seq(live) /\ t \in DOMAIN children /\ t \in DOMAIN qa /\ t # c
      BY <1>2, <2>2 DEF Tab!TypeOK
    <3>2. c \in DOMAIN qa
      BY <1>2, <2>2 DEF Tab!TypeOK
    <3>3. children'[task.t] = Append(children[task.t], c)
      BY <1>3, <2>3, <3>1
    <3>4. \A s \in Seq(live) : Members(s) \subseteq Members(Append(s, c)) /\ c \in Members(Append(s, c))
      <4>1. ASSUME NEW s \in Seq(live)
            PROVE  Members(s) \subseteq Members(Append(s, c)) /\ c \in Members(Append(s, c))
        <5>1. /\ \A i \in DOMAIN s : i \in DOMAIN Append(s, c) /\ Append(s, c)[i] = s[i]
              /\ Len(s) + 1 \in DOMAIN Append(s, c) /\ Append(s, c)[Len(s) + 1] = c
          OBVIOUS
        <5>2. QED
          BY <5>1 DEF Members
      <4>2. QED
        BY <4>1
    <3>5. Root # task.t => children'[Root] = children[Root]
      BY <1>2, <2>3, <3>1
    <3>6. QED
      BY <1>2, <1>3, <2>3, <3>1, <3>2, <3>3, <3>4, <3>5
  <2>6. TablesOK'
    BY <1>1, <1>2, <1>4, <2>1, <2>2, <2>3, <2>4, <2>5, MakeTypes DEF TypeInv, TablesOK
  <2>7. Calls("collect", Below(ast.node[task.n]), b) \in Seq(ToCollect')
    <3>1. Below(ast.node[task.n]) \in Seq(Nodes)
          /\ \A i \in DOMAIN Below(ast.node[task.n]) :
               Below(ast.node[task.n])[i] \in Nodes /\ ~TopLevel(Below(ast.node[task.n])[i])
      BY <1>3, BelowIs DEF TypeInv
    <3>2. \A n \in Nodes : ~TopLevel(n) => Call("collect", n, b) \in ToCollect'
      <4>1. Nodes' = Nodes /\ \A n : TopLevel(n)' = TopLevel(n)
        BY <1>4, <2>3, SameDue
      <4>2. b \in live'
        BY <2>3, <2>4
      <4>3. QED
        BY <4>1, <4>2 DEF ToCollect, Call, Fits
    <3>3. QED
      BY <3>1, <3>2, CallsAre
  <2>8. (AgendaOK /\ StacksOK /\ AnswersOK)' /\ \A i \in DOMAIN agenda :
             agenda[i] = task \/ agenda[i] \in Members(agenda')
    BY <1>3, <1>4, <2>1, <2>3, <2>7, EnteringKeeps
  <2>9. \A n \in Nodes : n # m => home'[n] = home[n]
    BY <1>m, <2>1 DEF TypeInv, NodesOK
  <2>10. TopLevel(m) => Entered(m)'
    <3>1. ASSUME TopLevel(m) PROVE Entered(m)'
      <4>1. task.t = Root
        BY <1>3, <1>m, <3>1, TaskIs DEF Fits
      <4>2. home'[m] = c
        BY <1>3, <1>m, <2>1, <2>4 DEF TypeInv, NodesOK
      <4>3. q = <<GlobalName, name(m)>>
        <5>1. q = qa[Root] \o <<name(m)>> /\ qa[Root] = <<GlobalName>>
          BY <4>1, <1>m DEF TypeInv, TablesOK, q, Tab!create_qualified_name
        <5>2. name(m) \in Names /\ GlobalName \in Names
          BY <1>3, <1>m, <2>1, Shapes, TableAssumption DEF TypeInv, NamedKinds
        <5>3. QED
          BY <5>1, <5>2, Pair
      <4>4. QED
        BY <1>4, <2>3, <2>5, <4>1, <4>2, <4>3 DEF Entered, name
    <3>2. QED
      BY <3>1
  <2>11. HomesOK'
    BY <1>3, <1>4, <2>3, <2>5, <2>8, <2>9, <2>10, HomesStay, <1>m
  <2>12. NodesOK'
    <3>1. Nodes' = Nodes /\ live \subseteq live' /\ b \in live'
      BY <1>4, <2>3, <2>4, SameDue
    <3>2. QED
      BY <1>3, <1>4, <2>1, <3>1 DEF TypeInv, NodesOK, typing, history
  <2>13. QED
    BY <1>4, <2>6, <2>8, <2>11, <2>12 DEF TypeInv
<1>7. CASE EnterBlock
  <2>1. /\ UNCHANGED tables /\ kind(task.n) # "function_def"
        /\ home' = [home EXCEPT ![task.n] = task.t]
        /\ agenda' = Calls("collect", Collected(task.n), task.t) \o Tail(agenda)
    BY <1>7 DEF EnterBlock, Then
  <2>2. TablesOK'
    BY <1>1, <1>4, <2>1 DEF TypeInv, TablesOK, tables
  <2>3. live' = live /\ qa' = qa /\ children' = children
    BY <2>1 DEF tables
  <2>4. Calls("collect", Collected(task.n), task.t) \in Seq(ToCollect')
    <3>1. Collected(task.n) \in Seq(Nodes)
          /\ \A i \in DOMAIN Collected(task.n) :
               Collected(task.n)[i] \in Nodes /\ ~TopLevel(Collected(task.n)[i])
      BY <1>3, BelowIs DEF TypeInv
    <3>2. \A n \in Nodes : ~TopLevel(n) => Call("collect", n, task.t) \in ToCollect'
      <4>1. Nodes' = Nodes /\ \A n : TopLevel(n)' = TopLevel(n)
        BY <1>4, <2>3, SameDue
      <4>2. task.t \in live'
        BY <1>3, <2>3
      <4>3. QED
        BY <4>1, <4>2 DEF ToCollect, Call, Fits
    <3>3. QED
      BY <3>1, <3>2, CallsAre
  <2>5. (AgendaOK /\ StacksOK /\ AnswersOK)' /\ \A i \in DOMAIN agenda :
             agenda[i] = task \/ agenda[i] \in Members(agenda')
    BY <1>3, <1>4, <2>1, <2>3, <2>4, EnteringKeeps
  <2>6. \A n \in Nodes : n # m => home'[n] = home[n]
    BY <1>m, <2>1 DEF TypeInv, NodesOK
  <2>7. HomesOK'
    BY <1>2, <1>3, <1>4, <2>1, <2>3, <2>5, <2>6, HomesStay, <1>m
  <2>8. NodesOK'
    BY <1>3, <1>4, <2>1, <2>3, SameDue DEF TypeInv, NodesOK, typing, history
  <2>9. QED
    BY <1>4, <2>2, <2>5, <2>7, <2>8 DEF TypeInv
<1>8. QED
  BY <1>5, <1>6, <1>7 DEF Collect

(* ... of a handler of the checks, which leaves the tables alone and puts  *)
(* the calls it makes before those that are due, ...                       *)
LEMMA HandlerKeeps ==
    ASSUME TypeInv, Running, task.do # "collect",
           NEW cs \in Seq(ToCheck), agenda' = cs \o Tail(agenda), answers' = <<>>,
           UNCHANGED <<ast, tables, stack_visit, home>>, stack_assign' \in Seq(Stacked),
           outcome' \in {outcome, "crashed"}
    PROVE  (TablesOK /\ AgendaOK /\ StacksOK /\ AnswersOK /\ HomesOK)'
<1>1. UNCHANGED <<live, qa, parent, children, underlying, encl, crashed, symbols, return_type>>
  BY DEF tables
<1>2. ToCheck \subseteq ToCheck' /\ Stacked' = Stacked
  BY <1>1, SameDue
<1>3. TablesOK'
  <2>1. Tab!ForestInv'
    BY TableStep, Tab!NextKeepsForest, TableAssumption, <1>1
       DEF TypeInv, TablesOK, Tab!vars, tables
  <2>2. outcome = "running"
    BY DEF Running
  <2>3. QED
    BY <1>1, <2>1, <2>2 DEF TypeInv, TablesOK
<1>4. AgendaOK'
  <2>1. Tail(agenda) \in Seq(ToCheck)
    BY TaskIs
  <2>2. agenda' \in Seq(ToCheck)
    BY <2>1, Joined
  <2>3. QED
    BY <1>2, <2>2, SeqsGrow DEF AgendaOK
<1>5. StacksOK'
  BY <1>2 DEF TypeInv, StacksOK
<1>6. AnswersOK'
  BY <1>1, Fresh
<1>7. HomesOK'
  <2>1. ASSUME NEW f, Call("collect", f, Root) \in Members(agenda) PROVE FALSE
    <3>1. agenda \in Seq(ToCheck)
      BY TaskIs
    <3>2. PICK i \in DOMAIN agenda : agenda[i] = Call("collect", f, Root)
      BY <2>1 DEF Members
    <3>3. agenda[i] \in ToCheck
      BY <3>1
    <3>4. QED
      BY <3>2, <3>3 DEF ToCheck, Checks, Call
  <2>2. \A f \in Members(ast.top) : kind(f) = "function_def" => Entered(f)
    BY <2>1 DEF TypeInv, HomesOK
  <2>3. QED
    BY <1>1, <2>2 DEF HomesOK, Entered, kind, name
<1>8. QED
  BY <1>3, <1>4, <1>5, <1>6, <1>7

(* Counting.                                                               *)
LEMMA ErrorsCount ==
    ASSUME error_count \in Nat, NEW c, NEW k \in Nat, DOMAIN c \subseteq 1..k, Errors(c)
    PROVE  error_count' \in Nat
<1>1. IsFiniteSet(1..k)
  BY FS_Interval
<1>2. {i \in DOMAIN c : c[i]} \subseteq 1..k
  OBVIOUS
<1>3. Cardinality({i \in DOMAIN c : c[i]}) \in Nat
  BY <1>1, <1>2, FS_Subset, FS_CardinalityType
<1>4. QED
  BY <1>3 DEF Errors

LEMMA SubsetsCount ==
    ASSUME NEW k \in Nat, NEW S, S \subseteq 1..k
    PROVE  IsFiniteSet(S) /\ Cardinality(S) \in Nat /\ Cardinality(S) <= k
<1>1. IsFiniteSet(1..k) /\ Cardinality(1..k) = k
  BY FS_Interval
<1>2. QED
  BY <1>1, FS_Subset, FS_CardinalityType

LEMMA NodeTypes ==
    ASSUME TypeInv, NEW n \in Nodes, NEW k \in Kinds, GetsType(n, k)
    PROVE  real_type' \in [Nodes -> Kinds]
BY DEF GetsType, TypeInv, NodesOK

LEMMA FirstPlainIs ==
    ASSUME TypeInv, NEW n \in Nodes, Plain(n) # {}
    PROVE  FirstPlain(n) \in Nodes
<1>1. Plain(n) \subseteq Nat /\ DOMAIN kids(n) = 1..Len(kids(n)) /\ Len(kids(n)) \in Nat
  BY KidsGoUp DEF Plain, TypeInv
<1>2. PICK i \in Plain(n) : \A j \in Plain(n) : i <= j
  BY <1>1, LeastNatural
<1>3. PICK first \in Plain(n) : FirstPlain(n) = kids(n)[first]
  BY <1>2 DEF FirstPlain
<1>4. first \in DOMAIN kids(n)
  BY DEF Plain
<1>5. QED
  BY <1>3, <1>4, KidsGoUp DEF TypeInv

LEMMA TypeExprIs ==
    ASSUME TypeInv, NEW n \in Nodes PROVE type_expr(n, real_type) \in Kinds
BY FirstPlainIs DEF type_expr, TypeInv, NodesOK

LEMMA TypeInIs ==
    ASSUME TypeInv, NEW t \in live, NEW n
    PROVE  TypeIn(t, n) \in Kinds
<1>1. CASE ST!Matches(t, n) = {}
  BY <1>1 DEF TypeIn, Kinds
<1>2. CASE ST!Matches(t, n) # {}
  <2>1. /\ t \in Tables /\ symbols[t] \in Seq([type : Kinds, is_function_arg : BOOLEAN])
        /\ underlying[t] \in Seq(Tab!Sym) /\ Len(symbols[t]) = Len(underlying[t])
    BY <1>2 DEF TypeInv, TablesOK, Tab!ForestInv, Tab!IInv, Tab!TypeOK
  <2>2. DOMAIN underlying[t] = 1..Len(underlying[t]) /\ Len(underlying[t]) \in Nat
        /\ DOMAIN symbols[t] = DOMAIN underlying[t]
    BY <2>1
  <2>3. ST!Matches(t, n) \subseteq 0..Len(underlying[t]) /\ ST!Matches(t, n) # {}
        /\ ST!Matches(t, n) \subseteq DOMAIN underlying[t]
    BY <1>2, <2>2 DEF ST!Matches
  <2>4. \E m \in ST!Matches(t, n) : \A k \in ST!Matches(t, n) : k <= m
    <3>1. PICK m : m = Max(ST!Matches(t, n))
      OBVIOUS
    <3>2. m \in ST!Matches(t, n) /\ \A k \in ST!Matches(t, n) : m >= k
      BY <2>2, <2>3, <3>1, MaxIsGreatest
    <3>3. ST!Matches(t, n) \subseteq Nat
      BY <2>3
    <3>4. QED
      BY <3>2, <3>3
  <2>5. LastMatch(t, n) \in DOMAIN symbols[t]
    BY <2>2, <2>3, <2>4 DEF LastMatch
  <2>6. symbols[t][LastMatch(t, n)] \in [type : Kinds, is_function_arg : BOOLEAN]
    <3>1. \A S : \A s \in Seq(S) : \A i \in DOMAIN s : s[i] \in S
      OBVIOUS
    <3>2. QED
      BY <2>1, <2>5, <3>1
  <2>7. QED
    BY <1>2, <2>6 DEF TypeIn
<1>3. QED
  BY <1>1, <1>2

(* ... of the two loops of evaluate and the end of the walk, ...           *)
LEMMA NothingDue ==
    ASSUME TypeInv, agenda = <<>>
    PROVE  \A f \in Members(ast.top) : kind(f) = "function_def" => Entered(f)
BY DEF TypeInv, HomesOK, Members

LEMMA LoopKeeps ==
    ASSUME TypeInv, Idle, agenda' \in Seq(ToCheck), stack_assign' \in Seq(Stacked), stack_visit' \in Seq(Stacked),
           UNCHANGED <<ast, tables, answers, typing, error_count, history, home>>,
           outcome' \in {"running", "accepted", "rejected"}
    PROVE  TypeInv'
<1>1. UNCHANGED <<live, qa, parent, children, underlying, encl, crashed, symbols, return_type>>
  BY DEF tables
<1>2. ToCheck \subseteq ToCheck' /\ Stacked' = Stacked /\ Nodes' = Nodes
  BY <1>1, SameDue
<1>3. answers' = <<>> /\ outcome = "running"
  BY DEF Idle, TypeInv, AnswersOK
<1>4. TablesOK'
  <2>1. Tab!ForestInv'
    BY <1>1, Tab!NextKeepsForest, TableAssumption DEF TypeInv, TablesOK, Tab!vars
  <2>2. QED
    BY <1>1, <1>3, <2>1 DEF TypeInv, TablesOK
<1>5. AgendaOK'
  BY <1>2, SeqsGrow DEF AgendaOK
<1>6. AnswersOK'
  BY <1>1, <1>3, Fresh
<1>7. StacksOK'
  BY <1>2 DEF StacksOK
<1>8. HomesOK'
  BY <1>1, NothingDue DEF HomesOK, Entered, kind, name, Idle
<1>9. NodesOK'
  BY <1>1, <1>2 DEF TypeInv, NodesOK, typing, history
<1>10. QED
  BY <1>4, <1>5, <1>6, <1>7, <1>8, <1>9 DEF TypeInv

LEMMA EntryFits ==
    ASSUME TypeInv, NEW n \in Stacked, NEW d \in {"assign", "visit"}
    PROVE  Entry(d, n) \in Seq(ToCheck)
<1>1. n \in Nodes /\ (kind(n) = "function_def" => TopLevel(n))
  BY DEF Stacked
<1>2. Root \in live
  BY DEF TypeInv, TablesOK, Tab!ForestInv, Tab!IInv, Tab!TypeOK
<1>3. Entering(d) \in {"enter_assign", "enter_visit"}
  BY DEF Entering
<1>4. kind(n) = "function_def" => Call(Entering(d), n, Root) \in ToCheck
  BY <1>1, <1>2, <1>3 DEF ToCheck, Call, Fits, Checks
<1>5. Call(d, n, Root) \in ToCheck
  BY <1>1, <1>2, CallFits
<1>6. QED
  BY <1>4, <1>5 DEF Entry

LEMMA LoopTypes == TypeInv /\ (PopAssign \/ PopVisit \/ Finish) => TypeInv'
<1> SUFFICES ASSUME TypeInv, PopAssign \/ PopVisit \/ Finish PROVE TypeInv'
  OBVIOUS
<1>1. stack_assign \in Seq(Stacked) /\ stack_visit \in Seq(Stacked) /\ Root \in live
  BY DEF TypeInv, StacksOK, TablesOK, Tab!ForestInv, Tab!IInv, Tab!TypeOK
<1>2. CASE PopAssign
  <2>1. PICK n : n = stack_assign[Len(stack_assign)]
    OBVIOUS
  <2>2. n \in Stacked /\ SubSeq(stack_assign, 1, Len(stack_assign) - 1) \in Seq(Stacked)
    <3>1. PICK S : S = Stacked
      OBVIOUS
    <3>2. \A s \in Seq(S) : s # <<>> => s[Len(s)] \in S /\ SubSeq(s, 1, Len(s) - 1) \in Seq(S)
      OBVIOUS
    <3>3. QED
      BY <1>1, <1>2, <2>1, <3>1, <3>2 DEF PopAssign
  <2>3. Call("derive", n, Root) \in ToCheck
    BY <1>1, <2>2, CallFits DEF Stacked
  <2>4. Entry("assign", n) \o <<Call("derive", n, Root)>> \in Seq(ToCheck)
    <3>1. <<Call("derive", n, Root)>> \in Seq(ToCheck)
      BY <2>3
    <3>2. QED
      BY <2>2, <3>1, EntryFits, Joined
  <2>5. QED
    BY <1>1, <1>2, <2>1, <2>2, <2>4, LoopKeeps DEF PopAssign, Idle
<1>3. CASE PopVisit
  <2>1. Head(stack_visit) \in Stacked /\ Tail(stack_visit) \in Seq(Stacked)
    BY <1>1, <1>3, Onward DEF PopVisit
  <2>2. QED
    BY <1>1, <1>3, <2>1, EntryFits, LoopKeeps DEF PopVisit, Idle
<1>4. CASE Finish
  <2>1. agenda' \in Seq(ToCheck)
    BY <1>4 DEF Finish, Idle
  <2>2. QED
    BY <1>1, <1>4, <2>1, LoopKeeps DEF Finish, stacks
<1>5. QED
  BY <1>2, <1>3, <1>4

(* ... of the look-ups of functions, ...                                   *)
LEMMA EnterTypes == TypeInv /\ Enter => TypeInv'
<1> SUFFICES ASSUME TypeInv, Enter PROVE TypeInv'
  OBVIOUS
<1>1. PICK d \in {"assign", "visit"} : Doing(Entering(d)) /\ Then(<<Call(d, task.n, answers[1])>>)
  BY DEF Enter
<1>2. Running /\ task.do \in {"enter_assign", "enter_visit"} /\ Answered /\ agenda # <<>>
  BY <1>1 DEF Doing, Entering, Running
<1>3. Len(answers) = 1 /\ answers \in Seq(live \cup {Null})
  <2>1. LookUps(task) = <<Look("find", Root)>>
    BY <1>2, LookUpsAre
  <2>2. Len(LookUps(task)) = 1
    BY <2>1
  <2>3. QED
    BY <1>2, <2>2 DEF Answered, TypeInv, AnswersOK
<1>4. answers[1] \in live
  BY <1>2, <1>3 DEF TypeInv, AnswersOK
<1>5. <<Call(d, task.n, answers[1])>> \in Seq(ToCheck)
  BY <1>2, <1>4, TaskIs, CallFits
<1>6. stack_assign \in Seq(Stacked)
  BY DEF TypeInv, StacksOK
<1>7. (TablesOK /\ AgendaOK /\ StacksOK /\ AnswersOK /\ HomesOK)'
  BY <1>1, <1>2, <1>5, <1>6, HandlerKeeps DEF Enter, Then, stacks
<1>8. NodesOK'
  BY DEF Enter, TypeInv, NodesOK, typing, history, tables, Nodes
<1>9. ast' = ast
  BY DEF Enter
<1>10. QED
  BY <1>7, <1>8, <1>9 DEF TypeInv

(* ... of assign_type_to_node, ...                                         *)
NodesTyped ==
    /\ real_type' \in [Nodes -> Kinds]
    /\ parent_type' \in [Nodes -> Nodes \cup {0}]
    /\ types' \in [Nodes -> Seq(Kinds)]
    /\ error_count' \in Nat
    /\ resolved' \in [Nodes -> live \cup {Null}]
    /\ assigned' \subseteq Nodes
    /\ outcome' \in {outcome, "crashed"}

LEMMA HandlerTypes ==
    ASSUME TypeInv, Running, task.do # "collect", UNCHANGED <<ast, tables, stack_visit, home>>,
           answers' = <<>>, stack_assign' \in Seq(Stacked), NodesTyped,
           NEW cs \in Seq(ToCheck), Then(cs)
    PROVE  TypeInv'
<1>1. (TablesOK /\ AgendaOK /\ StacksOK /\ AnswersOK /\ HomesOK)'
  BY HandlerKeeps DEF Then, NodesTyped
<1>2. Nodes' = Nodes /\ live' = live
  BY DEF Nodes, tables
<1>3. NodesOK'
  BY <1>2 DEF NodesOK, NodesTyped, TypeInv
<1>4. QED
  BY <1>1, <1>3 DEF TypeInv

LEMMA NoLookUps ==
    ASSUME TypeInv, Answered, LookUps(task) = <<>> PROVE answers = <<>>
BY DEF Answered, TypeInv, AnswersOK

LEMMA NodesAre ==
    ASSUME TypeInv
    PROVE  /\ stack_assign \in Seq(Stacked) /\ ast \in Programs /\ Root \in live /\ Null \notin live
           /\ real_type \in [Nodes -> Kinds] /\ parent_type \in [Nodes -> Nodes \cup {0}]
           /\ types \in [Nodes -> Seq(Kinds)] /\ error_count \in Nat
           /\ resolved \in [Nodes -> live \cup {Null}] /\ assigned \subseteq Nodes
           /\ answers \in Seq(live \cup {Null})
BY TableAssumption
   DEF TypeInv, StacksOK, NodesOK, AnswersOK, TablesOK, Tab!ForestInv, Tab!IInv, Tab!TypeOK

LEMMA AnswerIs ==
    ASSUME TypeInv, NEW i \in 1..Len(answers)
    PROVE  answers[i] \in live \cup {Null} /\ i \in DOMAIN answers
<1>1. PICK S : S = live \cup {Null}
  OBVIOUS
<1>2. answers \in Seq(S)
  BY <1>1, NodesAre
<1>3. QED
  BY <1>1, <1>2

LEMMA DeriveTypes == TypeInv /\ Derive => TypeInv'
<1> SUFFICES ASSUME TypeInv, Derive PROVE TypeInv'
  OBVIOUS
<1>1. Running /\ Answered /\ task.do = "derive" /\ task.n \in Nodes
  BY TaskIs DEF Derive, Doing
<1>2. answers' = <<>>
  BY <1>1, NoLookUps, LookUpsAre DEF Derive
<1>3. stack_assign' \in Seq(Stacked)
  <2>1. kids(task.n) \in Seq(Nodes) /\ \A i \in DOMAIN kids(task.n) :
          kids(task.n)[i] \in Nodes /\ kind(kids(task.n)[i]) \in ValueKinds
    BY <1>1, KidsGoUp, Shapes, NodesAre
  <2>2. \A i \in DOMAIN kids(task.n) : kids(task.n)[i] \in Stacked
    BY <2>1 DEF Stacked, ValueKinds
  <2>3. kids(task.n) \in Seq(Stacked)
    <3>1. PICK s, S : s = kids(task.n) /\ S = Stacked
      OBVIOUS
    <3>2. s \in Seq(Nodes) /\ \A i \in DOMAIN s : s[i] \in S
      BY <2>1, <2>2, <3>1
    <3>3. s \in Seq(S)
      BY <3>2
    <3>4. QED
      BY <3>1, <3>3
  <2>4. QED
    BY <2>3, NodesAre, Joined DEF Derive, Pushed
<1>4. NodesTyped
  <2>1. parent_type' \in [Nodes -> Nodes \cup {0}]
    BY <1>1, NodesAre DEF Derive
  <2>2. QED
    BY <2>1, NodesAre DEF NodesTyped, Derive, history
<1>5. <<>> \in Seq(ToCheck) /\ Then(<<>>) /\ UNCHANGED <<ast, tables, stack_visit, home>>
  BY DEF Derive
<1>6. QED
  BY <1>1, <1>2, <1>3, <1>4, <1>5, HandlerTypes

LEMMA AssignLeafTypes == TypeInv /\ AssignLeaf => TypeInv'
<1> SUFFICES ASSUME TypeInv, AssignLeaf PROVE TypeInv'
  OBVIOUS
<1>1. Running /\ Answered /\ task.do = "assign" /\ task.n \in Nodes
  BY TaskIs DEF AssignLeaf, At, Doing
<1>2. answers' = <<>>
  BY <1>1, NoLookUps, LookUpsAre DEF AssignLeaf
<1>3. \E k \in Kinds : GetsType(task.n, k)
  <2>1. \A p \in Nodes : real_type[p] \in Kinds
    BY NodesAre
  <2>2. {"I32", "BOOL", "STRING", "F32"} \subseteq Kinds
    BY DEF Kinds, IntegerKinds, FloatKinds
  <2>3. parent_type[task.n] # 0 => parent_type[task.n] \in Nodes
    BY <1>1, NodesAre
  <2>4. QED
    BY <2>1, <2>2, <2>3, MakeTypes DEF AssignLeaf
<1>4. NodesTyped
  <2>1. real_type' \in [Nodes -> Kinds]
    BY <1>1, <1>3, NodeTypes
  <2>2. QED
    BY <1>1, <2>1, NodesAre DEF NodesTyped, AssignLeaf, Assigning, rest
<1>5. <<>> \in Seq(ToCheck) /\ Then(<<>>) /\ UNCHANGED <<ast, tables, stack_visit, home>>
      /\ stack_assign' \in Seq(Stacked)
  BY NodesAre DEF AssignLeaf, rest, stacks
<1>6. QED
  BY <1>1, <1>2, <1>4, <1>5, HandlerTypes

LEMMA AssignNodeTypes == TypeInv /\ (AssignNode \/ AssignFunctionDecl) => TypeInv'
<1> SUFFICES ASSUME TypeInv, AssignNode \/ AssignFunctionDecl PROVE TypeInv'
  OBVIOUS
<1>1. Running /\ Answered /\ task.do = "assign" /\ task.n \in Nodes /\ task.t \in live
  BY TaskIs DEF AssignNode, AssignFunctionDecl, At, Doing
<1>2. answers' = <<>>
  BY <1>1, NoLookUps, LookUpsAre DEF AssignNode, AssignFunctionDecl
<1>3. NodesTyped
  <2>1. real_type' \in [Nodes -> Kinds]
    <3>1. CASE AssignNode
      BY <3>1, NodesAre DEF AssignNode
    <3>2. CASE AssignFunctionDecl
      BY <1>1, <3>2, MakeTypes, NodeTypes DEF AssignFunctionDecl
    <3>3. QED
      BY <3>1, <3>2
  <2>2. QED
    BY <1>1, <2>1, NodesAre DEF NodesTyped, AssignNode, AssignFunctionDecl, Assigning, rest
<1>4. UNCHANGED <<ast, tables, stack_visit, home>> /\ stack_assign' \in Seq(Stacked)
  BY NodesAre DEF AssignNode, AssignFunctionDecl, rest, stacks
<1>5. \E cs \in Seq(ToCheck) : Then(cs)
  <2>1. AssignCalls(task.n, task.t) \in Seq(ToCheck)
    BY <1>1, NodesAre, AssignCallsFit
  <2>2. ast.node[task.n].args \in Seq(Nodes)
    BY <1>1, NodesAre, ListsGoUp DEF NodeLists
  <2>3. Calls("assign", ast.node[task.n].args, task.t) \in Seq(ToCheck)
    BY <1>1, <2>2, CallsFit
  <2>4. QED
    BY <2>1, <2>3 DEF AssignNode, AssignFunctionDecl
<1>6. QED
  BY <1>1, <1>2, <1>3, <1>4, <1>5, HandlerTypes

LEMMA ResolveTypes == TypeInv /\ Resolve => TypeInv'
<1> SUFFICES ASSUME TypeInv, Resolve PROVE TypeInv'
  OBVIOUS
<1>1. Running /\ Answered /\ task.do = "resolve" /\ task.n \in Nodes /\ task.t \in live
  BY TaskIs DEF Resolve, Doing
<1>2. Len(answers) = 4 /\ answers \in Seq(live \cup {Null})
  <2>1. LookUps(task) = <<Look("get", task.t), Look("get", Root), Look("get", task.t), Look("get", Root)>>
    BY <1>1, LookUpsAre
  <2>2. Len(LookUps(task)) = 4
    BY <2>1
  <2>3. QED
    BY <1>1, <2>2, NodesAre DEF Answered
<1>3. PICK from : from = Preferred(answers[3], answers[4])
  OBVIOUS
<1>4. from \in live \cup {Null}
  <2>1. answers[3] \in live \cup {Null} /\ answers[4] \in live \cup {Null}
    BY <1>2, AnswerIs
  <2>2. QED
    BY <1>3, <2>1 DEF Preferred
<1>5. NodesTyped
  <2>1. real_type' \in [Nodes -> Kinds]
    <3>1. PICK t : t = IF from = Null THEN Root ELSE from
      OBVIOUS
    <3>2. Root \in live
      BY DEF TypeInv, TablesOK, Tab!ForestInv, Tab!IInv, Tab!TypeOK
    <3>3. TypeIn(t, name(task.n)) \in Kinds
      BY <1>4, <3>1, <3>2, TypeInIs
    <3>4. GetsType(task.n, TypeIn(t, name(task.n)))
      BY <1>3, <3>1 DEF Resolve
    <3>5. QED
      BY <1>1, <3>3, <3>4, NodeTypes
  <2>2. resolved' \in [Nodes -> live \cup {Null}]
    BY <1>1, <1>3, <1>4, NodesAre DEF Resolve
  <2>3. error_count' \in Nat
    BY NodesAre, ErrorsCount DEF Resolve
  <2>4. QED
    BY <2>1, <2>2, <2>3, NodesAre DEF NodesTyped, Resolve, rest
<1>6. <<>> \in Seq(ToCheck) /\ Then(<<>>) /\ UNCHANGED <<ast, tables, stack_visit, home>>
      /\ stack_assign' \in Seq(Stacked) /\ answers' = <<>>
  BY NodesAre DEF Resolve, rest, stacks
<1>7. QED
  BY <1>1, <1>5, <1>6, HandlerTypes

LEMMA SupportTypes == TypeInv /\ Support => TypeInv'
<1> SUFFICES ASSUME TypeInv, Support PROVE TypeInv'
  OBVIOUS
<1>1. Running /\ Answered /\ task.do = "support" /\ task.n \in Nodes
  BY TaskIs DEF Support, Doing
<1>2. answers' = <<>>
  BY <1>1, NoLookUps, LookUpsAre DEF Support
<1>3. NodesTyped
  BY <1>1, NodesAre, SupportedTypes DEF NodesTyped, Support, rest, history
<1>4. <<>> \in Seq(ToCheck) /\ Then(<<>>) /\ UNCHANGED <<ast, tables, stack_visit, home>>
      /\ stack_assign' \in Seq(Stacked)
  BY NodesAre DEF Support, rest, stacks
<1>5. QED
  BY <1>1, <1>2, <1>3, <1>4, HandlerTypes

LEMMA DecideTypes == TypeInv /\ Decide => TypeInv'
<1> SUFFICES ASSUME TypeInv, Decide PROVE TypeInv'
  OBVIOUS
<1>1. Running /\ Answered /\ task.do = "decide" /\ task.n \in Nodes
  BY TaskIs DEF Decide, Doing
<1>2. answers' = <<>>
  BY <1>1, NoLookUps, LookUpsAre DEF Decide
<1>3. \E k \in Kinds : GetsType(task.n, k)
  <2>1. parent_type[task.n] # 0 => real_type[parent_type[task.n]] \in Kinds
    BY <1>1, NodesAre
  <2>2. DecidedTypes(task.n) \subseteq Kinds
    BY <1>1, NodesAre, FirstPlainIs DEF DecidedTypes
  <2>3. QED
    BY <2>1, <2>2 DEF Decide
<1>4. NodesTyped
  <2>1. real_type' \in [Nodes -> Kinds]
    BY <1>1, <1>3, NodeTypes
  <2>2. QED
    BY <2>1, NodesAre DEF NodesTyped, Decide, rest, history
<1>5. <<>> \in Seq(ToCheck) /\ Then(<<>>) /\ UNCHANGED <<ast, tables, stack_visit, home>>
      /\ stack_assign' \in Seq(Stacked)
  BY NodesAre DEF Decide, rest, stacks
<1>6. QED
  BY <1>1, <1>2, <1>4, <1>5, HandlerTypes

LEMMA PushTypeTypes == TypeInv /\ PushType => TypeInv'
<1> SUFFICES ASSUME TypeInv, PushType PROVE TypeInv'
  OBVIOUS
<1>1. Running /\ Answered /\ task.do = "push_type" /\ task.n \in Nodes /\ kind(task.n) = "return"
  BY TaskIs DEF PushType, Doing, Fits
<1>2. answers' = <<>>
  BY <1>1, NoLookUps, LookUpsAre DEF PushType
<1>3. types' \in [Nodes -> Seq(Kinds)]
  <2>1. kids(task.n)[1] \in Nodes
    BY <1>1, NodesAre, KidsGoUp, Shapes DEF WithOperand
  <2>2. PICK k \in Kinds : k = type_expr(kids(task.n)[1], real_type)
    BY <2>1, TypeExprIs
  <2>3. types' = [types EXCEPT ![task.n] = Append(@, k)]
    BY <2>2 DEF PushType
  <2>4. \A s \in Seq(Kinds) : Append(s, k) \in Seq(Kinds)
    OBVIOUS
  <2>5. QED
    BY <1>1, <2>3, <2>4, NodesAre
<1>4. NodesTyped
  BY <1>3, NodesAre DEF NodesTyped, PushType, rest, history
<1>5. <<>> \in Seq(ToCheck) /\ Then(<<>>) /\ UNCHANGED <<ast, tables, stack_visit, home>>
      /\ stack_assign' \in Seq(Stacked)
  BY NodesAre DEF PushType, rest, stacks
<1>6. QED
  BY <1>1, <1>2, <1>4, <1>5, HandlerTypes

LEMMA TypeCallTypes == TypeInv /\ TypeCall => TypeInv'
<1> SUFFICES ASSUME TypeInv, TypeCall PROVE TypeInv'
  OBVIOUS
<1>1. Running /\ Answered /\ task.do = "type_call" /\ task.n \in Nodes /\ task.t \in live
  BY TaskIs DEF TypeCall, Doing
<1>2. answers[2] \in live \cup {Null}
  <2>1. LookUps(task) = <<Look("find", Root), Look("find", Root)>>
    BY <1>1, LookUpsAre
  <2>2. Len(LookUps(task)) = 2
    BY <2>1
  <2>3. 2 \in 1..Len(answers)
    BY <1>1, <2>2 DEF Answered
  <2>4. QED
    BY <2>3, AnswerIs
<1>3. error_count' \in Nat
  <2>1. PICK c : c = <<children[Root] = <<>>, answers[1] = Null>>
    OBVIOUS
  <2>2. DOMAIN c \subseteq 1..2
    BY <2>1
  <2>3. Errors(c)
    BY <2>1, Zenon DEF TypeCall
  <2>4. QED
    BY <2>2, <2>3, NodesAre, ErrorsCount
<1>4. UNCHANGED <<ast, tables, stack_visit, home>> /\ stack_assign' \in Seq(Stacked) /\ answers' = <<>>
  BY NodesAre DEF TypeCall, rest, stacks
<1>5. CASE answers[2] \in {Null, Root}
  <2>1. <<>> \in Seq(ToCheck) /\ Then(<<>>)
    BY <1>5 DEF TypeCall
  <2>2. NodesTyped
    BY <1>3, <1>5, NodesAre DEF NodesTyped, TypeCall, rest, history
  <2>3. QED
    BY <1>1, <1>4, <2>1, <2>2, HandlerTypes
<1>6. CASE answers[2] \notin {Null, Root}
  <2>1. GetsType(task.n, return_type[answers[2]]) /\ Then(Calls("assign", ast.node[task.n].args, task.t))
    BY <1>6 DEF TypeCall
  <2>2. return_type[answers[2]] \in Kinds
    BY <1>2, <1>6 DEF TypeInv, TablesOK, Tab!ForestInv, Tab!IInv, Tab!TypeOK
  <2>3. real_type' \in [Nodes -> Kinds]
    BY <1>1, <2>1, <2>2, NodeTypes
  <2>4. NodesTyped
    BY <1>3, <1>6, <2>3, NodesAre DEF NodesTyped, TypeCall, rest, history
  <2>5. ast.node[task.n].args \in Seq(Nodes)
    BY <1>1, NodesAre, ListsGoUp DEF NodeLists
  <2>6. Calls("assign", ast.node[task.n].args, task.t) \in Seq(ToCheck)
    BY <1>1, <2>5, CallsFit
  <2>7. QED
    BY <1>1, <1>4, <2>1, <2>4, <2>6, HandlerTypes
<1>7. QED
  BY <1>5, <1>6

LEMMA AssignTypes == TypeInv /\ Assign => TypeInv'
BY LoopTypes, DeriveTypes, AssignLeafTypes, AssignNodeTypes, ResolveTypes, SupportTypes, DecideTypes,
   PushTypeTypes, TypeCallTypes DEF Assign

(* ... of donsus_sym and the checks, ...                                   *)
LEMMA VisitNodeTypes == TypeInv /\ VisitNode => TypeInv'
<1> SUFFICES ASSUME TypeInv, VisitNode PROVE TypeInv'
  OBVIOUS
<1>1. Running /\ Answered /\ task.do = "visit" /\ task.n \in Nodes /\ task.t \in live
  BY TaskIs DEF VisitNode, Doing
<1>2. answers' = <<>>
  BY <1>1, NoLookUps, LookUpsAre DEF VisitNode
<1>3. NodesTyped
  BY NodesAre DEF NodesTyped, VisitNode, rest, history
<1>4. VisitCalls(task.n, task.t) \in Seq(ToCheck)
  BY <1>1, NodesAre, VisitCallsFit
<1>5. Then(VisitCalls(task.n, task.t)) /\ UNCHANGED <<ast, tables, stack_visit, home>>
      /\ stack_assign' \in Seq(Stacked)
  BY NodesAre DEF VisitNode, rest, stacks
<1>6. QED
  BY <1>1, <1>2, <1>3, <1>4, <1>5, HandlerTypes

LEMMA ReturnErrorsCount ==
    ASSUME TypeInv, NEW n \in Nodes PROVE ReturnErrors(n) \in Nat
<1>1. Last \in Nat /\ Nodes = 1..Last
  BY NodesAre, Numbered
<1>2. Returning(n) \subseteq Nodes
  <2>1. \A m \in Members(ast.node[n].body) : m \in Nodes
    BY NodesAre, ListsGoUp DEF NodeLists, Members
  <2>2. \A b \in Nodes : \A m \in Members(Below(ast.node[b])) : m \in Nodes
    BY NodesAre, BelowIs DEF Members
  <2>3. QED
    BY <2>1, <2>2 DEF Returning
<1>3. Cardinality(Returning(n)) \in Nat
  BY <1>1, <1>2, SubsetsCount
<1>4. QED
  BY <1>3 DEF ReturnErrors

LEMMA ReportTypes == TypeInv /\ Report => TypeInv'
<1> SUFFICES ASSUME TypeInv, Report PROVE TypeInv'
  OBVIOUS
<1>1. Running /\ Answered /\ task.do # "collect" /\ task.n \in Nodes
  BY TaskIs DEF Report, Doing
<1>2. error_count' \in Nat
  <2>1. ASSUME NEW a, NEW b, Errors(<<a>>) \/ Errors(<<a, b>>) PROVE error_count' \in Nat
    <3>1. DOMAIN <<a>> \subseteq 1..1 /\ DOMAIN <<a, b>> \subseteq 1..2
      OBVIOUS
    <3>2. QED
      BY <2>1, <3>1, NodesAre, ErrorsCount
  <2>2. \/ error_count' = error_count + ReturnErrors(task.n)
        \/ Errors(<<Duplicated(task.t, name(task.n))>>)
        \/ Errors(<<RedefinitionIn(task.n, task.t), NegatedUnsigned(task.n)>>)
        \/ Errors(<<FlaggedDuplicate(answers[1])>>)
        \/ Errors(<<Misfits(task.n)>>)
        \/ Errors(<<~Compatible(real_type[ast.node[task.n].args[1]], real_type[ast.node[task.n].args[2]])>>)
    BY Zenon DEF Report
  <2>3. error_count + ReturnErrors(task.n) \in Nat
    BY <1>1, NodesAre, ReturnErrorsCount
  <2>4. QED
    BY <2>1, <2>2, <2>3, Zenon
<1>3. NodesTyped
  BY <1>2, NodesAre DEF NodesTyped, Report, rest, history
<1>4. <<>> \in Seq(ToCheck) /\ Then(<<>>) /\ UNCHANGED <<ast, tables, stack_visit, home>>
      /\ stack_assign' \in Seq(Stacked) /\ answers' = <<>>
  BY NodesAre DEF Report, rest, stacks
<1>5. QED
  BY <1>1, <1>3, <1>4, HandlerTypes

LEMMA ConditionTypes == TypeInv /\ Condition => TypeInv'
<1> SUFFICES ASSUME TypeInv, Condition PROVE TypeInv'
  OBVIOUS
<1>1. Running /\ Answered /\ task.do = "condition" /\ task.n \in Nodes /\ kind(task.n) \in {"if", "while"}
  BY TaskIs DEF Condition, Doing, Fits
<1>2. answers' = <<>>
  BY <1>1, NoLookUps, LookUpsAre DEF Condition
<1>3. kids(task.n)[1] \in Nodes /\ "BOOL" \in Kinds
  BY <1>1, NodesAre, KidsGoUp, Shapes DEF WithOperand, Kinds
<1>4. NodesTyped
  <2>1. real_type' \in [Nodes -> Kinds]
    BY <1>3, NodeTypes DEF Condition
  <2>2. QED
    BY <2>1, NodesAre DEF NodesTyped, Condition, rest, history
<1>5. <<>> \in Seq(ToCheck) /\ Then(<<>>) /\ UNCHANGED <<ast, tables, stack_visit, home>>
      /\ stack_assign' \in Seq(Stacked)
  BY NodesAre DEF Condition, rest, stacks
<1>6. QED
  BY <1>1, <1>2, <1>4, <1>5, HandlerTypes

LEMMA CheckCallTypes == TypeInv /\ CheckCall => TypeInv'
<1> SUFFICES ASSUME TypeInv, CheckCall PROVE TypeInv'
  OBVIOUS
<1>1. Running /\ Answered /\ task.do = "check_call" /\ task.n \in Nodes /\ outcome = "running"
  BY TaskIs DEF CheckCall, Doing, Running
<1>2. PICK args : args = ast.node[task.n].args
  OBVIOUS
<1>3. args \in Seq(Nodes) /\ Len(args) \in Nat /\ DOMAIN args = 1..Len(args)
  BY <1>1, <1>2, NodesAre, ListsGoUp DEF NodeLists
<1>4. error_count' \in Nat /\ outcome' \in {outcome, "crashed"}
  <2>1. CASE answers[2] = Null
    <3>1. Errors(<<answers[1] = Null>>) /\ outcome' = "crashed"
      BY <2>1, Zenon DEF CheckCall
    <3>2. PICK c : c = <<answers[1] = Null>>
      OBVIOUS
    <3>3. DOMAIN c \subseteq 1..1
      BY <3>2
    <3>4. QED
      BY <3>1, <3>2, <3>3, NodesAre, ErrorsCount
  <2>2. CASE answers[2] # Null
    <3> DEFINE t     == answers[2]
               known == {i \in DOMAIN args : i \in DOMAIN symbols[t]}
               wrong == {i \in known : ~Compatible(symbols[t][i].type, real_type[args[i]])}
    <3>1. /\ \E garbage \in 0..(Len(args) - Cardinality(known)) :
               error_count' = error_count + Cardinality(wrong) + garbage
                 + (IF Len(args) # Cardinality(Parameters(t)) THEN 1 ELSE 0)
          /\ outcome' \in {outcome} \cup (IF known = DOMAIN args THEN {} ELSE {"crashed"})
      BY <1>2, <2>2 DEF CheckCall
    <3>2. known \subseteq 1..Len(args) /\ wrong \subseteq 1..Len(args)
      BY <1>3
    <3> HIDE DEF known, wrong, t
    <3>3. Cardinality(known) \in Nat /\ Cardinality(wrong) \in Nat
      BY <1>3, <3>2, SubsetsCount
    <3>4. PICK x, g : x \in {0, 1} /\ g \in 0..(Len(args) - Cardinality(known)) /\
                      error_count' = error_count + Cardinality(wrong) + g + x
      BY <3>1
    <3>5. g \in Nat /\ error_count \in Nat
      BY <1>3, <3>3, <3>4, NodesAre
    <3>6. error_count' \in Nat
      BY <3>3, <3>4, <3>5
    <3>7. QED
      BY <3>1, <3>6
  <2>3. QED
    BY <2>1, <2>2
<1>5. NodesTyped
  BY <1>4, NodesAre DEF NodesTyped, CheckCall, rest, history
<1>6. <<>> \in Seq(ToCheck) /\ Then(<<>>) /\ UNCHANGED <<ast, tables, stack_visit, home>>
      /\ stack_assign' \in Seq(Stacked) /\ answers' = <<>>
  <2>1. Then(<<>>) /\ answers' = <<>>
    BY DEF CheckCall
  <2>2. UNCHANGED <<ast, tables, stack_visit, stack_assign, home>>
    BY DEF CheckCall, rest, stacks
  <2>3. QED
    BY <2>1, <2>2, NodesAre
<1>7. QED
  BY <1>1, <1>5, <1>6, HandlerTypes

LEMMA QuietTypes == TypeInv /\ Quiet => TypeInv'
<1> SUFFICES ASSUME TypeInv, Quiet PROVE TypeInv'
  OBVIOUS
<1>1. /\ UNCHANGED <<ast, agenda, answers, stack_assign, stack_visit, real_type, parent_type, types,
                     error_count, resolved, assigned, home>>
      /\ UNCHANGED <<live, qa, parent, children, underlying, encl, crashed, symbols, return_type>>
      /\ outcome' = outcome \/ outcome' = "thrown"
  BY DEF Quiet, tables, stacks, typing, history
<1>2. AnswersOK'
  <2>1. LookUps(task)' = LookUps(task) /\ task' = task /\ name(task.n)' = name(task.n)
    BY <1>1, Zenon DEF LookUps, task, name
  <2>2. \A t, n : Declared(t, n)' = Declared(t, n)
    BY <1>1 DEF Declared, ST!Matches, ST!create_qualified_name
  <2>3. QED
    BY <1>1, <2>1, <2>2 DEF TypeInv, AnswersOK
<1>3. TablesOK'
  <2>1. Tab!ForestInv'
    BY <1>1, Tab!NextKeepsForest, TableAssumption DEF TypeInv, TablesOK, Tab!vars
  <2>2. QED
    BY <1>1, <2>1 DEF TypeInv, TablesOK
<1>4. (AgendaOK /\ StacksOK)'
  <2>1. ToCheck \subseteq ToCheck' /\ ToCollect \subseteq ToCollect' /\ Stacked' = Stacked
    BY <1>1, SameDue
  <2>2. QED
    BY <1>1, <2>1, SeqsGrow DEF TypeInv, AgendaOK, StacksOK
<1>5. HomesOK'
  BY <1>1 DEF TypeInv, HomesOK, Entered, kind, name
<1>6. NodesOK'
  BY <1>1 DEF TypeInv, NodesOK, Nodes
<1>7. QED
  BY <1>1, <1>2, <1>3, <1>4, <1>5, <1>6 DEF TypeInv

LEMMA VisitTypes == TypeInv /\ Visit => TypeInv'
BY LoopTypes, VisitNodeTypes, ReportTypes, ConditionTypes, CheckCallTypes, QuietTypes, QuietSteps DEF Visit

(* ... and of a look-up, whatever it does to the links.                    *)
LEMMA FunctionFound ==
    ASSUME TypeInv, NEW f \in Members(ast.top), kind(f) = "function_def", Entered(f)
    PROVE  ST!FoundTable(Root, ST!apply_scope(Root, name(f))) # Null
<1>1. Tab!ForestInv /\ Root \in live /\ Null \notin live /\ qa[Root] = <<GlobalName>>
  BY NodesAre DEF TypeInv, TablesOK
<1>2. f \in Nodes /\ name(f) \in Names
  BY NodesAre, Numbered, Shapes DEF Members, NamedKinds
<1>3. PICK q : q = Tab!apply_scope(Root, name(f))
  OBVIOUS
<1>4. \/ q = qa[Root]
      \/ q = <<GlobalName, name(f)>>
  <2>1. \/ q = qa[Root]
        \/ q = <<GlobalName>> \o <<name(f)>>
    BY <1>1, <1>3 DEF Tab!apply_scope, Tab!create_qualified_name
  <2>2. QED
    BY <1>2, <2>1, Pair, TableAssumption
<1>5. CASE q = qa[Root]
  <2>1. ST!apply_scope(Root, name(f)) = q /\ ST!FoundTable(Root, q) = Tab!FoundTable(Root, q)
    BY <1>3, SameAnswers
  <2>2. Tab!FoundTable(Root, q) = Root
    BY <1>1, <1>5, Tab!FoundTableAround, TableAssumption
  <2>3. QED
    BY <1>1, <2>1, <2>2
<1>6. CASE q = <<GlobalName, name(f)>>
  <2>1. Tab!NearMatches(Root, q) # {}
    BY <1>6 DEF Entered, Members, Tab!NearMatches
  <2>2. QED
    BY <1>1, <1>3, <2>1, Tab!FoundTableAround, TableAssumption, SameAnswers
<1>7. QED
  BY <1>4, <1>5, <1>6

LEMMA AskTypes == TypeInv /\ Ask => TypeInv'
<1> SUFFICES ASSUME TypeInv, Ask PROVE TypeInv'
  OBVIOUS
<1> DEFINE a == LookUps(task)[Len(answers) + 1]
           q == ST!apply_scope(a.t, name(task.n))
<1>1. /\ Running /\ Len(answers) < Len(LookUps(task)) /\ agenda # <<>> /\ outcome = "running"
      /\ task.n \in Nodes /\ task.t \in live /\ Fits(task)
      /\ UNCHANGED <<ast, symbols, return_type, agenda, stacks, typing, error_count, history, home>>
      /\ outcome' = IF crashed' THEN "crashed" ELSE outcome
  BY TaskIs DEF Ask, Running
<1>2. Tab!ForestInv /\ Tab!ForestInv' /\ UNCHANGED <<live, qa, children, underlying, encl>>
  <2>1. Tab!Lookup /\ Tab!Next
    BY AskIsLookup DEF Tab!Next
  <2>2. QED
    BY <2>1, Tab!LookupMoves, Tab!NextKeepsForest, TableAssumption DEF TypeInv, TablesOK
<1>3. Len(answers) \in Nat /\ answers \in Seq(live \cup {Null})
  BY NodesAre
<1>4. LookUps(task) # <<>>
  BY <1>1, <1>3
<1>5. a.t \in live /\ name(task.n) \in Names
  <2>1. Len(answers) + 1 \in 1..Len(LookUps(task))
    BY <1>1, <1>3, LookUpsCounted
  <2>2. QED
    BY <1>1, <1>4, <2>1, LookUpsFit, NodesAre
<1>6. \/ answers' = answers /\ crashed'
      \/ \E x \in live \cup {Null} :
           /\ answers' = Append(answers, x)
           /\ task.do = "resolve" => x = Null \/ Declared(x, name(task.n))
           /\ task.do \in {"enter_assign", "enter_visit"} => x # Null
  <2>1. \/ a.op = "get" /\ answers' = Append(answers, ST!GetAnswer(a.t, name(task.n)))
        \/ a.op = "find" /\ answers' = Append(answers, ST!FoundTable(a.t, q))
        \/ /\ a.op = "find_unqualified"
           /\ \/ answers' = answers /\ crashed'
              \/ answers' = Append(answers, ST!FoundUnqualified(a.t, name(task.n)))
    BY DEF Ask
  <2>2. CASE a.op = "get" /\ answers' = Append(answers, ST!GetAnswer(a.t, name(task.n)))
    <3>1. PICK x : x = Tab!GetAnswer(a.t, name(task.n))
      OBVIOUS
    <3>2. x \in {a.t} \cup encl[a.t] \cup {Null} /\ (x # Null => x \in Tab!Seen(name(task.n)))
      BY <1>2, <1>5, <3>1, Tab!AnswersAround, TableAssumption
    <3>3. x # Null => Declared(x, name(task.n))
      BY <3>2, SameAnswers DEF Tab!Seen, Tab!Visible, Declared
    <3>4. encl[a.t] \subseteq live
      BY <1>2, <1>5 DEF Tab!ForestInv, Tab!IInv, Tab!TypeOK
    <3>5. task.do \notin {"enter_assign", "enter_visit"}
      <4>1. ASSUME task.do \in {"enter_assign", "enter_visit"} PROVE FALSE
        <5>1. LookUps(task) = <<Look("find", Root)>>
          BY <4>1, LookUpsAre
        <5>2. a = Look("find", Root)
          BY <1>1, <1>3, <5>1
        <5>3. QED
          BY <2>2, <5>2 DEF Look
      <4>2. QED
        BY <4>1
    <3>6. QED
      BY <1>5, <2>2, <3>1, <3>2, <3>3, <3>4, <3>5, SameAnswers
  <2>3. CASE a.op = "find" /\ answers' = Append(answers, ST!FoundTable(a.t, q))
    <3>1. ST!FoundTable(a.t, q) \in live \cup {Null}
      BY <1>2, <1>5, Tab!FoundTableAround, TableAssumption, SameAnswers
    <3>2. task.do # "resolve"
      <4>1. ASSUME task.do = "resolve" PROVE FALSE
        <5>1. LookUps(task) = <<Look("get", task.t), Look("get", Root), Look("get", task.t), Look("get", Root)>>
          BY <4>1, LookUpsAre
        <5>2. \A i \in 1..4 : LookUps(task)[i].op = "get"
          <6>1. \A t : Look("get", t).op = "get"
            BY DEF Look
          <6> HIDE DEF Look
          <6>2. QED
            BY <5>1, <6>1
        <5>3. Len(LookUps(task)) = 4
          BY <5>1
        <5>4. Len(answers) + 1 \in 1..4
          BY <1>1, <1>3, <5>3
        <5>5. QED
          BY <2>3, <5>2, <5>4
      <4>2. QED
        BY <4>1
    <3>3. ASSUME task.do \in {"enter_assign", "enter_visit"} PROVE ST!FoundTable(a.t, q) # Null
      <4>1. LookUps(task) = <<Look("find", Root)>>
        BY <3>3, LookUpsAre
      <4>2. a = Look("find", Root)
        BY <1>1, <1>3, <4>1
      <4>3. a.t = Root
        BY <4>2 DEF Look
      <4>4. kind(task.n) = "function_def" /\ task.n \in Members(ast.top)
        BY <1>1, <3>3 DEF Fits, TopLevel
      <4>5. Entered(task.n)
        <5>1. ASSUME NEW f, Call("collect", f, Root) \in Members(agenda) PROVE FALSE
          <6>1. agenda \in Seq(ToCheck)
            BY <1>1, <3>3, TaskIs
          <6>2. PICK i \in DOMAIN agenda : agenda[i] = Call("collect", f, Root)
            BY <5>1 DEF Members
          <6>3. agenda[i] \in ToCheck
            BY <6>1
          <6>4. QED
            BY <6>2, <6>3 DEF ToCheck, Checks, Call
        <5>2. QED
          BY <4>4, <5>1 DEF TypeInv, HomesOK
      <4>6. QED
        BY <4>3, <4>4, <4>5, FunctionFound
    <3>4. QED
      BY <2>3, <3>1, <3>2, <3>3
  <2>4. CASE a.op = "find_unqualified" /\ answers' = Append(answers, ST!FoundUnqualified(a.t, name(task.n)))
    <3>1. ST!FoundUnqualified(a.t, name(task.n)) \in live \cup {Null}
      BY <1>2, <1>5, Tab!FoundUnqualifiedLives, TableAssumption, SameAnswers
    <3>2. task.do \notin {"resolve", "enter_assign", "enter_visit"}
      <4>1. ASSUME task.do \in {"resolve", "enter_assign", "enter_visit"} PROVE FALSE
        <5>1. \/ LookUps(task) = <<Look("get", task.t), Look("get", Root), Look("get", task.t), Look("get", Root)>>
              \/ LookUps(task) = <<Look("find", Root)>>
          BY <4>1, LookUpsAre
        <5>2. (\A t : Look("get", t).op = "get") /\ \A t : Look("find", t).op = "find"
          BY DEF Look
        <5> HIDE DEF Look
        <5>3. Len(answers) + 1 \in 1..Len(LookUps(task))
          BY <1>1, <1>3, LookUpsCounted
        <5>4. a.op \in {"get", "find"}
          BY <5>1, <5>2, <5>3
        <5>5. QED
          BY <2>4, <5>4
      <4>2. QED
        BY <4>1
    <3>3. QED
      BY <2>4, <3>1, <3>2
  <2>5. QED
    BY <2>1, <2>2, <2>3, <2>4
<1> HIDE DEF a, q
<1>7. AnswersOK'
  <2>1. LookUps(task)' = LookUps(task) /\ task' = task
    BY <1>1, Zenon DEF LookUps, task
  <2>2. \A t, n : Declared(t, n)' = Declared(t, n)
    BY <1>2 DEF Declared, ST!Matches, ST!create_qualified_name
  <2>3. name(task.n)' = name(task.n)
    BY <1>1 DEF name, task
  <2>4. \A i \in DOMAIN answers :
              /\ task.do = "resolve" => answers[i] = Null \/ Declared(answers[i], name(task.n))
              /\ task.do \in {"enter_assign", "enter_visit"} => answers[i] # Null
    BY <1>1 DEF TypeInv, AnswersOK
  <2>5. CASE answers' = answers
    BY <1>1, <1>2, <1>3, <2>1, <2>2, <2>3, <2>4, <2>5, LookUpsCounted DEF AnswersOK
  <2>6. ASSUME NEW x \in live \cup {Null}, answers' = Append(answers, x),
               task.do = "resolve" => x = Null \/ Declared(x, name(task.n)),
               task.do \in {"enter_assign", "enter_visit"} => x # Null
        PROVE  AnswersOK'
    <3>1. PICK S : S = live \cup {Null}
      OBVIOUS
    <3>2. answers \in Seq(S) /\ x \in S
      BY <1>3, <2>6, <3>1
    <3>3. /\ answers' \in Seq(S) /\ Len(answers') = Len(answers) + 1
          /\ \A i \in DOMAIN answers' : (i \in DOMAIN answers /\ answers'[i] = answers[i]) \/ answers'[i] = x
      BY <2>6, <3>2
    <3>4. Len(answers') <= Len(LookUps(task))
      BY <1>1, <1>3, <3>3, LookUpsCounted
    <3>5. \A i \in DOMAIN answers' :
              /\ task.do = "resolve" => answers'[i] = Null \/ Declared(answers'[i], name(task.n))
              /\ task.do \in {"enter_assign", "enter_visit"} => answers'[i] # Null
      BY <2>4, <2>6, <3>3
    <3>6. answers' \in Seq((live \cup {Null})')
      BY <1>2, <3>1, <3>3
    <3>7. QED
      BY <1>1, <2>1, <2>2, <2>3, <3>4, <3>5, <3>6 DEF AnswersOK
  <2>7. QED
    BY <1>6, <2>5, <2>6
<1>8. TablesOK'
  BY <1>1, <1>2 DEF TypeInv, TablesOK
<1>9. (AgendaOK /\ StacksOK)'
  <2>1. ToCheck \subseteq ToCheck' /\ ToCollect \subseteq ToCollect' /\ Stacked' = Stacked
    BY <1>1, <1>2, SameDue
  <2>2. QED
    BY <1>1, <2>1, SeqsGrow DEF TypeInv, AgendaOK, StacksOK, stacks
<1>10. HomesOK'
  BY <1>1, <1>2 DEF TypeInv, HomesOK, Entered, kind, name
<1>11. NodesOK'
  BY <1>1, <1>2 DEF TypeInv, NodesOK, typing, history, Nodes
<1>12. QED
  BY <1>1, <1>7, <1>8, <1>9, <1>10, <1>11 DEF TypeInv

LEMMA NextTypes == TypeInv /\ [Next]_vars => TypeInv'
BY CollectTypes, AskTypes, EnterTypes, AssignTypes, VisitTypes, LoopTypes, QuietTypes, QuietSteps DEF Next

-----------------------------------------------------------------------------
(* The invariant holds throughout the walk: a handler is only called on a  *)
(* node it is written for, with a table, whatever the look-ups before it   *)
(* answered.                                                               *)
THEOREM SemaInvariance == Spec => []TypeInv
BY InitTypes, NextTypes, PTL DEF Spec

(* Nodes, tables, types and counters stay what the handlers of sema.cc     *)
(* take them for, of any program and however many tables it opens.         *)
THEOREM SemaTypeCorrect == Spec => []TypeOK
BY SemaInvariance, TypeInvTypes, PTL

(* Whatever program it walks, the analysis uses the tables only through    *)
(* their operations (donsus_symtable), in an order they allow: a behaviour *)
(* of the walk is one of the tables.                                       *)
THEOREM WalkUsesTables == Spec => Tab!Spec
<1>1. Init => Tab!Init
  BY DEF Init, ST!Init, Tab!Init
<1>2. QED
  BY <1>1, SemaInvariance, TableStep, PTL DEF Spec, Tab!Spec

(* ... so that what is proved of every use of the tables is proved of this *)
(* one: the loops of its look-ups end, their answers are declared names, a *)
(* link leads out or is cut, and what they answer is what scopes promise.  *)
THEOREM WalkKeepsTables ==
    Spec => /\ []Tab!LoopsEnd
            /\ []Tab!AnswersAreDeclared
            /\ []Tab!LinksLeadOut
            /\ Tab!ImplementsScopes
BY WalkUsesTables, Tab!LoopsAlwaysEnd, Tab!AnswersAlwaysDeclared, Tab!LinksAlwaysLeadOut,
   Tab!Refinement, TableAssumption, PTL

-----------------------------------------------------------------------------
(* The calls that are due, as a set: a handler takes the first one off and *)
(* adds those it makes.                                                    *)
Due == Members(agenda)

LEMMA DueAfter ==
    ASSUME NEW S, agenda \in Seq(S), agenda # <<>>, NEW cs \in Seq(S), agenda' = cs \o Tail(agenda)
    PROVE  /\ task \in Due
           /\ Due \subseteq {task} \cup Due'
           /\ Members(cs) \subseteq Due'
           /\ Due' \subseteq Members(cs) \cup Due
           /\ agenda' \in Seq(S)
<1>1. PICK rest_ : rest_ = Tail(agenda)
  OBVIOUS
<1>2. /\ rest_ \in Seq(S) /\ Len(agenda) \in Nat /\ DOMAIN agenda = 1..Len(agenda)
      /\ Len(agenda) > 0 /\ Len(rest_) = Len(agenda) - 1 /\ DOMAIN rest_ = 1..Len(rest_)
      /\ \A i \in 1..Len(rest_) : rest_[i] = agenda[i + 1]
      /\ task = agenda[1]
  BY <1>1 DEF task
<1>3. /\ Len(cs) \in Nat /\ DOMAIN cs = 1..Len(cs) /\ DOMAIN agenda' = 1..(Len(cs) + Len(rest_))
      /\ \A i \in 1..Len(cs) : agenda'[i] = cs[i]
      /\ \A i \in 1..Len(rest_) : agenda'[Len(cs) + i] = rest_[i]
      /\ \A i \in DOMAIN agenda' : i \in 1..Len(cs) \/ (i - Len(cs) \in 1..Len(rest_) /\ agenda'[i] = rest_[i - Len(cs)])
      /\ agenda' \in Seq(S)
  BY <1>1, <1>2
<1>4. task \in Due
  <2>1. 1 \in DOMAIN agenda
    BY <1>2
  <2>2. QED
    BY <1>2, <2>1 DEF Due, Members
<1>5. ASSUME NEW c \in Due, c # task PROVE c \in Due'
  <2>1. PICK i \in DOMAIN agenda : c = agenda[i]
    BY DEF Due, Members
  <2>2. i # 1 /\ i - 1 \in 1..Len(rest_) /\ rest_[i - 1] = c
    BY <1>2, <1>5, <2>1
  <2>3. agenda'[Len(cs) + (i - 1)] = c /\ Len(cs) + (i - 1) \in DOMAIN agenda'
    BY <1>2, <1>3, <2>2
  <2>4. QED
    BY <2>3 DEF Due, Members
<1>6. Members(cs) \subseteq Due'
  <2>1. ASSUME NEW i \in DOMAIN cs PROVE cs[i] \in Due'
    <3>1. i \in DOMAIN agenda' /\ agenda'[i] = cs[i]
      BY <1>2, <1>3
    <3>2. QED
      BY <3>1 DEF Due, Members
  <2>2. QED
    BY <2>1 DEF Members
<1>7. ASSUME NEW c \in Due' PROVE c \in Members(cs) \cup Due
  <2>1. PICK i \in DOMAIN agenda' : c = agenda'[i]
    BY DEF Due, Members
  <2>2. CASE i \in 1..Len(cs)
    BY <1>3, <2>1, <2>2 DEF Members
  <2>3. CASE i - Len(cs) \in 1..Len(rest_) /\ agenda'[i] = rest_[i - Len(cs)]
    <3>1. (i - Len(cs)) + 1 \in DOMAIN agenda /\ agenda[(i - Len(cs)) + 1] = c
      BY <1>2, <2>1, <2>3
    <3>2. QED
      BY <3>1 DEF Due, Members
  <2>4. QED
    BY <1>3, <2>2, <2>3
<1>8. QED
  BY <1>3, <1>4, <1>5, <1>6, <1>7

LEMMA MembersIn == ASSUME NEW S, NEW s \in Seq(S) PROVE Members(s) \subseteq S
BY DEF Members

LEMMA CallMembers ==
    ASSUME NEW d, NEW ns, NEW t
    PROVE  Members(Calls(d, ns, t)) = {Call(d, n, t) : n \in Members(ns)}
BY DEF Members, Calls

LEMMA JoinedMembers ==
    ASSUME NEW S, NEW a \in Seq(S), NEW b \in Seq(S)
    PROVE  Members(a \o b) = Members(a) \cup Members(b)
<1>1. /\ Len(a) \in Nat /\ Len(b) \in Nat /\ DOMAIN a = 1..Len(a) /\ DOMAIN b = 1..Len(b)
      /\ DOMAIN (a \o b) = 1..(Len(a) + Len(b))
      /\ \A i \in 1..Len(a) : (a \o b)[i] = a[i]
      /\ \A i \in 1..Len(b) : (a \o b)[Len(a) + i] = b[i]
      /\ \A i \in DOMAIN (a \o b) : i \in 1..Len(a) \/ (i - Len(a) \in 1..Len(b) /\ (a \o b)[i] = b[i - Len(a)])
  OBVIOUS
<1>2. ASSUME NEW i \in DOMAIN (a \o b) PROVE (a \o b)[i] \in Members(a) \cup Members(b)
  BY <1>1 DEF Members
<1>3. ASSUME NEW i \in DOMAIN a PROVE \E j \in DOMAIN (a \o b) : (a \o b)[j] = a[i]
  BY <1>1
<1>4. ASSUME NEW i \in DOMAIN b PROVE \E j \in DOMAIN (a \o b) : (a \o b)[j] = b[i]
  <2>1. Len(a) + i \in DOMAIN (a \o b) /\ (a \o b)[Len(a) + i] = b[i]
    BY <1>1
  <2>2. QED
    BY <2>1
<1>5. Members(a \o b) \subseteq Members(a) \cup Members(b)
  BY <1>2 DEF Members
<1>6. Members(a) \cup Members(b) \subseteq Members(a \o b)
  BY <1>3, <1>4 DEF Members
<1>7. QED
  BY <1>5, <1>6

(* Nothing is collected while checks are due.                              *)
LEMMA NoneCollected ==
    ASSUME TypeInv, Running, task.do # "collect"
    PROVE  \A c \in Due : c \in ToCheck /\ c.do # "collect"
<1>1. agenda \in Seq(ToCheck)
  BY TaskIs
<1>2. QED
  BY <1>1, MembersIn DEF Due, ToCheck, Checks

(* Errors are counted, never forgotten.                                    *)
LEMMA ErrorsGrow ==
    ASSUME error_count \in Nat, NEW c, NEW k \in Nat, DOMAIN c \subseteq 1..k, Errors(c)
    PROVE  /\ error_count' \in Nat /\ error_count' >= error_count
           /\ \A i \in DOMAIN c : c[i] => error_count' > error_count
<1> DEFINE wrong == {i \in DOMAIN c : c[i]}
<1>1. wrong \subseteq 1..k
  OBVIOUS
<1>2. IsFiniteSet(wrong) /\ Cardinality(wrong) \in Nat
  BY <1>1, SubsetsCount
<1>3. wrong # {} => Cardinality(wrong) # 0
  BY <1>2, FS_EmptySet
<1>4. error_count' = error_count + Cardinality(wrong)
  BY DEF Errors
<1>5. QED
  BY <1>2, <1>3, <1>4

LEMMA ErrorsStay == TypeInv /\ [Next]_vars => error_count' \in Nat /\ error_count' >= error_count
<1> SUFFICES ASSUME TypeInv, [Next]_vars PROVE error_count' >= error_count
  BY NextTypes DEF TypeInv, NodesOK
<1>1. error_count \in Nat
  BY NodesAre
<1>2. ASSUME NEW a, NEW b, Errors(<<a>>) \/ Errors(<<a, b>>) PROVE error_count' >= error_count
  <2>1. DOMAIN <<a>> \subseteq 1..1 /\ DOMAIN <<a, b>> \subseteq 1..2
    OBVIOUS
  <2>2. QED
    BY <1>1, <1>2, <2>1, ErrorsGrow
<1>3. CASE Support
  <2>1. task.n \in Nodes
    BY <1>3, TaskIs DEF Support, Doing
  <2>2. error_count' = error_count + SupportErrors(task.n) /\ SupportErrors(task.n) \in Nat
    BY <1>3, <2>1, NodesAre, SupportedTypes DEF Support
  <2>3. QED
    BY <1>1, <2>2
<1>4. CASE Report
  <2>1. task.n \in Nodes
    BY <1>4, TaskIs DEF Report, Doing
  <2>2. \/ error_count' = error_count + ReturnErrors(task.n)
        \/ Errors(<<Duplicated(task.t, name(task.n))>>)
        \/ Errors(<<RedefinitionIn(task.n, task.t), NegatedUnsigned(task.n)>>)
        \/ Errors(<<FlaggedDuplicate(answers[1])>>)
        \/ Errors(<<Misfits(task.n)>>)
        \/ Errors(<<~Compatible(real_type[ast.node[task.n].args[1]], real_type[ast.node[task.n].args[2]])>>)
    BY <1>4, Zenon DEF Report
  <2>3. error_count + ReturnErrors(task.n) >= error_count
    BY <1>1, <2>1, ReturnErrorsCount
  <2>4. error_count' = error_count + ReturnErrors(task.n) => error_count' >= error_count
    BY <2>3
  <2>5. QED
    BY <1>2, <2>2, <2>4, Zenon
<1>5. CASE CheckCall
  <2>1. CASE answers[2] = Null
    <3>1. Errors(<<answers[1] = Null>>)
      BY <1>5, <2>1, Zenon DEF CheckCall
    <3>2. QED
      BY <1>2, <3>1
  <2>2. CASE answers[2] # Null
    <3>1. PICK args : args = ast.node[task.n].args
      OBVIOUS
    <3>2. Len(args) \in Nat /\ DOMAIN args = 1..Len(args)
      BY <1>5, <3>1, NodesAre, TaskIs, ListsGoUp DEF NodeLists, CheckCall, Doing
    <3> DEFINE t     == answers[2]
               known == {i \in DOMAIN args : i \in DOMAIN symbols[t]}
               wrong == {i \in known : ~Compatible(symbols[t][i].type, real_type[args[i]])}
    <3>3. \E garbage \in 0..(Len(args) - Cardinality(known)) :
             error_count' = error_count + Cardinality(wrong) + garbage
               + (IF Len(args) # Cardinality(Parameters(t)) THEN 1 ELSE 0)
      BY <1>5, <2>2, <3>1 DEF CheckCall
    <3>4. known \subseteq 1..Len(args) /\ wrong \subseteq 1..Len(args)
      BY <3>2
    <3> HIDE DEF known, wrong, t
    <3>5. Cardinality(known) \in Nat /\ Cardinality(wrong) \in Nat
      BY <3>2, <3>4, SubsetsCount
    <3>6. PICK x, g : x \in {0, 1} /\ g \in 0..(Len(args) - Cardinality(known)) /\
                      error_count' = error_count + Cardinality(wrong) + g + x
      BY <3>3
    <3>7. g \in Nat
      BY <3>2, <3>5, <3>6
    <3>8. QED
      BY <1>1, <3>5, <3>6, <3>7
  <2>3. QED
    BY <2>1, <2>2
<1>6. CASE Resolve
  BY <1>2, <1>6 DEF Resolve
<1>7. CASE TypeCall
  BY <1>2, <1>7, Zenon DEF TypeCall
<1>8. CASE error_count' = error_count
  BY <1>1, <1>8
<1>9. \/ Support \/ Report \/ CheckCall \/ Resolve \/ TypeCall
      \/ error_count' = error_count
  BY DEF Next, Collect, EnterSymbol, EnterFunction, EnterBlock, Ask, Enter, Assign, PopAssign, Derive,
         AssignLeaf, AssignNode, AssignFunctionDecl, Decide, PushType, Visit, PopVisit, VisitNode, MessageThrows,
         Condition, Finish, vars
<1>10. QED
  BY <1>3, <1>4, <1>5, <1>6, <1>7, <1>8, <1>9

(* What every handler of the evaluation does: it takes its call, makes     *)
(* calls of the evaluation, and leaves the tables alone.                   *)
Handler == \/ Enter \/ Derive \/ AssignLeaf \/ AssignNode \/ AssignFunctionDecl \/ Resolve \/ Support
           \/ Decide \/ PushType \/ TypeCall \/ VisitNode \/ Report \/ Condition \/ CheckCall

LEMMA Steps ==
    ASSUME TypeInv, [Next]_vars
    PROVE  Collect \/ Ask \/ Handler \/ PopAssign \/ PopVisit \/ Finish \/ Quiet
BY QuietSteps DEF Next, Assign, Visit, Handler

LEMMA HandlerCalls ==
    ASSUME TypeInv, Handler
    PROVE  \E cs \in Seq(ToCheck) : agenda' = cs \o Tail(agenda)
<1>1. task.n \in Nodes /\ task.t \in live /\ ast \in Programs
  BY TaskIs, NodesAre
     DEF Handler, Enter, Derive, AssignLeaf, AssignNode, AssignFunctionDecl, Resolve, Support, Decide,
         PushType, TypeCall, VisitNode, Report, Condition, CheckCall, At, Doing
<1>2. <<>> \in Seq(ToCheck)
  OBVIOUS
<1>3. AssignCalls(task.n, task.t) \in Seq(ToCheck) /\ VisitCalls(task.n, task.t) \in Seq(ToCheck)
  BY <1>1, AssignCallsFit, VisitCallsFit
<1>4. Calls("assign", ast.node[task.n].args, task.t) \in Seq(ToCheck)
  <2>1. ast.node[task.n].args \in Seq(Nodes)
    BY <1>1, ListsGoUp DEF NodeLists
  <2>2. QED
    BY <1>1, <2>1, CallsFit
<1>5. Enter => \E d \in {"assign", "visit"} : agenda' = <<Call(d, task.n, answers[1])>> \o Tail(agenda)
                                              /\ answers[1] \in live
  <2>1. ASSUME Enter, NEW d \in {"assign", "visit"}, Doing(Entering(d))
        PROVE  answers[1] \in live
    <3>1. task.do \in {"enter_assign", "enter_visit"} /\ Answered /\ agenda # <<>>
      BY <2>1 DEF Doing, Entering, Running
    <3>2. LookUps(task) = <<Look("find", Root)>>
      BY <3>1, LookUpsAre
    <3>3. Len(answers) = 1
      BY <3>1, <3>2 DEF Answered
    <3>4. 1 \in 1..Len(answers)
      BY <3>3
    <3>5. 1 \in DOMAIN answers /\ answers[1] \in live \cup {Null}
      BY <3>4, AnswerIs
    <3>6. QED
      BY <3>1, <3>5 DEF TypeInv, AnswersOK
  <2>2. QED
    BY <2>1 DEF Enter, Then
<1>6. \A d \in {"assign", "visit"}, t \in live : <<Call(d, task.n, t)>> \in Seq(ToCheck)
  BY <1>1, CallFits
<1>7. CASE Enter
  BY <1>5, <1>6, <1>7
<1>8. CASE ~Enter
  <2>1. \/ agenda' = <<>> \o Tail(agenda)
        \/ agenda' = AssignCalls(task.n, task.t) \o Tail(agenda)
        \/ agenda' = VisitCalls(task.n, task.t) \o Tail(agenda)
        \/ agenda' = Calls("assign", ast.node[task.n].args, task.t) \o Tail(agenda)
    BY <1>8 DEF Handler, Derive, AssignLeaf, AssignNode, AssignFunctionDecl, Resolve, Support, Decide,
         PushType, TypeCall, VisitNode, Report, Condition, CheckCall, Then
  <2>2. QED
    BY <1>2, <1>3, <1>4, <2>1
<1>9. QED
  BY <1>7, <1>8

LEMMA HandlerStep ==
    ASSUME TypeInv, Handler
    PROVE  /\ Running /\ Answered /\ task \in Due /\ task.do # "collect" /\ answers' = <<>>
           /\ UNCHANGED <<ast, live, qa, parent, children, underlying, encl, symbols, return_type>>
           /\ UNCHANGED <<stack_visit, home>>
           /\ outcome' \in {"running", "crashed"}
           /\ Due \subseteq {task} \cup Due'
           /\ \A c \in Due : c.do # "collect"
           /\ \A c \in Due' : c.do # "collect"
<1>1. /\ Running /\ Answered /\ task.do # "collect"
      /\ UNCHANGED <<ast, tables, stack_visit, home>>
      /\ outcome' \in {"running", "crashed"}
  BY DEF Handler, Enter, Derive, AssignLeaf, AssignNode, AssignFunctionDecl, Resolve, Support, Decide,
         PushType, TypeCall, VisitNode, Report, Condition, CheckCall, At, Doing, Entering, Running, rest, stacks
<1>2. answers' = <<>>
  <2>1. CASE Enter \/ Resolve \/ TypeCall \/ Report \/ CheckCall
    BY <2>1 DEF Enter, Resolve, TypeCall, Report, CheckCall
  <2>2. CASE ~(Enter \/ Resolve \/ TypeCall \/ Report \/ CheckCall)
    <3>1. /\ answers' = answers
          /\ task.do \in {"derive", "assign", "support", "decide", "push_type", "visit", "condition"}
      BY <2>2 DEF Handler, Derive, AssignLeaf, AssignNode, AssignFunctionDecl, Support, Decide,
           PushType, VisitNode, Condition, At, Doing
    <3>2. LookUps(task) = <<>>
      BY <3>1, LookUpsAre
    <3>3. QED
      BY <1>1, <3>1, <3>2, NoLookUps
  <2>3. QED
    BY <2>1, <2>2
<1>3. agenda \in Seq(ToCheck) /\ agenda # <<>>
  BY <1>1, TaskIs DEF Running
<1>4. PICK cs \in Seq(ToCheck) : agenda' = cs \o Tail(agenda)
  BY HandlerCalls
<1>5. task \in Due /\ Due \subseteq {task} \cup Due' /\ agenda' \in Seq(ToCheck)
  BY <1>3, <1>4, DueAfter
<1>6. \A s \in Seq(ToCheck) : \A c \in Members(s) : c.do # "collect"
  BY MembersIn DEF ToCheck, Checks
<1>7. (\A c \in Due : c.do # "collect") /\ \A c \in Due' : c.do # "collect"
  BY <1>3, <1>5, <1>6 DEF Due
<1>8. QED
  BY <1>1, <1>2, <1>5, <1>7 DEF tables

(* The loops of evaluate take a node off when nothing is due.              *)
LEMMA NoneDue == agenda = <<>> => Due = {}
BY DEF Due, Members

LEMMA PopStep ==
    ASSUME TypeInv, PopAssign \/ PopVisit \/ Finish
    PROVE  /\ Due = {} /\ agenda = <<>> /\ answers = <<>> /\ answers' = <<>>
           /\ UNCHANGED <<ast, live, qa, parent, children, underlying, encl, symbols, return_type>>
           /\ UNCHANGED <<error_count, resolved, assigned, home>>
           /\ outcome = "running" /\ outcome' \in {"running", "accepted", "rejected"}
           /\ \A c \in Due' : c.do # "collect"
<1>1. /\ agenda = <<>> /\ answers' = answers /\ UNCHANGED <<ast, tables, error_count, resolved, assigned, home>>
      /\ outcome = "running" /\ outcome' \in {"running", "accepted", "rejected"}
  BY DEF PopAssign, PopVisit, Finish, Idle, history
<1>2. answers = <<>>
  BY <1>1 DEF TypeInv, AnswersOK
<1>3. \A c \in Due' : c.do # "collect"
  <2>1. \/ agenda' = <<>>
        \/ \E c, n : agenda' = <<c, Call("derive", n, Root)>> /\ c.do # "collect"
        \/ \E c : agenda' = <<c>> /\ c.do # "collect"
    BY <1>1 DEF PopAssign, PopVisit, Finish, Entry, Call, Entering
  <2>2. QED
    BY <2>1 DEF Due, Members, Call
<1>4. QED
  BY <1>1, <1>2, <1>3, NoneDue DEF tables

(* A look-up changes links and answers only.                               *)
LEMMA AskStep ==
    ASSUME TypeInv, Ask
    PROVE  /\ Running /\ Due' = Due /\ task' = task /\ agenda' = agenda
           /\ UNCHANGED <<ast, live, qa, children, underlying, encl, symbols, return_type>>
           /\ UNCHANGED <<stack_assign, stack_visit, error_count, resolved, assigned, home>>
           /\ outcome' \in {"running", "crashed"}
           /\ Tab!ForestInv /\ Tab!ForestInv'
<1>1. /\ Running /\ agenda' = agenda /\ outcome' \in {"running", "crashed"}
      /\ UNCHANGED <<ast, symbols, return_type, stack_assign, stack_visit, error_count, resolved, assigned, home>>
  BY DEF Ask, Running, stacks, history
<1>2. Tab!Lookup /\ Tab!Next
  BY AskIsLookup DEF Tab!Next
<1>3. UNCHANGED <<live, qa, children, underlying, encl>>
  BY <1>2, Tab!LookupMoves, TableAssumption DEF TypeInv, TablesOK, Tab!ForestInv
<1>4. Tab!ForestInv /\ Tab!ForestInv'
  BY <1>2, Tab!NextKeepsForest, TableAssumption DEF TypeInv, TablesOK
<1>5. QED
  BY <1>1, <1>3, <1>4 DEF Due, task, Members

(* The collection adds declarations, tables and calls of its own.          *)
LEMMA CollectStep ==
    ASSUME TypeInv, Collect
    PROVE  /\ Running /\ task \in Due /\ task.do = "collect" /\ answers = <<>> /\ answers' = <<>>
           /\ ast' = ast /\ live \subseteq live'
           /\ UNCHANGED <<stack_assign, stack_visit, error_count, resolved, assigned, outcome>>
           /\ Due \subseteq {task} \cup Due'
           /\ \A c \in Due : c.do = "collect"
           /\ \A c \in Due' : c.do = "collect"
           /\ \A c \in Due' \ Due : ~TopLevel(c.n)
<1>1. /\ Running /\ task.do = "collect" /\ Answered /\ ast' = ast /\ answers' = answers /\ agenda # <<>>
      /\ UNCHANGED <<stack_assign, stack_visit, error_count, resolved, assigned, outcome>>
  BY DEF Collect, EnterSymbol, EnterFunction, EnterBlock, At, Doing, Running, stacks, history
<1>2. answers = <<>>
  BY <1>1, NoLookUps, LookUpsAre
<1>3. live \subseteq live'
  BY SameCalls DEF Collect, EnterSymbol, EnterFunction, EnterBlock, Tab!add, Tab!tree, Tab!add_sym_table, tables
<1>4. agenda \in Seq(ToCollect) /\ task.n \in Nodes
  BY <1>1, TaskIs
<1> DEFINE S == {c \in [do : {"collect"}, n : Nodes, t : live'] : TRUE}
           N == {n \in Nodes : ~TopLevel(n)}
<1>5. \E ns \in Seq(N), t \in live' : agenda' = Calls("collect", ns, t) \o Tail(agenda)
  <2>1. \A l \in Seq(Nodes) : (\A i \in DOMAIN l : ~TopLevel(l[i])) => l \in Seq(N)
    <3>1. ASSUME NEW l \in Seq(Nodes), \A i \in DOMAIN l : ~TopLevel(l[i]) PROVE l \in Seq(N)
      <4>1. \A i \in DOMAIN l : l[i] \in N
        BY <3>1
      <4> HIDE DEF N
      <4>2. QED
        BY <3>1, <4>1
    <3>2. QED
      BY <3>1
  <2>2. Below(ast.node[task.n]) \in Seq(N) /\ Collected(task.n) \in Seq(N) /\ <<>> \in Seq(N)
    <3>1. /\ Below(ast.node[task.n]) \in Seq(Nodes) /\ Collected(task.n) \in Seq(Nodes)
          /\ \A l \in {Below(ast.node[task.n]), Collected(task.n)} : \A i \in DOMAIN l : ~TopLevel(l[i])
      BY <1>4, BelowIs, NodesAre
    <3> HIDE DEF N
    <3>2. QED
      BY <2>1, <3>1
  <2>3. task.t \in live'
    BY <1>1, <1>3, TaskIs
  <2>4. CASE EnterSymbol
    <3>1. Calls("collect", <<>>, task.t) = <<>> /\ agenda' = <<>> \o Tail(agenda)
      BY <2>4 DEF EnterSymbol, Then, Calls
    <3>2. QED
      BY <2>2, <2>3, <3>1
  <2>5. CASE EnterFunction
    <3>1. \E b \in live' : b \notin live
      <4>1. Tab!add_sym_table(task.t, name(task.n)) /\ live # Tables /\ live \subseteq Tables
        BY <2>5, SameCalls DEF EnterFunction, Tab!add_sym_table, TypeInv, TablesOK, Tab!ForestInv, Tab!IInv, Tab!TypeOK
      <4>2. QED
        BY <4>1 DEF Tab!add_sym_table
    <3>2. QED
      BY <2>2, <2>5, <3>1 DEF EnterFunction, Then
  <2>6. CASE EnterBlock
    BY <2>2, <2>3, <2>6 DEF EnterBlock, Then
  <2>7. QED
    BY <2>4, <2>5, <2>6 DEF Collect
<1>6. PICK ns \in Seq(N), t \in live' : agenda' = Calls("collect", ns, t) \o Tail(agenda)
  BY <1>5
<1>7. Calls("collect", ns, t) \in Seq(S)
  <2>1. \A i \in DOMAIN ns : ns[i] \in N
    OBVIOUS
  <2>2. \A i \in DOMAIN ns : Call("collect", ns[i], t) \in S
    BY <2>1 DEF Call
  <2> HIDE DEF N, S
  <2>3. QED
    BY <2>2, CallsAre
<1>8. agenda \in Seq(S)
  <2>1. ToCollect \subseteq S
    BY <1>3 DEF ToCollect
  <2>2. QED
    BY <1>4, <2>1, SeqsGrow
<1> HIDE DEF S
<1>9. /\ task \in Due /\ Due \subseteq {task} \cup Due' /\ agenda' \in Seq(S)
      /\ Due' \subseteq Members(Calls("collect", ns, t)) \cup Due
  BY <1>1, <1>6, <1>7, <1>8, DueAfter
<1>10. (\A c \in Due : c.do = "collect") /\ \A c \in Due' : c.do = "collect"
  BY <1>8, <1>9, MembersIn DEF Due, S
<1>11. \A c \in Members(Calls("collect", ns, t)) : ~TopLevel(c.n)
  <2>1. Members(ns) \subseteq N
    BY MembersIn
  <2>2. QED
    BY <2>1, CallMembers DEF Call
<1>12. QED
  BY <1>1, <1>2, <1>3, <1>9, <1>10, <1>11

-----------------------------------------------------------------------------
(* Names in tables.                                                        *)
LEMMA TablesAre ==
    ASSUME TypeInv
    PROVE  /\ Tab!ForestInv /\ Root \in live /\ Null \notin live /\ live \subseteq Tables
           /\ qa \in [Tables -> Seq(Names)] /\ parent \in [Tables -> live \cup {Null}]
           /\ children \in [Tables -> Seq(live)] /\ underlying \in [Tables -> Seq(Tab!Sym)]
           /\ encl \in [Tables -> SUBSET live] /\ qa[Root] = <<GlobalName>> /\ parent[Root] = Null
<1>1. Tab!ForestInv /\ qa[Root] = <<GlobalName>>
  BY DEF TypeInv, TablesOK
<1>2. /\ Root \in live /\ Null \notin live /\ live \subseteq Tables
      /\ qa \in [Tables -> Seq(Names)] /\ parent \in [Tables -> live \cup {Null}]
      /\ children \in [Tables -> Seq(live)] /\ underlying \in [Tables -> Seq(Tab!Sym)]
      /\ encl \in [Tables -> SUBSET live]
  BY <1>1, TableAssumption DEF Tab!ForestInv, Tab!IInv, Tab!TypeOK, Tab!QaName
<1>3. parent[Root] = Null
  BY <1>1, <1>2 DEF Tab!ForestInv, Tab!IInv, Tab!LinksLeadOut, Tab!RootIsOutermost
<1>4. QED
  BY <1>1, <1>2, <1>3

(* What is read of tables and nodes that a step leaves alone.              *)
LEMMA TablesSame ==
    ASSUME UNCHANGED <<ast, qa, underlying>>
    PROVE  /\ \A t, n : /\ Declared(t, n)' = Declared(t, n) /\ ST!Duplicated(t, n)' = ST!Duplicated(t, n)
                        /\ ST!Matches(t, n)' = ST!Matches(t, n)
           /\ \A n : kind(n)' = kind(n) /\ name(n)' = name(n) /\ TopLevel(n)' = TopLevel(n)
           /\ Nodes' = Nodes
BY DEF Declared, ST!Duplicated, ST!Matches, ST!create_qualified_name, kind, name, TopLevel, Nodes

(* A symbol whose memory did not hold -1 is one the look-ups see.          *)
ModsShow == ST!Absent \notin ModValues

LEMMA DeclaredShows ==
    ASSUME TypeInv, ModsShow, NEW t \in live, NEW n
    PROVE  Tab!Visible(t, n) <=> Declared(t, n)
<1>1. underlying[t] \in Seq(Tab!Sym) /\ Len(underlying[t]) \in Nat /\ DOMAIN underlying[t] = 1..Len(underlying[t])
  BY TablesAre
<1>2. ST!Matches(t, n) = Tab!Matches(t, n) /\ Tab!Matches(t, n) \subseteq 0..Len(underlying[t])
      /\ Tab!Matches(t, n) \subseteq DOMAIN underlying[t]
  BY <1>1, SameAnswers DEF Tab!Matches
<1>3. ASSUME Tab!Matches(t, n) # {} PROVE Tab!Visible(t, n)
  <2>1. PICK i : i \in Tab!Matches(t, n) /\ \A j \in Tab!Matches(t, n) : i >= j
    BY <1>1, <1>2, <1>3, MaxIsGreatest
  <2>2. underlying[t][i] \in Tab!Sym
    BY <1>1, <1>2, <2>1
  <2>3. underlying[t][i].mod \in ModValues
    BY <2>2 DEF Tab!Sym
  <2>4. underlying[t][i].mod # Tab!Absent
    BY <2>3 DEF ModsShow, ST!Absent, Tab!Absent
  <2>5. \A j \in Tab!Matches(t, n) : j <= i
    BY <1>2, <2>1
  <2>6. QED
    BY <2>1, <2>4, <2>5 DEF Tab!Visible
<1>4. QED
  BY <1>2, <1>3 DEF Tab!Visible, Declared

(* What get answers a table that has the name, and the global one.         *)
LEMMA AnswersDeclared ==
    ASSUME TypeInv, ModsShow, NEW t \in live, NEW n \in Names
    PROVE  /\ Declared(t, n) => ST!GetAnswer(t, n) = t
           /\ ~Declared(t, n) /\ parent[t] = Null => ST!GetAnswer(t, n) = Null
           /\ ~Declared(t, n) /\ parent[t] # Null => ST!GetAnswer(t, n) = ST!GetAnswer(parent[t], n)
           /\ ST!GetAnswer(Root, n) = IF Declared(Root, n) THEN Root ELSE Null
<1>1. \A u \in live : Tab!GetAnswer(u, n) = IF Tab!Visible(u, n) THEN u
                               ELSE IF parent[u] = Null THEN Null ELSE Tab!GetAnswer(parent[u], n)
  BY TablesAre, Tab!AnswerHere, TableAssumption
<1>2. \A u \in live : Tab!Visible(u, n) <=> Declared(u, n)
  BY DeclaredShows
<1>3. \A u : ST!GetAnswer(u, n) = Tab!GetAnswer(u, n)
  BY SameAnswers
<1>4. Root \in live /\ parent[Root] = Null
  BY TablesAre
<1>5. QED
  BY <1>1, <1>2, <1>3, <1>4

(* The collection only adds symbols.                                       *)
LEMMA CollectDeclares ==
    ASSUME TypeInv, Collect
    PROVE  /\ \A t \in live : \A n : Declared(t, n) => Declared(t, n)'
           /\ EnterSymbol => \A t, n : t = task.t /\ n = name(task.n) => Declared(t, n)'
           /\ ~EnterSymbol => underlying' = underlying
           /\ \A t \in live : qa'[t] = qa[t]
<1>1. task.t \in live /\ task.n \in Nodes
  BY TaskIs DEF Collect, EnterSymbol, EnterFunction, EnterBlock, At, Doing
<1>2. \A t \in live : qa'[t] = qa[t]
  <2>1. CASE EnterFunction
    <3>1. Tab!add_sym_table(task.t, name(task.n))
      BY <2>1, SameCalls DEF EnterFunction
    <3>2. \A t \in live : t # CHOOSE c \in Tables : c \notin live
      BY <3>1, TablesAre DEF Tab!add_sym_table
    <3>3. QED
      BY <3>1, <3>2, TablesAre DEF Tab!add_sym_table
  <2>2. CASE ~EnterFunction
    BY <2>2 DEF Collect, EnterSymbol, EnterBlock, ST!add, ST!tree, tables
  <2>3. QED
    BY <2>1, <2>2
<1>3. CASE EnterSymbol
  <2>1. PICK m \in ModValues :
          underlying' = [underlying EXCEPT ![task.t] = Append(@,
             [key |-> ST!create_qualified_name(task.t, name(task.n)), mod |-> m, inst |-> Null])]
    BY <1>3 DEF EnterSymbol, ST!add
  <2>2. PICK x : x = [key |-> ST!create_qualified_name(task.t, name(task.n)), mod |-> m, inst |-> Null]
    OBVIOUS
  <2>3. /\ \A t \in live : underlying[t] \in Seq(Tab!Sym) /\ (t # task.t => underlying'[t] = underlying[t])
        /\ underlying'[task.t] = Append(underlying[task.t], x)
    BY <1>1, <2>1, <2>2, TablesAre
  <2>4. \A s \in Seq(Tab!Sym) : /\ \A i \in DOMAIN s : i \in DOMAIN Append(s, x) /\ Append(s, x)[i] = s[i]
                                /\ Len(s) + 1 \in DOMAIN Append(s, x) /\ Append(s, x)[Len(s) + 1] = x
    OBVIOUS
  <2>5. ASSUME NEW t \in live, NEW n, Declared(t, n) PROVE Declared(t, n)'
    <3>1. PICK i \in DOMAIN underlying[t] : underlying[t][i].key = qa[t] \o <<n>>
      BY <2>5 DEF Declared, ST!Matches, ST!create_qualified_name
    <3>2. i \in DOMAIN underlying'[t] /\ underlying'[t][i] = underlying[t][i]
      BY <2>3, <2>4
    <3>3. QED
      BY <1>2, <3>1, <3>2 DEF Declared, ST!Matches, ST!create_qualified_name
  <2>6. ASSUME NEW t, NEW n, t = task.t, n = name(task.n) PROVE Declared(t, n)'
    <3>1. underlying'[t] = Append(underlying[t], x) /\ x.key = qa[t] \o <<n>> /\ underlying[t] \in Seq(Tab!Sym)
      BY <1>1, <2>2, <2>3, <2>6 DEF ST!create_qualified_name
    <3>2. PICK i \in DOMAIN underlying'[t] : underlying'[t][i] = x
      BY <2>4, <3>1
    <3>3. qa'[t] = qa[t]
      BY <1>1, <1>2, <2>6
    <3>4. QED
      BY <3>1, <3>2, <3>3 DEF Declared, ST!Matches, ST!create_qualified_name
  <2>7. QED
    BY <1>2, <1>3, <2>5, <2>6
<1>4. CASE ~EnterSymbol
  <2>1. underlying' = underlying
    BY <1>4, SameCalls DEF Collect, EnterFunction, EnterBlock, Tab!add_sym_table, tables
  <2>2. QED
    BY <1>2, <1>4, <2>1 DEF Declared, ST!Matches, ST!create_qualified_name
<1>5. QED
  BY <1>3, <1>4

-----------------------------------------------------------------------------
(* The order of the walk: declarations are collected before the stacks are *)
(* touched, and it ends when nothing is left.                              *)
PhasesInv ==
    /\ (\E c \in Due : c.do = "collect") => stack_assign = ast.top /\ stack_visit = ast.top
    /\ outcome = "accepted" =>
         agenda = <<>> /\ stack_assign = <<>> /\ stack_visit = <<>> /\ error_count = 0

LEMMA InitPhases == Init => PhasesInv
BY DEF Init, PhasesInv

LEMMA QuietKeeps ==
    Quiet => /\ UNCHANGED <<ast, live, qa, parent, children, underlying, encl, symbols, return_type>>
             /\ UNCHANGED <<agenda, answers, stack_assign, stack_visit, error_count>>
             /\ UNCHANGED <<real_type, parent_type, types, resolved, assigned, home>>
             /\ outcome' = outcome \/ (outcome = "running" /\ outcome' = "thrown")
             /\ Due' = Due /\ task' = task /\ (Running' => Running)
BY DEF Quiet, tables, stacks, typing, history, Due, Members, task, Running

LEMMA PhasesKept == TypeInv /\ PhasesInv /\ [Next]_vars => PhasesInv'
<1> SUFFICES ASSUME TypeInv, PhasesInv, [Next]_vars PROVE PhasesInv'
  OBVIOUS
<1>1. CASE Collect
  BY <1>1, CollectStep DEF PhasesInv, Running
<1>2. CASE Ask
  BY <1>2, AskStep DEF PhasesInv
<1>3. CASE Handler
  BY <1>3, HandlerStep DEF PhasesInv
<1>4. CASE PopAssign \/ PopVisit \/ Finish
  BY <1>4, PopStep DEF PhasesInv, PopAssign, PopVisit, Finish, Idle, stacks
<1>5. CASE Quiet
  BY <1>5, QuietKeeps DEF PhasesInv
<1>6. QED
  BY <1>1, <1>2, <1>3, <1>4, <1>5, Steps

(* The answer a look-up with get adds.                                     *)
LEMMA AskGets ==
    ASSUME TypeInv, Ask, task.do \in {"resolve", "declared", "defined"}
    PROVE  LET k == Len(answers) + 1
               t == LookUps(task)[k].t
           IN  /\ k \in 1..Len(LookUps(task)) /\ LookUps(task)[k].op = "get"
               /\ t \in {task.t, Root} /\ t \in live /\ task.t \in live
               /\ task.n \in Nodes /\ name(task.n) \in Names
               /\ ST!get(t, name(task.n)) /\ Tab!get(t, name(task.n))
               /\ answers' = Append(answers, ST!GetAnswer(t, name(task.n)))
<1> DEFINE k == Len(answers) + 1
           a == LookUps(task)[k]
<1>1. /\ Running /\ Len(answers) < Len(LookUps(task)) /\ task.n \in Nodes /\ task.t \in live /\ Fits(task)
      /\ ast \in Programs /\ Root \in live
  BY TaskIs, NodesAre DEF Ask
<1>2. Len(answers) \in Nat /\ Len(LookUps(task)) \in Nat
  BY NodesAre, LookUpsCounted
<1>3. k \in 1..Len(LookUps(task)) /\ LookUps(task) # <<>>
  BY <1>1, <1>2
<1>4. a.t \in {task.t, Root} /\ name(task.n) \in Names
  BY <1>1, <1>3, LookUpsFit
<1>5. a.op = "get"
  <2>1. \/ LookUps(task) = <<Look("get", task.t), Look("get", Root), Look("get", task.t), Look("get", Root)>>
        \/ LookUps(task) = <<Look("get", task.t)>>
        \/ LookUps(task) = <<Look("get", task.t), Look("get", Root)>>
    BY LookUpsAre
  <2>2. \A t : Look("get", t).op = "get"
    BY DEF Look
  <2> HIDE DEF Look
  <2>3. QED
    BY <1>3, <2>1, <2>2
<1>6. /\ ST!get(a.t, name(task.n))
      /\ answers' = Append(answers, ST!GetAnswer(a.t, name(task.n)))
  BY <1>5 DEF Ask
<1> HIDE DEF a, k
<1>7. QED
  BY <1>1, <1>3, <1>4, <1>5, <1>6, SameCalls DEF a, k

-----------------------------------------------------------------------------
(* Top-level variables: each is entered into the global table, and checked *)
(* there against everything the table holds.                               *)
GlobalVars == {n \in Named({"variable_def", "variable_decl"}) : TopLevel(n)}

CheckDue(n) == \E c \in Due : c.n = n /\ c.t = Root /\ c.do \in {"visit", "declared", "defined"}

GlobalsEntered == \A n \in GlobalVars : Call("collect", n, Root) \in Due \/ Declared(Root, name(n))

GlobalsChecked ==
    \A n \in GlobalVars :
        n \in Members(stack_visit) \/ CheckDue(n) \/ error_count > 0 \/ ~ST!Duplicated(Root, name(n))

GlobalsInv == PhasesInv /\ GlobalsEntered /\ GlobalsChecked

LEMMA InitGlobals == Init => GlobalsInv
<1> SUFFICES ASSUME Init PROVE GlobalsInv
  OBVIOUS
<1>1. ast.top \in Seq(Nodes)
  BY Numbered DEF Init
<1>2. GlobalsEntered
  <2>1. ASSUME NEW n \in GlobalVars PROVE Call("collect", n, Root) \in Due
    <3>1. n \in Members(ast.top)
      BY DEF GlobalVars, TopLevel
    <3>2. QED
      BY <3>1, CallMembers DEF Init, Due
  <2>2. QED
    BY <2>1 DEF GlobalsEntered
<1>3. GlobalsChecked
  BY DEF GlobalsChecked, Init, GlobalVars, TopLevel
<1>4. QED
  BY <1>2, <1>3, InitPhases DEF GlobalsInv

LEMMA EnteredKept == TypeInv /\ GlobalsEntered /\ [Next]_vars => GlobalsEntered'
<1> SUFFICES ASSUME TypeInv, GlobalsEntered, [Next]_vars PROVE GlobalsEntered'
  OBVIOUS
<1>1. CASE Collect
  <2>1. /\ Running /\ task \in Due /\ ast' = ast /\ Due \subseteq {task} \cup Due'
    BY <1>1, CollectStep
  <2>2. GlobalVars' = GlobalVars /\ \A n : name(n)' = name(n)
    BY <2>1 DEF GlobalVars, Named, TopLevel, Nodes, kind, name
  <2>3. ASSUME NEW n \in GlobalVars PROVE Call("collect", n, Root) \in Due' \/ Declared(Root, name(n))'
    <3>1. CASE Declared(Root, name(n))
      <4>1. PICK m : m = name(n)
        OBVIOUS
      <4>2. Declared(Root, m)'
        BY <1>1, <3>1, <4>1, CollectDeclares, TablesAre
      <4>3. QED
        BY <2>2, <4>1, <4>2
    <3>2. CASE Call("collect", n, Root) \in Due /\ Call("collect", n, Root) # task
      BY <2>1, <3>2
    <3>3. CASE Call("collect", n, Root) = task
      <4>1. task.n = n /\ task.t = Root
        BY <3>3 DEF Call
      <4>2. kind(task.n) \in {"variable_def", "variable_decl"}
        BY <4>1 DEF GlobalVars, Named
      <4>3. EnterSymbol
        BY <1>1, <4>2 DEF Collect, EnterFunction, EnterBlock, At
      <4>4. PICK m : m = name(n)
        OBVIOUS
      <4>5. Declared(Root, m)'
        BY <1>1, <4>1, <4>3, <4>4, CollectDeclares
      <4>6. QED
        BY <2>2, <4>4, <4>5
    <3>4. QED
      BY <3>1, <3>2, <3>3 DEF GlobalsEntered
  <2>4. QED
    BY <2>2, <2>3 DEF GlobalsEntered
<1>2. ASSUME UNCHANGED <<ast, qa, underlying>>,
             \A n \in GlobalVars : Call("collect", n, Root) \in Due => Call("collect", n, Root) \in Due'
      PROVE  GlobalsEntered'
  <2>1. GlobalVars' = GlobalVars /\ Root' = Root
    BY <1>2 DEF GlobalVars, Named, TopLevel, Nodes, kind
  <2>2. \A n : Declared(Root, name(n))' = Declared(Root, name(n))
    <3>1. ASSUME NEW n PROVE Declared(Root, name(n))' = Declared(Root, name(n))
      BY <1>2 DEF Declared, ST!Matches, ST!create_qualified_name, name
    <3>2. QED
      BY <3>1
  <2>3. \A n : Call("collect", n, Root)' = Call("collect", n, Root)
    BY DEF Call
  <2>4. QED
    BY <1>2, <2>1, <2>2, <2>3 DEF GlobalsEntered
<1>3. CASE Ask
  BY <1>2, <1>3, AskStep
<1>4. CASE Handler
  BY <1>2, <1>4, HandlerStep DEF Call
<1>5. CASE PopAssign \/ PopVisit \/ Finish
  BY <1>2, <1>5, PopStep
<1>6. CASE Quiet
  BY <1>2, <1>6, QuietKeeps
<1>7. QED
  BY <1>1, <1>3, <1>4, <1>5, <1>6, Steps

LEMMA VisitedIsChecked ==
    ASSUME ast \in Programs, NEW n \in Nodes, NEW t, kind(n) \in {"variable_def", "variable_decl"}
    PROVE  \E d \in {"declared", "defined"} : Call(d, n, t) \in Members(VisitCalls(n, t))
<1>1. CASE kind(n) = "variable_decl"
  <2>1. VisitCalls(n, t) = <<Call("declared", n, t)>>
    BY <1>1, Zenon DEF VisitCalls
  <2>2. QED
    BY <2>1 DEF Members
<1>2. CASE kind(n) = "variable_def"
  <2>1. VisitCalls(n, t) = <<Call("defined", n, t), Call("assign", kids(n)[1], t), Call("support", n, t),
                             Call("check_def", n, t)>>
    BY <1>2, Zenon DEF VisitCalls
  <2>2. PICK s : s = VisitCalls(n, t)
    OBVIOUS
  <2>3. 1 \in DOMAIN s /\ s[1] = Call("defined", n, t)
    BY <2>1, <2>2
  <2>4. QED
    BY <2>2, <2>3 DEF Members
<1>3. QED
  BY <1>1, <1>2

LEMMA DuplicateReported ==
    ASSUME TypeInv, Report, task.n \in GlobalVars, task.t = Root,
           task.do \in {"declared", "defined"}, ST!Duplicated(Root, name(task.n))
    PROVE  error_count' > 0
<1>1. error_count \in Nat
  BY NodesAre
<1>2. Duplicated(Root, name(task.n)) = TRUE
  <2>1. LastRead(Root, name(task.n)) = Root
    BY TablesAre DEF LastRead
  <2>2. QED
    BY <2>1 DEF Duplicated, ST!Duplicated
<1>3. ASSUME NEW a, NEW b, a = TRUE, Errors(<<a>>) \/ Errors(<<a, b>>) PROVE error_count' > 0
  <2>1. DOMAIN <<a>> \subseteq 1..1 /\ DOMAIN <<a, b>> \subseteq 1..2 /\ 1 \in DOMAIN <<a>> /\ 1 \in DOMAIN <<a, b>>
        /\ <<a>>[1] = a /\ <<a, b>>[1] = a
    OBVIOUS
  <2>2. error_count' > error_count
    <3>1. PICK c : c \in {<<a>>, <<a, b>>} /\ Errors(c)
      BY <1>3
    <3>2. DOMAIN c \subseteq 1..2 /\ 1 \in DOMAIN c /\ c[1] = TRUE
      <4>1. 1..1 \subseteq 1..2
        OBVIOUS
      <4>2. CASE c = <<a>>
        BY <1>3, <2>1, <4>1, <4>2
      <4>3. CASE c = <<a, b>>
        BY <1>3, <2>1, <4>3
      <4>4. QED
        BY <3>1, <4>2, <4>3
    <3>3. QED
      BY <1>1, <3>1, <3>2, ErrorsGrow
  <2>3. error_count' \in Nat
    BY ReportTypes DEF TypeInv, NodesOK
  <2>4. QED
    BY <1>1, <2>2, <2>3
<1>4. CASE task.do = "declared"
  <2>1. Errors(<<Duplicated(task.t, name(task.n))>>)
    BY <1>4 DEF Report, Doing
  <2>2. QED
    BY <1>2, <1>3, <2>1
<1>5. CASE task.do = "defined"
  <2>1. RedefinitionIn(task.n, task.t) = TRUE
    BY <1>2 DEF RedefinitionIn, Duplicated, ST!Duplicated
  <2>2. Errors(<<RedefinitionIn(task.n, task.t), NegatedUnsigned(task.n)>>)
    BY <1>5 DEF Report, Doing
  <2>3. QED
    BY <1>3, <2>1, <2>2
<1>6. QED
  BY <1>4, <1>5

LEMMA CheckedKept ==
    TypeInv /\ PhasesInv /\ GlobalsChecked /\ [Next]_vars => GlobalsChecked'
<1> SUFFICES ASSUME TypeInv, PhasesInv, GlobalsChecked, [Next]_vars PROVE GlobalsChecked'
  OBVIOUS
<1>1. error_count \in Nat /\ error_count' \in Nat /\ error_count' >= error_count
  BY ErrorsStay, NodesAre
<1>2. ast' = ast => GlobalVars' = GlobalVars
  BY DEF GlobalVars, Named, TopLevel, Nodes, kind
<1>3. CASE Collect
  <2>1. stack_visit' = ast.top /\ ast' = ast
    BY <1>3, CollectStep DEF PhasesInv
  <2>2. QED
    BY <1>2, <2>1 DEF GlobalsChecked, GlobalVars, TopLevel
<1>4. ASSUME UNCHANGED <<ast, qa, underlying>>,
             \A n \in GlobalVars : (n \in Members(stack_visit) \/ CheckDue(n)) /\ ST!Duplicated(Root, name(n)) =>
                n \in Members(stack_visit)' \/ CheckDue(n)' \/ error_count' > 0
      PROVE  GlobalsChecked'
  <2>1. \A n : ST!Duplicated(Root, name(n))' = ST!Duplicated(Root, name(n))
    <3>1. ASSUME NEW n PROVE ST!Duplicated(Root, name(n))' = ST!Duplicated(Root, name(n))
      BY <1>4 DEF ST!Duplicated, ST!Matches, ST!create_qualified_name, name
    <3>2. QED
      BY <3>1
  <2>2. QED
    BY <1>1, <1>2, <1>4, <2>1 DEF GlobalsChecked
<1>5. CASE Ask \/ Quiet
  <2>1. Due' = Due /\ stack_visit' = stack_visit /\ UNCHANGED <<ast, qa, underlying>>
    BY <1>5, AskStep, QuietKeeps
  <2>2. QED
    BY <1>4, <2>1 DEF CheckDue
<1>6. CASE Handler
  <2>1. /\ Running /\ UNCHANGED <<ast, qa, underlying, stack_visit>> /\ Due \subseteq {task} \cup Due'
        /\ task.n \in Nodes /\ ast \in Programs
    BY <1>6, HandlerStep, TaskIs, NodesAre
  <2>2. ASSUME NEW n \in GlobalVars, CheckDue(n), ST!Duplicated(Root, name(n))
        PROVE  CheckDue(n)' \/ error_count' > 0
    <3>1. PICK c \in Due : c.n = n /\ c.t = Root /\ c.do \in {"visit", "declared", "defined"}
      BY <2>2 DEF CheckDue
    <3>2. CASE c # task
      BY <2>1, <3>1, <3>2 DEF CheckDue
    <3>3. CASE c = task /\ task.do = "visit"
      <4>1. VisitNode
        BY <1>6, <3>3 DEF Handler, Enter, Derive, AssignLeaf, AssignNode, AssignFunctionDecl, Resolve, Support,
             Decide, PushType, TypeCall, Report, Condition, CheckCall, At, Doing, Entering
      <4>2. agenda' = VisitCalls(n, Root) \o Tail(agenda)
        BY <3>1, <3>3, <4>1 DEF VisitNode, Then
      <4>3. PICK d \in {"declared", "defined"} : Call(d, n, Root) \in Members(VisitCalls(n, Root))
        BY <2>1, <3>1, <3>3, VisitedIsChecked DEF GlobalVars, Named
      <4>4. VisitCalls(n, Root) \in Seq(ToCheck)
        BY <2>1, <3>1, <3>3, VisitCallsFit, NodesAre
      <4>5. agenda \in Seq(ToCheck) /\ agenda # <<>>
        BY <2>1, <3>3, TaskIs DEF Running
      <4>6. Call(d, n, Root) \in Due'
        BY <4>2, <4>3, <4>4, <4>5, DueAfter
      <4>7. QED
        BY <4>6 DEF CheckDue, Call
    <3>4. CASE c = task /\ task.do # "visit"
      <4>1. Report
        BY <1>6, <3>1, <3>4 DEF Handler, Enter, Derive, AssignLeaf, AssignNode, AssignFunctionDecl, Resolve, Support,
             Decide, PushType, TypeCall, VisitNode, Condition, CheckCall, At, Doing, Entering
      <4>2. QED
        BY <2>2, <3>1, <3>4, <4>1, DuplicateReported
    <3>5. QED
      BY <3>2, <3>3, <3>4
  <2>3. QED
    BY <1>4, <2>1, <2>2
<1>7. CASE PopAssign \/ PopVisit \/ Finish
  <2>1. UNCHANGED <<ast, qa, underlying>> /\ Due = {}
    BY <1>7, PopStep
  <2>2. ASSUME NEW n \in GlobalVars, n \in Members(stack_visit)
        PROVE  n \in Members(stack_visit)' \/ CheckDue(n)'
    <3>1. CASE ~PopVisit
      BY <1>7, <2>2, <3>1 DEF PopAssign, Finish, stacks
    <3>2. CASE PopVisit
      <4>1. PICK s : s = stack_visit
        OBVIOUS
      <4>2. s \in Seq(Stacked) /\ s # <<>>
        BY <3>2, <4>1 DEF PopVisit, TypeInv, StacksOK
      <4>3. stack_visit' = Tail(s) /\ agenda' = Entry("visit", Head(s))
        BY <3>2, <4>1 DEF PopVisit
      <4>4. PICK i \in DOMAIN s : s[i] = n
        BY <2>2, <4>1 DEF Members
      <4>5. i = 1 \/ (i - 1 \in DOMAIN Tail(s) /\ Tail(s)[i - 1] = n)
        BY <4>2, <4>4
      <4>6. CASE i = 1
        <5>1. Head(s) = n
          BY <4>2, <4>4, <4>6
        <5>2. agenda' = <<Call("visit", n, Root)>>
          BY <4>3, <5>1 DEF Entry, GlobalVars, Named
        <5>3. Call("visit", n, Root) \in Due'
          BY <5>2 DEF Due, Members
        <5>4. QED
          BY <5>3 DEF CheckDue, Call
      <4>7. QED
        BY <4>3, <4>5, <4>6 DEF Members
    <3>3. QED
      BY <3>1, <3>2
  <2>3. QED
    BY <1>4, <2>1, <2>2 DEF CheckDue
<1>8. QED
  BY <1>3, <1>5, <1>6, <1>7, Steps

LEMMA GlobalsInInv == TypeInv /\ GlobalsInv => GlobalsAreUnique
<1> SUFFICES ASSUME TypeInv, GlobalsInv, outcome = "accepted",
                    NEW n \in Named({"variable_def", "variable_decl"}), TopLevel(n)
             PROVE  Cardinality(ST!Matches(Root, name(n))) = 1
  BY DEF GlobalsAreUnique
<1>1. agenda = <<>> /\ stack_visit = <<>> /\ error_count = 0 /\ Due = {}
  BY NoneDue DEF GlobalsInv, PhasesInv
<1>2. Declared(Root, name(n))
  BY <1>1 DEF GlobalsInv, GlobalsEntered, GlobalVars
<1>3. ~ST!Duplicated(Root, name(n))
  BY <1>1 DEF GlobalsInv, GlobalsChecked, GlobalVars, CheckDue, Members
<1>4. PICK i : ST!Matches(Root, name(n)) = {i}
  BY <1>2, <1>3 DEF Declared, ST!Duplicated
<1>5. QED
  BY <1>4, FS_Singleton

LEMMA GlobalsKept ==
    TypeInv /\ GlobalsInv /\ [Next]_vars => GlobalsInv'
BY PhasesKept, EnteredKept, CheckedKept DEF GlobalsInv, PhasesInv

(* A program that is accepted gives every global variable a name that no   *)
(* other declaration of the global table has: evaluate looks each of them  *)
(* up after all have been entered, and a name entered twice is reported    *)
(* when it is visited, whatever its uninitialised mod holds.               *)
THEOREM GlobalsAlwaysUnique == Spec => []GlobalsAreUnique
<1>1. TypeInv /\ GlobalsInv /\ [Next]_vars => GlobalsInv'
  BY GlobalsKept
<1>2. TypeInv /\ GlobalsInv => GlobalsAreUnique
  BY GlobalsInInv
<1>3. QED
  BY SemaInvariance, InitGlobals, <1>1, <1>2, PTL DEF Spec

-----------------------------------------------------------------------------
(* Uses of names: what assign_type_to_node is called on, and what the      *)
(* look-ups of an identifier answer.                                       *)
AssignDue(n) == \E c \in Due : c.n = n /\ c.do \in {"assign", "enter_assign"}
DueFor(n, d) == \E c \in Due : c.n = n /\ c.do = d
Assigned(n)  == n \in assigned \/ AssignDue(n)

(* Assigning a node assigns its statements, a returned value, and whatever *)
(* AssignCalls makes of the other kinds.                                   *)
LEMMA AssignReaches ==
    ASSUME ast \in Programs, NEW n \in Nodes, NEW t
    PROVE  /\ \A h \in Members(Below(ast.node[n])) : Call("assign", h, t) \in Members(AssignCalls(n, t))
           /\ kind(n) = "return" => Call("assign", kids(n)[1], t) \in Members(AssignCalls(n, t))
           /\ kind(n) = "function_call" => Call("type_call", n, t) \in Members(AssignCalls(n, t))
           /\ kind(n) = "identifier" => Call("resolve", n, t) \in Members(AssignCalls(n, t))
<1> DEFINE nd == ast.node[n]
<1>1. \A x, y, z : /\ y \in Members(<<x, y, z>>) /\ x \in Members(<<x>>)
  <2>1. \A x, y, z : 2 \in DOMAIN <<x, y, z>> /\ <<x, y, z>>[2] = y /\ 1 \in DOMAIN <<x>> /\ <<x>>[1] = x
    OBVIOUS
  <2>2. QED
    BY <2>1, Zenon DEF Members
<1>2. CASE kind(n) = "function_def"
  <2>1. AssignCalls(n, t) = Calls("assign", nd.body \o nd.args, t) /\ Below(nd) = nd.args \o nd.body
    BY <1>2, Zenon DEF AssignCalls, Below, kind
  <2>2. nd.body \in Seq(Nodes) /\ nd.args \in Seq(Nodes)
    BY ListsGoUp DEF NodeLists
  <2>3. Members(Below(nd)) = Members(nd.body \o nd.args)
    <3>1. Members(nd.args \o nd.body) = Members(nd.args) \cup Members(nd.body)
      BY <2>2, JoinedMembers
    <3>2. Members(nd.body \o nd.args) = Members(nd.body) \cup Members(nd.args)
      BY <2>2, JoinedMembers
    <3>3. Members(nd.args \o nd.body) = Members(nd.body \o nd.args)
      BY <3>1, <3>2
    <3>4. QED
      BY <2>1, <3>3, Zenon
  <2>4. QED
    BY <1>2, <2>1, <2>3, CallMembers
<1>3. CASE kind(n) \in {"if", "while", "for", "else"}
  <2>1. AssignCalls(n, t) = Calls("assign", Below(nd), t)
    BY <1>3, Zenon DEF AssignCalls
  <2>2. QED
    BY <1>3, <2>1, CallMembers
<1>4. CASE kind(n) \notin {"function_def", "if", "while", "for", "else"}
  <2>1. Below(nd) = <<>>
    BY <1>4, Zenon DEF Below, kind
  <2>2. Members(Below(nd)) = {}
    BY <2>1 DEF Members
  <2>3. /\ kind(n) = "return" =>
             AssignCalls(n, t) = <<Call("support", kids(n)[1], t), Call("assign", kids(n)[1], t),
                                   Call("push_type", n, t)>>
        /\ kind(n) = "function_call" => AssignCalls(n, t) = <<Call("type_call", n, t)>>
        /\ kind(n) = "identifier" => AssignCalls(n, t) = <<Call("resolve", n, t)>>
    <3>1. kind(n) = "return" =>
             AssignCalls(n, t) = <<Call("support", kids(n)[1], t), Call("assign", kids(n)[1], t),
                                   Call("push_type", n, t)>>
      BY Zenon DEF AssignCalls
    <3>2. kind(n) = "function_call" => AssignCalls(n, t) = <<Call("type_call", n, t)>>
      BY Zenon DEF AssignCalls
    <3>3. kind(n) = "identifier" => AssignCalls(n, t) = <<Call("resolve", n, t)>>
      BY Zenon DEF AssignCalls
    <3>4. QED
      BY <3>1, <3>2, <3>3
  <2>4. QED
    BY <1>1, <2>2, <2>3
<1>5. QED
  BY <1>2, <1>3, <1>4

(* What a handler makes of a call to assign, and of the others.            *)
LEMMA AssignHandled ==
    ASSUME TypeInv, Handler
    PROVE  /\ task.do # "assign" => assigned' = assigned
           /\ task.do = "assign" => /\ assigned' = assigned \cup {task.n} /\ outcome' = outcome
                                    /\ Members(AssignCalls(task.n, task.t)) \subseteq Due'
           /\ task.do = "enter_assign" => Call("assign", task.n, answers[1]) \in Due'
           /\ task.do = "type_call" =>
                \/ outcome' = "crashed"
                \/ \A a \in Members(ast.node[task.n].args) : Call("assign", a, task.t) \in Due'
<1>1. /\ task.n \in Nodes /\ task.t \in live /\ ast \in Programs /\ agenda # <<>> /\ task.do # "collect"
      /\ agenda \in Seq(ToCheck)
  BY TaskIs, NodesAre, HandlerStep DEF Running
<1>2. ASSUME NEW cs, Then(cs)
      PROVE  cs \in Seq(ToCheck) => Members(cs) \subseteq Due'
  BY <1>1, <1>2, DueAfter DEF Then
<1>3. AssignCalls(task.n, task.t) \in Seq(ToCheck)
  BY <1>1, AssignCallsFit
<1>4. task.do # "assign" => assigned' = assigned
  BY DEF Handler, Enter, Derive, AssignLeaf, AssignNode, AssignFunctionDecl, Resolve, Support, Decide,
         PushType, TypeCall, VisitNode, Report, Condition, CheckCall, At, Doing, history
<1>5. ASSUME task.do = "assign"
      PROVE  /\ assigned' = assigned \cup {task.n} /\ outcome' = outcome
             /\ Members(AssignCalls(task.n, task.t)) \subseteq Due'
  <2>1. AssignLeaf \/ AssignNode \/ AssignFunctionDecl
    BY <1>5 DEF Handler, Enter, Derive, Resolve, Support, Decide, Entering,
         PushType, TypeCall, VisitNode, Report, Condition, CheckCall, Doing
  <2>2. assigned' = assigned \cup {task.n} /\ outcome' = outcome
    BY <2>1 DEF AssignLeaf, AssignNode, AssignFunctionDecl, Assigning
  <2>3. CASE AssignNode
    BY <1>2, <1>3, <2>2, <2>3 DEF AssignNode
  <2>4. CASE AssignLeaf \/ AssignFunctionDecl
    <3>1. kind(task.n) \in {"number", "string", "bool", "float", "variable_decl", "variable_def",
                            "function_arg", "function_decl"}
      BY <2>4 DEF AssignLeaf, AssignFunctionDecl, At
    <3>2. AssignCalls(task.n, task.t) = <<>>
      BY <3>1, Zenon DEF AssignCalls
    <3>3. Members(AssignCalls(task.n, task.t)) = {}
      BY <3>2 DEF Members
    <3>4. QED
      BY <2>2, <3>3
  <2>5. QED
    BY <2>1, <2>3, <2>4
<1>6. ASSUME task.do = "enter_assign" PROVE Call("assign", task.n, answers[1]) \in Due'
  <2>1. Enter
    BY <1>6 DEF Handler, Derive, AssignLeaf, AssignNode, AssignFunctionDecl, Resolve, Support, Decide,
         PushType, TypeCall, VisitNode, Report, Condition, CheckCall, At, Doing
  <2>2. Then(<<Call("assign", task.n, answers[1])>>)
    BY <1>6, <2>1 DEF Enter, Doing, Entering
  <2>3. agenda' = <<Call("assign", task.n, answers[1])>> \o Tail(agenda)
    BY <2>2 DEF Then
  <2>4. PICK c : c = Call("assign", task.n, answers[1])
    OBVIOUS
  <2>5. 1 \in DOMAIN agenda' /\ agenda'[1] = c
    <3>1. Tail(agenda) \in Seq(ToCheck)
      BY <1>1
    <3>2. \A s \in Seq(ToCheck) : 1 \in DOMAIN (<<c>> \o s) /\ (<<c>> \o s)[1] = c
      OBVIOUS
    <3>3. QED
      BY <2>3, <2>4, <3>1, <3>2
  <2>6. QED
    BY <2>4, <2>5 DEF Due, Members
<1>7. ASSUME task.do = "type_call"
      PROVE  \/ outcome' = "crashed"
             \/ \A a \in Members(ast.node[task.n].args) : Call("assign", a, task.t) \in Due'
  <2>1. TypeCall
    BY <1>7 DEF Handler, Enter, Derive, AssignLeaf, AssignNode, AssignFunctionDecl, Resolve, Support, Decide,
         PushType, VisitNode, Report, Condition, CheckCall, At, Doing, Entering
  <2>2. CASE outcome' = "crashed"
    BY <2>2
  <2>3. CASE outcome' # "crashed"
    <3>1. Then(Calls("assign", ast.node[task.n].args, task.t))
      BY <2>1, <2>3 DEF TypeCall
    <3>2. Calls("assign", ast.node[task.n].args, task.t) \in Seq(ToCheck)
      BY <1>1, ListsGoUp, CallsFit DEF NodeLists
    <3>3. Members(Calls("assign", ast.node[task.n].args, task.t)) \subseteq Due'
      BY <1>2, <3>1, <3>2
    <3>4. QED
      BY <3>3, CallMembers
  <2>4. QED
    BY <2>2, <2>3
<1>8. QED
  BY <1>4, <1>5, <1>6, <1>7

LEMMA AssignedStays ==
    ASSUME TypeInv, [Next]_vars
    PROVE  assigned \subseteq assigned' /\ \A n : Assigned(n) => Assigned(n)'
<1>1. CASE Collect
  <2>1. assigned' = assigned /\ task.do = "collect" /\ Due \subseteq {task} \cup Due'
    BY <1>1, CollectStep
  <2>2. QED
    BY <2>1 DEF Assigned, AssignDue
<1>2. CASE Handler
  <2>1. Due \subseteq {task} \cup Due'
    BY <1>2, HandlerStep
  <2>2. assigned \subseteq assigned'
    BY <1>2, AssignHandled
  <2>3. ASSUME NEW n, n = task.n, task.do \in {"assign", "enter_assign"} PROVE Assigned(n)'
    <3>1. \/ n \in assigned'
          \/ Call("assign", n, answers[1]) \in Due'
      BY <1>2, <2>3, AssignHandled
    <3>2. n \in assigned' => Assigned(n)'
      BY DEF Assigned
    <3>3. ASSUME NEW c \in Due', c = Call("assign", n, answers[1]) PROVE AssignDue(n)'
      BY <3>3 DEF AssignDue, Call
    <3>4. QED
      BY <3>1, <3>2, <3>3 DEF Assigned
  <2>4. ASSUME NEW n, Assigned(n) PROVE Assigned(n)'
    <3>1. CASE n \in assigned
      BY <2>2, <3>1 DEF Assigned
    <3>2. CASE AssignDue(n)
      <4>1. PICK c \in Due : c.n = n /\ c.do \in {"assign", "enter_assign"}
        BY <3>2 DEF AssignDue
      <4>2. c \in Due' => AssignDue(n)'
        BY <4>1 DEF AssignDue
      <4>3. QED
        BY <2>1, <2>3, <4>1, <4>2 DEF Assigned
    <3>3. QED
      BY <2>4, <3>1, <3>2 DEF Assigned
  <2>5. QED
    BY <2>2, <2>4
<1>3. CASE PopAssign \/ PopVisit \/ Finish
  BY <1>3, PopStep DEF Assigned, AssignDue
<1>4. CASE Ask \/ Quiet
  BY <1>4, AskStep, QuietKeeps DEF Assigned, AssignDue
<1>5. QED
  BY <1>1, <1>2, <1>3, <1>4, Steps

(* The nodes that have been reached, as long as the walk goes on.          *)
UsesReached ==
    /\ \A n \in Members(ast.top) : n \in Members(stack_assign) \/ Assigned(n)
    /\ \A g \in assigned : \A h \in Members(Below(ast.node[g])) : Assigned(h)
    /\ \A g \in assigned : kind(g) = "return" => Assigned(kids(g)[1])
    /\ outcome # "crashed" => \A g \in assigned : kind(g) = "function_call" =>
          DueFor(g, "type_call") \/ \A a \in Members(ast.node[g].args) : Assigned(a)
    /\ \A n \in assigned : kind(n) = "identifier" =>
          DueFor(n, "resolve") \/ error_count > 0 \/ resolved[n] # Null

(* The four look-ups of an identifier ask twice what is known by then:     *)
(* none of them changes what the others answer.                            *)
Asked(k) == IF k \in {1, 3} THEN task.t ELSE Root
UsesAnswered ==
    (Running /\ task.do = "resolve") =>
        \A k \in DOMAIN answers : answers[k] = ST!GetAnswer(Asked(k), name(task.n))

UsesInv == PhasesInv /\ UsesReached /\ UsesAnswered

LEMMA InitUses == Init => UsesInv
<1> SUFFICES ASSUME Init PROVE UsesInv
  OBVIOUS
<1>1. UsesReached
  BY DEF Init, UsesReached
<1>2. UsesAnswered
  BY DEF Init, UsesAnswered
<1>3. QED
  BY <1>1, <1>2, InitPhases DEF UsesInv

LEMMA UsesAnsweredKept == TypeInv /\ UsesAnswered /\ [Next]_vars => UsesAnswered'
<1> SUFFICES ASSUME TypeInv, UsesAnswered, [Next]_vars PROVE UsesAnswered'
  OBVIOUS
<1>1. CASE answers' = <<>>
  BY <1>1 DEF UsesAnswered
<1>2. CASE Quiet
  <2>1. task' = task /\ UNCHANGED <<ast, agenda, answers>>
    BY <1>2, QuietKeeps
  <2>2. ASSUME Running, task.do = "resolve", NEW m, m = name(task.n), NEW k
        PROVE  ST!GetAnswer(Asked(k), m)' = ST!GetAnswer(Asked(k), m)
    <3>1. Tab!ForestInv /\ Tab!ForestInv' /\ Root \in live /\ task.t \in live /\ Fits(task) /\ task.n \in Nodes
          /\ ast \in Programs
      BY <2>2, NextTypes, NodesAre, TaskIs DEF TypeInv, TablesOK
    <3>2. m \in Names
      BY <2>2, <3>1, Shapes DEF Fits, NamedKinds
    <3>3. PICK t : t = Asked(k)
      OBVIOUS
    <3>4. t \in live /\ Asked(k)' = t
      BY <2>1, <3>1, <3>3 DEF Asked
    <3>5. Tab!GetAnswer(t, m)' = Tab!GetAnswer(t, m)
      <4>1. live' = live /\ qa' = qa /\ parent' = parent /\ underlying' = underlying
        BY <1>2, QuietKeeps
      <4>2. QED
        BY <3>1, <3>2, <3>4, <4>1, Tab!SameLinksSameAnswers, TableAssumption
    <3>6. ST!GetAnswer(t, m)' = Tab!GetAnswer(t, m)' /\ ST!GetAnswer(t, m) = Tab!GetAnswer(t, m)
      BY Zenon DEF ST!GetAnswer, Tab!GetAnswer, ST!Handles, Tab!Handles, ST!Visible, Tab!Visible,
         ST!Matches, Tab!Matches, ST!Absent, Tab!Absent, ST!create_qualified_name, Tab!create_qualified_name
    <3>7. ST!GetAnswer(Asked(k), m)' = ST!GetAnswer(t, m)'
      BY <3>4, Zenon DEF ST!GetAnswer, ST!Handles, ST!Visible, ST!Matches, ST!Absent, ST!create_qualified_name
    <3>8. QED
      BY <3>3, <3>5, <3>6, <3>7
  <2>4. \A n : name(n)' = name(n)
    BY <2>1 DEF name
  <2>5. QED
    <3>1. Running' => Running
      BY <1>2, QuietKeeps
    <3>2. QED
      BY <2>1, <2>2, <2>4, <3>1 DEF UsesAnswered
<1>3. CASE Ask
  <2>1. task' = task /\ agenda' = agenda /\ agenda # <<>> /\ ast' = ast /\ Running /\ live' = live
        /\ Tab!ForestInv /\ Tab!ForestInv'
    BY <1>3, AskStep DEF Running
  <2>2. ASSUME task.do = "resolve", NEW m, m = name(task.n)
        PROVE  \A k \in DOMAIN answers' : answers'[k] = ST!GetAnswer(Asked(k), m)'
    <3> DEFINE k == Len(answers) + 1
               t == LookUps(task)[k].t
    <3>1. /\ k \in 1..Len(LookUps(task)) /\ t \in live /\ task.t \in live /\ Root \in live /\ m \in Names
          /\ Tab!get(t, m) /\ answers' = Append(answers, ST!GetAnswer(t, m))
      BY <1>3, <2>2, AskGets, TablesAre
    <3>2. LookUps(task) = <<Look("get", task.t), Look("get", Root), Look("get", task.t), Look("get", Root)>>
      BY <2>2, LookUpsAre
    <3>3. t = Asked(k)
      <4>1. \A i \in 1..4 : LookUps(task)[i].t = IF i \in {1, 3} THEN task.t ELSE Root
        BY <3>2 DEF Look
      <4>2. k \in 1..4
        BY <3>1, <3>2
      <4>3. QED
        BY <4>1, <4>2 DEF Asked
    <3>4. \A u \in live : Tab!GetAnswer(u, m)' = Tab!GetAnswer(u, m)
      <4> HIDE DEF t, k
      <4>1. QED
        BY <2>1, <3>1, Tab!GetKeepsAnswers, TableAssumption
    <3>5. \A u \in live : ST!GetAnswer(u, m)' = ST!GetAnswer(u, m)
      <4>1. ASSUME NEW u \in live PROVE ST!GetAnswer(u, m)' = Tab!GetAnswer(u, m)'
        BY Zenon DEF ST!GetAnswer, Tab!GetAnswer, ST!Handles, Tab!Handles, ST!Visible, Tab!Visible,
           ST!Matches, Tab!Matches, ST!Absent, Tab!Absent, ST!create_qualified_name, Tab!create_qualified_name
      <4>2. \A u \in live : ST!GetAnswer(u, m) = Tab!GetAnswer(u, m)
        BY SameAnswers
      <4>3. QED
        BY <3>4, <4>1, <4>2
    <3>6. \A i : Asked(i)' = Asked(i) /\ Asked(i) \in live
      BY <2>1, <3>1 DEF Asked
    <3>7. \A i \in DOMAIN answers : answers[i] = ST!GetAnswer(Asked(i), m)
      BY <2>1, <2>2 DEF UsesAnswered
    <3>8. /\ DOMAIN answers' = 1..k /\ answers'[k] = ST!GetAnswer(t, m)
          /\ \A i \in 1..k : i = k \/ (i \in DOMAIN answers /\ answers'[i] = answers[i])
      <4>1. PICK S : S = live \cup {Null}
        OBVIOUS
      <4>2. answers \in Seq(S)
        BY <4>1, NodesAre
      <4>3. PICK x : x = ST!GetAnswer(t, m)
        OBVIOUS
      <4>4. answers' = Append(answers, x)
        BY <3>1, <4>3
      <4> HIDE DEF t
      <4>5. QED
        BY <4>2, <4>3, <4>4
    <3>9. ASSUME NEW i \in DOMAIN answers' PROVE answers'[i] = ST!GetAnswer(Asked(i), m)
      <4> HIDE DEF t, k
      <4>1. QED
        BY <3>3, <3>7, <3>8, <3>9
    <3> HIDE DEF t, k
    <3>10. ASSUME NEW i \in DOMAIN answers' PROVE answers'[i] = ST!GetAnswer(Asked(i), m)'
      <4>1. PICK u : u = Asked(i)
        OBVIOUS
      <4>2. u \in live /\ Asked(i)' = u
        BY <3>6, <4>1
      <4>3. ST!GetAnswer(Asked(i), m)' = ST!GetAnswer(u, m)'
        BY <4>2, Zenon DEF ST!GetAnswer, ST!Handles, ST!Visible, ST!Matches, ST!Absent, ST!create_qualified_name
      <4>4. QED
        BY <3>5, <3>9, <4>1, <4>2, <4>3
    <3>11. QED
      BY <3>10
  <2>3. \A n : name(n)' = name(n)
    BY <2>1 DEF name
  <2>4. QED
    BY <2>1, <2>2, <2>3 DEF UsesAnswered
<1>4. QED
  BY <1>1, <1>2, <1>3, Steps, CollectStep, HandlerStep, PopStep

(* What a resolve finds: a table, or else it counts an error.              *)
LEMMA ResolveFinds ==
    ASSUME TypeInv, UsesAnswered, Resolve
    PROVE  error_count' > 0 \/ resolved'[task.n] # Null
<1>1. Running /\ task.do = "resolve" /\ Answered /\ error_count \in Nat /\ task.n \in Nodes
      /\ resolved \in [Nodes -> live \cup {Null}]
  BY NodesAre, TaskIs DEF Resolve, Doing
<1>2. Len(answers) = 4
  <2>1. LookUps(task) = <<Look("get", task.t), Look("get", Root), Look("get", task.t), Look("get", Root)>>
    BY <1>1, LookUpsAre
  <2>2. QED
    BY <1>1, <2>1 DEF Answered
<1>3. \A k \in 1..4 : answers[k] = ST!GetAnswer(Asked(k), name(task.n))
  <2>1. \A k \in 1..4 : k \in DOMAIN answers
    BY <1>2, AnswerIs
  <2>2. QED
    BY <1>1, <2>1 DEF UsesAnswered
<1>4. answers[3] = answers[1] /\ answers[4] = answers[2]
  BY <1>3 DEF Asked
<1>5. CASE Undeclared(answers[1], answers[2])
  <2>1. Errors(<<TRUE>>)
    BY <1>5 DEF Resolve, Undeclared
  <2>2. DOMAIN <<TRUE>> \subseteq 1..1 /\ 1 \in DOMAIN <<TRUE>> /\ <<TRUE>>[1]
    OBVIOUS
  <2>3. error_count' > error_count /\ error_count' \in Nat
    BY <1>1, <2>1, <2>2, ErrorsGrow
  <2>4. QED
    BY <1>1, <2>3
<1>6. CASE ~Undeclared(answers[1], answers[2])
  <2>1. resolved' = [resolved EXCEPT ![task.n] = Preferred(answers[3], answers[4])]
    BY DEF Resolve
  <2>2. Preferred(answers[3], answers[4]) # Null
    BY <1>4, <1>6 DEF Undeclared, Preferred
  <2>3. QED
    BY <1>1, <2>1, <2>2
<1>7. QED
  BY <1>5, <1>6

LEMMA OthersResolveNothing ==
    ASSUME TypeInv, Handler, ~Resolve
    PROVE  resolved' = resolved /\ task.do # "resolve"
BY DEF Handler, Enter, Derive, AssignLeaf, AssignNode, AssignFunctionDecl, Resolve, Support, Decide, Entering,
       PushType, TypeCall, VisitNode, Report, Condition, CheckCall, At, Doing, history

(* A call that is due stays due until it is taken.                         *)
LEMMA DueStays ==
    ASSUME TypeInv, [Next]_vars
    PROVE  \A c \in Due : c \in Due' \/ (c = task /\ Handler) \/ (c = task /\ c.do = "collect")
<1>1. CASE Collect
  BY <1>1, CollectStep
<1>2. CASE Handler
  BY <1>2, HandlerStep
<1>3. CASE PopAssign \/ PopVisit \/ Finish
  BY <1>3, PopStep
<1>4. CASE Ask \/ Quiet
  BY <1>4, AskStep, QuietKeeps
<1>5. QED
  BY <1>1, <1>2, <1>3, <1>4, Steps

LEMMA NewlyAssigned ==
    ASSUME TypeInv, [Next]_vars, NEW g \in assigned', g \notin assigned
    PROVE  Handler /\ task.do = "assign" /\ g = task.n /\ outcome' = outcome
           /\ Members(AssignCalls(g, task.t)) \subseteq Due'
<1>1. CASE Collect \/ Ask \/ PopAssign \/ PopVisit \/ Finish \/ Quiet
  BY <1>1, CollectStep, AskStep, PopStep, QuietKeeps
<1>2. CASE Handler
  BY <1>2, AssignHandled
<1>3. QED
  BY <1>1, <1>2, Steps

(* The nodes on stack_assign are there until they are taken.               *)
LEMMA StackAssigns ==
    ASSUME TypeInv, [Next]_vars, NEW n \in Members(stack_assign)
    PROVE  n \in Members(stack_assign') \/ AssignDue(n)'
<1>1. stack_assign \in Seq(Stacked) /\ ast \in Programs
  BY NodesAre
<1>2. CASE stack_assign' = stack_assign
  BY <1>2
<1>3. CASE PopAssign
  <2> DEFINE k == Len(stack_assign)
             m == stack_assign[k]
             d == IF kind(m) = "function_def" THEN Entering("assign") ELSE "assign"
  <2>1. /\ agenda' = <<Call(d, m, Root)>> \o <<Call("derive", m, Root)>>
        /\ stack_assign' = SubSeq(stack_assign, 1, k - 1) /\ stack_assign # <<>>
    BY <1>3 DEF PopAssign, Entry
  <2>2. k \in Nat \ {0} /\ DOMAIN stack_assign = 1..k
    BY <1>1, <2>1
  <2>3. PICK i \in 1..k : stack_assign[i] = n
    BY <2>2 DEF Members
  <2>4. CASE i = k
    <3>1. 1 \in DOMAIN agenda' /\ agenda'[1] = Call(d, m, Root)
      <4> HIDE DEF d, m
      <4>1. QED
        BY <2>1
    <3>2. PICK c : c = Call(d, m, Root)
      OBVIOUS
    <3>3. c \in Due' /\ c.n = n /\ c.do \in {"assign", "enter_assign"}
      BY <2>3, <2>4, <3>1, <3>2 DEF Due, Members, Call, Entering
    <3>4. QED
      BY <3>3 DEF AssignDue
  <2>5. CASE i # k
    <3>1. i \in DOMAIN SubSeq(stack_assign, 1, k - 1) /\ SubSeq(stack_assign, 1, k - 1)[i] = n
      <4>1. \A s \in Seq(Stacked) : \A j \in 1..(Len(s) - 1) :
               j \in DOMAIN SubSeq(s, 1, Len(s) - 1) /\ SubSeq(s, 1, Len(s) - 1)[j] = s[j]
        OBVIOUS
      <4>2. i \in 1..(Len(stack_assign) - 1)
        <5>1. \A q \in Nat : \A j \in 1..q : j # q => j \in 1..(q - 1)
          OBVIOUS
        <5>2. QED
          BY <2>2, <2>3, <2>5, <5>1
      <4>3. QED
        BY <1>1, <2>3, <4>1, <4>2
    <3>2. QED
      BY <2>1, <3>1 DEF Members
  <2>6. QED
    BY <2>4, <2>5
<1>4. CASE Derive
  <2>1. stack_assign' = stack_assign \o kids(task.n) /\ task.n \in Nodes
    BY <1>4, TaskIs DEF Derive, Pushed, Doing
  <2>2. stack_assign \in Seq(Nodes) /\ kids(task.n) \in Seq(Nodes)
    <3>1. Stacked \subseteq Nodes
      BY DEF Stacked
    <3>2. QED
      BY <1>1, <2>1, <3>1, SeqsGrow, KidsGoUp
  <2>3. QED
    BY <2>1, <2>2, JoinedMembers
<1>5. PopAssign \/ Derive \/ stack_assign' = stack_assign
  <2>1. CASE Collect \/ Ask \/ Quiet
    BY <2>1, CollectStep, AskStep, QuietKeeps
  <2>2. CASE Handler \/ PopVisit \/ Finish
    BY <2>2 DEF Handler, Enter, AssignLeaf, AssignNode, AssignFunctionDecl, Resolve, Support, Decide, rest,
       PushType, TypeCall, VisitNode, Report, Condition, CheckCall, PopVisit, Finish, stacks
  <2>3. QED
    BY <2>1, <2>2, Steps
<1>6. QED
  BY <1>2, <1>3, <1>4, <1>5

LEMMA ReachedKept ==
    TypeInv /\ UsesReached /\ UsesAnswered /\ [Next]_vars => UsesReached'
<1> SUFFICES ASSUME TypeInv, UsesReached, UsesAnswered, [Next]_vars PROVE UsesReached'
  OBVIOUS
<1>1. ast' = ast /\ (\A n : kind(n)' = kind(n)) /\ ast \in Programs /\ assigned \subseteq Nodes
  <2>1. ast' = ast
    BY CollectStep, AskStep, HandlerStep, PopStep, QuietKeeps, Steps
  <2>2. QED
    BY <2>1, NodesAre DEF kind
<1>2. \A n : Assigned(n) => Assigned(n)'
  BY AssignedStays
<1>3. ASSUME NEW g \in assigned', g \notin assigned
      PROVE  /\ Handler /\ g = task.n /\ g \in Nodes /\ outcome' = outcome
             /\ \A h \in Members(Below(ast.node[g])) : Call("assign", h, task.t) \in Due'
             /\ kind(g) = "return" => Call("assign", kids(g)[1], task.t) \in Due'
             /\ kind(g) = "function_call" => Call("type_call", g, task.t) \in Due'
             /\ kind(g) = "identifier" => Call("resolve", g, task.t) \in Due'
  <2>1. Handler /\ g = task.n /\ outcome' = outcome /\ Members(AssignCalls(g, task.t)) \subseteq Due'
    BY <1>3, NewlyAssigned
  <2>2. g \in Nodes
    BY <2>1, TaskIs, HandlerStep
  <2>3. QED
    BY <1>1, <2>1, <2>2, AssignReaches
<1>4. \A n, t : Call("assign", n, t) \in Due' => Assigned(n)'
  <2>1. \A n, t : Call("assign", n, t).n = n /\ Call("assign", n, t).do = "assign"
    BY DEF Call
  <2>2. QED
    BY <2>1 DEF Assigned, AssignDue
<1>5. \A n, t, d : Call(d, n, t) \in Due' => DueFor(n, d)'
  <2>1. \A n, t, d : Call(d, n, t).n = n /\ Call(d, n, t).do = d
    BY DEF Call
  <2>2. QED
    BY <2>1 DEF DueFor
<1>6. \A n \in Members(ast'.top) : n \in Members(stack_assign') \/ Assigned(n)'
  BY <1>1, <1>2, StackAssigns DEF UsesReached, Assigned
<1>7. \A g \in assigned' : \A h \in Members(Below(ast'.node[g])) : Assigned(h)'
  BY <1>1, <1>2, <1>3, <1>4 DEF UsesReached
<1>8. \A g \in assigned' : kind(g)' = "return" => Assigned(kids(g)[1])'
  <2>1. ASSUME NEW g \in assigned', kind(g) = "return", NEW h, h = kids(g)[1] PROVE Assigned(h)'
    BY <1>2, <1>3, <1>4, <2>1 DEF UsesReached
  <2>2. \A g : kids(g)' = kids(g)
    BY <1>1 DEF kids
  <2>3. QED
    BY <1>1, <2>1, <2>2 DEF Assigned, AssignDue
<1>9. ASSUME outcome' # "crashed", NEW g \in assigned', kind(g) = "function_call"
      PROVE  DueFor(g, "type_call")' \/ \A a \in Members(ast.node[g].args) : Assigned(a)'
  <2>1. CASE g \notin assigned
    BY <1>3, <1>5, <1>9, <2>1
  <2>2. CASE g \in assigned
    <3>1. outcome # "crashed"
      BY <1>9, CollectStep, AskStep, HandlerStep, PopStep, QuietKeeps, Steps DEF Running
    <3>2. CASE \A a \in Members(ast.node[g].args) : Assigned(a)
      BY <1>2, <3>2
    <3>3. CASE DueFor(g, "type_call")
      <4>1. PICK c \in Due : c.n = g /\ c.do = "type_call"
        BY <3>3 DEF DueFor
      <4>2. CASE c \in Due'
        BY <4>1, <4>2 DEF DueFor
      <4>3. CASE c = task /\ Handler
        <5>1. \A a \in Members(ast.node[g].args) : Call("assign", a, task.t) \in Due'
          BY <1>9, <4>1, <4>3, AssignHandled
        <5>2. QED
          BY <1>4, <5>1
      <4>4. QED
        BY <4>1, <4>2, <4>3, DueStays
    <3>4. QED
      BY <1>9, <2>2, <3>1, <3>2, <3>3 DEF UsesReached
  <2>3. QED
    BY <2>1, <2>2
<1>10. ASSUME NEW n \in assigned', kind(n) = "identifier"
       PROVE  DueFor(n, "resolve")' \/ error_count' > 0 \/ resolved'[n] # Null
  <2>1. CASE n \notin assigned
    BY <1>3, <1>5, <1>10, <2>1
  <2>2. CASE Resolve /\ n = task.n
    BY <2>2, ResolveFinds
  <2>3. CASE n \in assigned /\ ~(Resolve /\ n = task.n)
    <3>1. resolved'[n] = resolved[n]
      <4>1. CASE Resolve
        BY <1>1, <2>3, <4>1, NodesAre DEF Resolve
      <4>2. CASE ~Resolve
        BY <4>2, OthersResolveNothing, CollectStep, AskStep, PopStep, QuietKeeps, Steps
      <4>3. QED
        BY <4>1, <4>2
    <3>2. error_count > 0 => error_count' > 0
      BY ErrorsStay, NodesAre
    <3>3. ASSUME DueFor(n, "resolve") PROVE DueFor(n, "resolve")'
      <4>1. PICK c \in Due : c.n = n /\ c.do = "resolve"
        BY <3>3 DEF DueFor
      <4>2. c \in Due'
        BY <2>3, <4>1, DueStays, OthersResolveNothing
      <4>3. QED
        BY <4>1, <4>2 DEF DueFor
    <3>4. QED
      BY <1>10, <2>3, <3>1, <3>2, <3>3 DEF UsesReached
  <2>4. QED
    BY <2>1, <2>2, <2>3
<1>11. QED
  BY <1>1, <1>6, <1>7, <1>8, <1>9, <1>10 DEF UsesReached

(* Statements are held by statements.                                      *)
LEMMA HolderIsStatement ==
    ASSUME ast \in Programs, NEW n \in Nodes, kind(n) \notin ValueKinds \cup {"function_arg"}, ~TopLevel(n)
    PROVE  \E h \in Nodes : h < n /\ n \in Members(Below(ast.node[h])) /\ kind(h) \notin ValueKinds \cup {"function_arg"}
<1>1. PICK h \in Nodes : \E l \in NodeLists(ast.node[h]) : n \in Members(l)
  BY Whole DEF IsProgram, TopLevel, HoldersIn, Nodes
<1>2. PICK l \in NodeLists(ast.node[h]) : n \in Members(l)
  BY <1>1
<1>3. /\ \A m \in Members(ast.node[h].children) : kind(m) \in ValueKinds
      /\ kind(h) \in {"function_call", "assignment"} => \A m \in Members(ast.node[h].args) : kind(m) \in ValueKinds
      /\ kind(h) \in {"function_def", "function_decl"} => \A m \in Members(ast.node[h].args) : kind(m) = "function_arg"
      /\ kind(h) \notin WithArgs => ast.node[h].args = <<>>
      /\ kind(h) \notin WithBody => ast.node[h].body = <<>>
      /\ kind(h) # "if" => ast.node[h].alternate = <<>>
  BY Whole DEF IsProgram, kind, Nodes
<1>4. Members(<<>>) = {}
  BY DEF Members
<1>5. \/ n \in Members(ast.node[h].body) /\ kind(h) \in WithBody
      \/ n \in Members(ast.node[h].alternate) /\ kind(h) = "if"
  BY <1>2, <1>3, <1>4 DEF NodeLists, WithArgs
<1>6. n \in Members(Below(ast.node[h]))
  <2> DEFINE nd == ast.node[h]
  <2>1. nd.body \in Seq(Nodes) /\ nd.args \in Seq(Nodes) /\ nd.alternate \in Seq(Nodes)
    BY ListsGoUp DEF NodeLists
  <2>2. CASE kind(h) = "function_def"
    <3>1. Below(nd) = nd.args \o nd.body
      BY <2>2, Zenon DEF Below, kind
    <3>2. QED
      BY <1>5, <2>1, <2>2, <3>1, JoinedMembers
  <2>3. CASE kind(h) = "if"
    <3>1. Below(nd) = nd.body \o nd.alternate
      BY <2>3, Zenon DEF Below, kind
    <3>2. QED
      BY <1>5, <2>1, <3>1, JoinedMembers
  <2>4. CASE kind(h) \in {"else", "for", "while"}
    <3>1. Below(nd) = nd.body
      BY <2>4, Zenon DEF Below, kind
    <3>2. QED
      BY <1>5, <2>4, <3>1
  <2>5. QED
    BY <1>5, <2>2, <2>3, <2>4 DEF WithBody
<1>7. h < n
  BY <1>2, ListsGoUp DEF Members
<1>8. QED
  BY <1>5, <1>6, <1>7 DEF WithBody, ValueKinds

(* At the end everything that is a statement has been assigned.            *)
LEMMA StatementsAssigned ==
    ASSUME TypeInv, UsesReached, agenda = <<>>, stack_assign = <<>>
    PROVE  \A n \in Nodes : Statement(n) /\ kind(n) \notin {"function_arg"} => n \in assigned
<1>1. Due = {} /\ Members(stack_assign) = {} /\ ast \in Programs
  BY NoneDue, NodesAre DEF Members
<1>2. /\ Members(ast.top) \subseteq assigned
      /\ \A g \in assigned : \A h \in Members(Below(ast.node[g])) : h \in assigned
  BY <1>1 DEF UsesReached, Assigned, AssignDue
<1>3. Last \in Nat /\ Nodes = 1..Last
  BY <1>1, Numbered
<1> DEFINE Compound == {n \in Nodes : kind(n) \notin ValueKinds \cup {"function_arg"}}
           rank == [n \in Compound |-> n]
<1>4. rank \in [Compound -> Nat]
  BY <1>3
<1>5. ASSUME NEW m \in Compound, \A k \in Compound : rank[k] < rank[m] => k \in assigned
      PROVE  m \in assigned
  <2>1. CASE TopLevel(m)
    BY <1>2, <2>1 DEF TopLevel
  <2>2. CASE ~TopLevel(m)
    <3>1. PICK h \in Nodes : h < m /\ m \in Members(Below(ast.node[h])) /\ h \in Compound
      BY <1>1, <2>2, HolderIsStatement
    <3>2. h \in assigned
      BY <1>5, <3>1
    <3>3. QED
      BY <1>2, <3>1, <3>2
  <2>3. QED
    BY <2>1, <2>2
<1>6. Compound \subseteq assigned
  <2> HIDE DEF Compound, rank
  <2>1. QED
    BY <1>4, <1>5, ByRank
<1>7. ASSUME NEW n \in Nodes, NEW h \in Nodes, n \in Members(Below(ast.node[h])) PROVE h \in Compound
  <2>1. Below(ast.node[h]) # <<>>
    BY <1>7 DEF Members
  <2>2. kind(h) \in {"function_def", "if", "else", "for", "while"}
    BY <2>1, Zenon DEF Below, kind
  <2>3. QED
    BY <2>2 DEF ValueKinds
<1>8. QED
  BY <1>2, <1>6, <1>7 DEF Statement, TopLevel

LEMMA UsesInInv == TypeInv /\ UsesInv => AcceptedUsesAreDeclared
<1> SUFFICES ASSUME TypeInv, UsesInv, outcome = "accepted", NEW n \in Named({"identifier"}),
                    NEW h \in Holders(n), kind(h) \in {"return", "function_call"}, Statement(h)
             PROVE  resolved[n] # Null
  BY DEF AcceptedUsesAreDeclared
<1>1. agenda = <<>> /\ stack_assign = <<>> /\ error_count = 0 /\ Due = {} /\ ast \in Programs
  BY NoneDue, NodesAre DEF UsesInv, PhasesInv
<1>2. h \in assigned /\ h \in Nodes /\ n \in Nodes
  BY <1>1, StatementsAssigned DEF UsesInv, Named, Holders, HoldersIn, Nodes
<1>3. PICK l \in NodeLists(ast.node[h]) : n \in Members(l)
  BY DEF Holders, HoldersIn
<1>4. /\ kind(h) = "function_call" => ast.node[h].children = <<>>
      /\ kind(h) \notin WithArgs => ast.node[h].args = <<>>
      /\ kind(h) \notin WithBody => ast.node[h].body = <<>>
      /\ kind(h) # "if" => ast.node[h].alternate = <<>>
      /\ kind(h) = "return" => Len(kids(h)) = 1
  BY <1>1, <1>2, Whole DEF IsProgram, kind, Nodes, kids
<1>5. Members(<<>>) = {}
  BY DEF Members
<1>6. CASE kind(h) = "return"
  <2>1. n \in Members(kids(h))
    BY <1>3, <1>4, <1>5, <1>6 DEF NodeLists, WithArgs, WithBody, kids
  <2>2. DOMAIN kids(h) = 1..1
    BY <1>1, <1>2, <1>4, <1>6, KidsGoUp
  <2>3. n = kids(h)[1]
    BY <2>1, <2>2 DEF Members
  <2>4. n \in assigned
    BY <1>1, <1>2, <1>6, <2>3 DEF UsesInv, UsesReached, Assigned, AssignDue
  <2>5. QED
    BY <1>1, <2>4 DEF UsesInv, UsesReached, Named, DueFor
<1>7. CASE kind(h) = "function_call"
  <2>1. n \in Members(ast.node[h].args)
    BY <1>3, <1>4, <1>5, <1>7 DEF NodeLists, WithArgs, WithBody
  <2>2. n \in assigned
    BY <1>1, <1>2, <1>7, <2>1 DEF UsesInv, UsesReached, Assigned, AssignDue, DueFor
  <2>3. QED
    BY <1>1, <2>2 DEF UsesInv, UsesReached, Named, DueFor
<1>8. QED
  BY <1>6, <1>7

(* In a program that is accepted a name that a return, or a call that is a *)
(* statement, uses is declared: assign_type_to_node reaches every          *)
(* statement, its look-ups agree with one another, and what they do not    *)
(* find is counted.                                                        *)
THEOREM UsesAlwaysDeclared == Spec => []AcceptedUsesAreDeclared
<1>1. TypeInv /\ UsesInv /\ [Next]_vars => UsesInv'
  BY PhasesKept, ReachedKept, UsesAnsweredKept DEF UsesInv
<1>2. QED
  BY SemaInvariance, InitUses, <1>1, UsesInInv, PTL DEF Spec

-----------------------------------------------------------------------------
(* Nodes and the functions around them.                                    *)
Depth == [m \in Nodes |-> m]

LEMMA FromAbove ==
    ASSUME ast \in Programs, NEW P,
           \A m \in Nodes : (\A k \in Nodes : k < m => k \in P) => m \in P
    PROVE  Nodes \subseteq P
<1>1. Last \in Nat /\ Nodes = 1..Last
  BY Numbered
<1>2. Depth \in [Nodes -> Nat] /\ \A k, m \in Nodes : Depth[k] < Depth[m] <=> k < m
  BY <1>1 DEF Depth
<1>3. QED
  BY <1>2, ByRank

LEMMA DefinedFromAbove ==
    ASSUME ast \in Programs, NEW V, V # {}, NEW step \in [Nodes -> [[Nodes -> V] -> V]],
           \A m \in Nodes : \A f, g \in [Nodes -> V] :
             (\A k \in Nodes : k < m => f[k] = g[k]) => step[m][f] = step[m][g]
    PROVE  \E f : Fixpoint(Nodes, V, step, f)
<1>1. Last \in Nat /\ Nodes = 1..Last
  BY Numbered
<1>2. Depth \in [Nodes -> 0..Last] /\ \A k, m \in Nodes : Depth[k] < Depth[m] <=> k < m
  BY <1>1 DEF Depth
<1>3. \A m \in Nodes : \A f, g \in [Nodes -> V] :
         (\A k \in Nodes : Depth[k] < Depth[m] => f[k] = g[k]) => step[m][f] = step[m][g]
  <2>1. ASSUME NEW m \in Nodes, NEW f \in [Nodes -> V], NEW g \in [Nodes -> V],
               \A k \in Nodes : Depth[k] < Depth[m] => f[k] = g[k]
        PROVE  step[m][f] = step[m][g]
    <3>1. \A k \in Nodes : k < m => f[k] = g[k]
      BY <1>2, <2>1
    <3>2. QED
      BY <3>1
  <2>2. QED
    BY <2>1
<1>4. StepsDown(Nodes, V, Last, Depth, step)
  BY <1>1, <1>2, <1>3 DEF StepsDown
<1>5. QED
  BY <1>4, Recursion

LEMMA HoldersAbove ==
    ASSUME ast \in Programs, NEW m
    PROVE  Holders(m) \subseteq Nodes /\ \A h \in Holders(m) : h < m
<1>1. ASSUME NEW h \in Holders(m) PROVE h \in Nodes /\ h < m
  <2>1. h \in Nodes
    BY <1>1 DEF Holders, HoldersIn, Nodes
  <2>2. PICK l \in NodeLists(ast.node[h]) : m \in Members(l)
    BY <1>1 DEF Holders, HoldersIn
  <2>3. QED
    BY <2>1, <2>2, ListsGoUp DEF Members
<1>2. QED
  BY <1>1

LEMMA AroundIs ==
    ASSUME ast \in Programs, NEW n \in Nodes
    PROVE  Around(n) = Holders(n) \cup UNION {Around(h) : h \in Holders(n)} /\ Around(n) \subseteq Nodes
<1> DEFINE Step(f, m) == Holders(m) \cup UNION {f[h] : h \in Holders(m)}
           Is(f) == f = [m \in Nodes |-> Step(f, m)]
           up == CHOOSE f : Is(f)
           V == SUBSET Nodes
           step == [m \in Nodes |-> [f \in [Nodes -> V] |-> Step(f, m)]]
<1>1. \A m \in Nodes : Holders(m) \subseteq Nodes /\ \A h \in Holders(m) : h < m
  BY HoldersAbove
<1>2. \A m \in Nodes : Around(m) = up[m]
  BY DEF Around
<1>3. step \in [Nodes -> [[Nodes -> V] -> V]]
  BY <1>1
<1>4. ASSUME NEW m \in Nodes, NEW f \in [Nodes -> V], NEW g \in [Nodes -> V],
             \A k \in Nodes : k < m => f[k] = g[k]
      PROVE  step[m][f] = step[m][g]
  BY <1>1, <1>4
<1>5. Is(up)
  <2>1. PICK f : Fixpoint(Nodes, V, step, f)
    <3>1. V # {}
      OBVIOUS
    <3> HIDE DEF V, step
    <3>2. QED
      BY <1>3, <1>4, <3>1, DefinedFromAbove
  <2>2. f \in [Nodes -> V] /\ \A m \in Nodes : f[m] = Step(f, m)
    BY <2>1 DEF Fixpoint
  <2> HIDE DEF Step
  <2>3. Is(f)
    BY <2>2
  <2> HIDE DEF Is
  <2>4. QED
    BY <2>3
<1> DEFINE P == {m \in Nodes : up[m] \subseteq Nodes}
<1> HIDE DEF up
<1>6. \A m \in Nodes : up[m] = Step(up, m)
  BY <1>5
<1>7. Nodes \subseteq P
  <2>1. ASSUME NEW m \in Nodes, \A k \in Nodes : k < m => k \in P
        PROVE  m \in P
    BY <1>1, <1>6, <2>1
  <2> HIDE DEF P
  <2>2. QED
    BY <2>1, FromAbove
<1>8. QED
  BY <1>1, <1>2, <1>6, <1>7

LEMMA FunctionsAre ==
    ASSUME ast \in Programs, NEW n \in Nodes
    PROVE  /\ Functions(n) = {h \in Holders(n) : kind(h) = "function_def"} \cup UNION {Functions(h) : h \in Holders(n)}
           /\ Functions(n) \subseteq Nodes
           /\ TopLevel(n) => Functions(n) = {}
<1>1. Around(n) = Holders(n) \cup UNION {Around(h) : h \in Holders(n)} /\ Around(n) \subseteq Nodes
  BY AroundIs
<1>2. TopLevel(n) => Holders(n) = {}
  BY Whole DEF IsProgram, TopLevel, Holders, Nodes
<1>3. QED
  BY <1>1, <1>2 DEF Functions

(* What is around a node is around those in its lists, and it is, if it is *)
(* a function; the one node in two places is in no function.               *)
LEMMA FunctionsBelow ==
    ASSUME ast \in Programs, NEW n \in Nodes, NEW l \in NodeLists(ast.node[n]), NEW m \in Members(l)
    PROVE  /\ m \in Nodes /\ ~TopLevel(m)
           /\ Functions(m) = Functions(n) \cup (IF kind(n) = "function_def" THEN {n} ELSE {})
           /\ kind(n) # "variable_def" => Holders(m) = {n}
<1>1. m \in Nodes /\ n \in Holders(m)
  BY ListsGoUp DEF Members, Holders, HoldersIn, Nodes
<1>2. ~TopLevel(m)
  BY <1>1, Whole DEF IsProgram, TopLevel, Holders, Nodes
<1>3. \A h, g \in Holders(m) : h # g => TopLevel(h) /\ TopLevel(g) /\ kind(h) = "variable_def" /\ kind(g) = "variable_def"
  BY <1>1, Whole DEF IsProgram, TopLevel, Holders, Nodes, kind
<1>4. Functions(m) = {h \in Holders(m) : kind(h) = "function_def"} \cup UNION {Functions(h) : h \in Holders(m)}
  BY <1>1, FunctionsAre
<1>5. CASE Holders(m) = {n}
  BY <1>1, <1>2, <1>4, <1>5
<1>6. CASE Holders(m) # {n}
  <2>1. \A h \in Holders(m) : TopLevel(h) /\ kind(h) = "variable_def"
    BY <1>1, <1>3, <1>6
  <2>2. \A h \in Holders(m) : Functions(h) = {}
    BY <2>1, FunctionsAre, HoldersAbove
  <2>3. Functions(m) = {} /\ Functions(n) = {} /\ kind(n) = "variable_def"
    BY <1>1, <1>4, <2>1, <2>2
  <2>4. QED
    BY <1>1, <1>2, <2>3
<1>7. QED
  BY <1>5, <1>6

FunctionsOver(n) == {h \in Holders(n) : kind(h) = "function_def"} \cup UNION {Functions(h) : h \in Holders(n)}

LEMMA FunctionsHeld == ast \in Programs => \A n \in Nodes : Functions(n) = FunctionsOver(n)
BY FunctionsAre DEF FunctionsOver

LEMMA FunctionsSame ==
    ASSUME ast \in Programs, ast' = ast
    PROVE  \A n \in Nodes : Functions(n)' = Functions(n)
<1>1. (ast \in Programs => \A n \in Nodes : Functions(n) = FunctionsOver(n))'
  BY FunctionsHeld, PTL
<1>2. /\ Nodes' = Nodes /\ \A n : Holders(n)' = Holders(n) /\ kind(n)' = kind(n)
  BY DEF Nodes, Holders, kind
<1>3. \A n \in Nodes : Functions(n)' = {h \in Holders(n) : kind(h) = "function_def"} \cup UNION {Functions(h)' : h \in Holders(n)}
  <2>1. ASSUME NEW n \in Nodes
        PROVE  Functions(n)' = {h \in Holders(n) : kind(h) = "function_def"} \cup UNION {Functions(h)' : h \in Holders(n)}
    <3>1. Functions(n)' = {h \in Holders(n)' : kind(h)' = "function_def"} \cup UNION {Functions(h)' : h \in Holders(n)'}
      BY <1>1, <1>2 DEF FunctionsOver
    <3>2. QED
      BY <1>2, <3>1
  <2>2. QED
    BY <2>1
<1>4. \A n \in Nodes : Functions(n) = {h \in Holders(n) : kind(h) = "function_def"} \cup UNION {Functions(h) : h \in Holders(n)}
  BY FunctionsAre
<1> DEFINE P == {n \in Nodes : Functions(n)' = Functions(n)}
<1>5. ASSUME NEW m \in Nodes, \A k \in Nodes : k < m => k \in P PROVE m \in P
  <2>1. \A h \in Holders(m) : Functions(h)' = Functions(h)
    BY <1>5, HoldersAbove
  <2>2. UNION {Functions(h)' : h \in Holders(m)} = UNION {Functions(h) : h \in Holders(m)}
    BY <2>1
  <2>3. QED
    BY <1>3, <1>4, <2>2
<1>6. Nodes \subseteq P
  <2> HIDE DEF P
  <2>1. QED
    BY <1>5, FromAbove
<1>7. QED
  BY <1>6

(* The handlers of assign and visit call on the node itself, on nodes of   *)
(* its lists and on its operands, with the table they were called with.    *)
Held(n) == (UNION {Members(l) : l \in NodeLists(ast.node[n])}) \cup
           (IF kind(n) = "expression" THEN Members(Operands(n)) ELSE {})

Within == Checks \ {"enter_assign", "enter_visit", "derive"}

CallsOn(n, t) == [do : Within, n : {n} \cup Held(n), t : {t}]

LEMMA HeldLists ==
    ASSUME ast \in Programs, NEW n \in Nodes
    PROVE  /\ ast.node[n].body \in Seq(Held(n)) /\ ast.node[n].args \in Seq(Held(n)) /\ Below(ast.node[n]) \in Seq(Held(n))
           /\ kind(n) = "expression" => Operands(n) \in Seq(Held(n))
           /\ kind(n) \in WithOperand => kids(n)[1] \in Held(n)
<1>1. ASSUME NEW s \in Seq(Nodes), Members(s) \subseteq Held(n) PROVE s \in Seq(Held(n))
  <2>1. \A i \in DOMAIN s : s[i] \in Held(n)
    BY <1>1 DEF Members
  <2> HIDE DEF Held
  <2>2. QED
    BY <1>1, <2>1
<1>2. \A l \in NodeLists(ast.node[n]) : l \in Seq(Nodes) /\ Members(l) \subseteq Held(n)
  BY ListsGoUp DEF Held
<1>3. Below(ast.node[n]) \in Seq(Nodes) /\ Members(Below(ast.node[n])) \subseteq Held(n)
  <2> DEFINE nd == ast.node[n]
  <2>1. \/ Below(nd) = nd.args \o nd.body
        \/ Below(nd) = nd.body \o nd.alternate
        \/ Below(nd) = nd.body
        \/ Below(nd) = <<>>
    BY Zenon DEF Below
  <2>2. nd.args \in Seq(Nodes) /\ nd.body \in Seq(Nodes) /\ nd.alternate \in Seq(Nodes)
        /\ Members(nd.args) \subseteq Held(n) /\ Members(nd.body) \subseteq Held(n) /\ Members(nd.alternate) \subseteq Held(n)
    BY <1>2 DEF NodeLists
  <2>3. Members(<<>>) = {}
    BY DEF Members
  <2>4. \A a, b \in Seq(Nodes) : Members(a \o b) = Members(a) \cup Members(b)
    BY JoinedMembers
  <2>5. Members(Below(nd)) \subseteq Held(n)
    <3> HIDE DEF nd
    <3>1. QED
      BY <2>1, <2>2, <2>3, <2>4
  <2>6. QED
    BY <2>5, BelowIs
<1>4. kind(n) = "expression" => Operands(n) \in Seq(Nodes) /\ Members(Operands(n)) \subseteq Held(n)
  <2>1. Operands(n) \in Seq(Nodes)
    BY OperandsWithin
  <2>2. kind(n) = "expression" => Members(Operands(n)) \subseteq Held(n)
    <3>1. ASSUME kind(n) = "expression" PROVE Held(n) = (UNION {Members(l) : l \in NodeLists(ast.node[n])}) \cup Members(Operands(n))
      BY <3>1, Zenon DEF Held
    <3>2. QED
      BY <3>1, Zenon
  <2>3. QED
    BY <2>1, <2>2
<1>5. kind(n) \in WithOperand => kids(n)[1] \in Held(n)
  BY <1>2, Shapes DEF Members, NodeLists, kids
<1>6. QED
  BY <1>1, <1>2, <1>3, <1>4, <1>5 DEF NodeLists

LEMMA AssignStaysWithin ==
    ASSUME ast \in Programs, NEW n \in Nodes, NEW t
    PROVE  AssignCalls(n, t) \in Seq(CallsOn(n, t))
<1> DEFINE C == CallsOn(n, t)
<1>1. \A d \in Within : Call(d, n, t) \in C /\ \A m \in Held(n) : Call(d, m, t) \in C
  BY DEF Call, CallsOn
<1>2. "assign" \in Within /\ "support" \in Within /\ "resolve" \in Within /\ "decide" \in Within
      /\ "push_type" \in Within /\ "type_call" \in Within
  BY DEF Within, Checks
<1> HIDE DEF C
<1>3. \A ns \in Seq(Held(n)) : Calls("assign", ns, t) \in Seq(C)
  <2>1. ASSUME NEW ns \in Seq(Held(n)) PROVE Calls("assign", ns, t) \in Seq(C)
    <3>1. \A i \in DOMAIN ns : ns[i] \in Held(n)
      OBVIOUS
    <3>2. \A i \in DOMAIN ns : Call("assign", ns[i], t) \in C
      BY <1>1, <1>2, <3>1
    <3>3. QED
      BY <3>2, CallsAre
  <2>2. QED
    BY <2>1
<1>4. CASE kind(n) = "identifier"
  <2>1. AssignCalls(n, t) = <<Call("resolve", n, t)>>
    BY <1>4, Zenon DEF AssignCalls
  <2>2. QED
    BY <1>1, <1>2, <2>1 DEF C
<1>5. CASE kind(n) = "expression"
  <2>1. AssignCalls(n, t) = Calls("assign", Operands(n), t) \o <<Call("support", n, t), Call("decide", n, t)>>
    BY <1>5, Zenon DEF AssignCalls
  <2>2. <<Call("support", n, t), Call("decide", n, t)>> \in Seq(C)
    BY <1>1, <1>2
  <2>3. QED
    BY <1>3, <1>5, <2>1, <2>2, HeldLists, Joined DEF C
<1>6. CASE kind(n) = "return"
  <2>1. AssignCalls(n, t)
          = <<Call("support", kids(n)[1], t), Call("assign", kids(n)[1], t), Call("push_type", n, t)>>
    BY <1>6, Zenon DEF AssignCalls
  <2>2. kids(n)[1] \in Held(n)
    BY <1>6, HeldLists DEF WithOperand
  <2>3. <<Call("support", kids(n)[1], t), Call("assign", kids(n)[1], t), Call("push_type", n, t)>> \in Seq(C)
    BY <1>1, <1>2, <2>2
  <2>4. QED
    BY <2>1, <2>3 DEF C
<1>7. CASE kind(n) = "unary"
  <2>1. AssignCalls(n, t) = <<Call("support", kids(n)[1], t), Call("assign", kids(n)[1], t)>>
    BY <1>7, Zenon DEF AssignCalls
  <2>2. kids(n)[1] \in Held(n)
    BY <1>7, HeldLists DEF WithOperand
  <2>3. <<Call("support", kids(n)[1], t), Call("assign", kids(n)[1], t)>> \in Seq(C)
    BY <1>1, <1>2, <2>2
  <2>4. QED
    BY <2>1, <2>3 DEF C
<1>8. CASE kind(n) = "print"
  <2>1. AssignCalls(n, t) = <<Call("assign", kids(n)[1], t)>>
    BY <1>8, Zenon DEF AssignCalls
  <2>2. kids(n)[1] \in Held(n)
    BY <1>8, HeldLists DEF WithOperand
  <2>3. QED
    BY <1>1, <1>2, <2>1, <2>2 DEF C
<1>9. CASE kind(n) = "function_def"
  <2>1. AssignCalls(n, t) = Calls("assign", ast.node[n].body \o ast.node[n].args, t)
    BY <1>9, Zenon DEF AssignCalls
  <2>2. ast.node[n].body \o ast.node[n].args \in Seq(Held(n))
    BY HeldLists, Joined
  <2>3. QED
    BY <1>3, <2>1, <2>2 DEF C
<1>10. CASE kind(n) \in {"if", "while", "for", "else"}
  <2>1. AssignCalls(n, t) = Calls("assign", Below(ast.node[n]), t)
    BY <1>10, Zenon DEF AssignCalls
  <2>2. QED
    BY <1>3, <2>1, HeldLists DEF C
<1>11. CASE kind(n) = "function_call"
  <2>1. AssignCalls(n, t) = <<Call("type_call", n, t)>>
    BY <1>11, Zenon DEF AssignCalls
  <2>2. QED
    BY <1>1, <1>2, <2>1 DEF C
<1>12. CASE kind(n) \notin {"identifier", "expression", "return", "unary", "print", "function_def",
                            "if", "while", "for", "else", "function_call"}
  <2>1. AssignCalls(n, t) = <<>>
    BY <1>12, Zenon DEF AssignCalls
  <2>2. QED
    BY <2>1
<1>13. QED
  BY <1>4, <1>5, <1>6, <1>7, <1>8, <1>9, <1>10, <1>11, <1>12

LEMMA VisitStaysWithin ==
    ASSUME ast \in Programs, NEW n \in Nodes, NEW t
    PROVE  VisitCalls(n, t) \in Seq(CallsOn(n, t))
<1> DEFINE C == CallsOn(n, t)
<1>1. \A d \in Within : Call(d, n, t) \in C /\ \A m \in Held(n) : Call(d, m, t) \in C
  BY DEF Call, CallsOn
<1>2. {"assign", "visit", "support", "declared", "defined", "check_def", "condition", "not_duplicated",
       "returns", "check_assignment", "check_call"} \subseteq Within
  BY DEF Within, Checks
<1> HIDE DEF C
<1>3. \A ns \in Seq(Held(n)) : \A d \in {"assign", "support", "visit"} : Calls(d, ns, t) \in Seq(C)
  <2>1. ASSUME NEW ns \in Seq(Held(n)), NEW d \in {"assign", "support", "visit"} PROVE Calls(d, ns, t) \in Seq(C)
    <3>1. \A i \in DOMAIN ns : ns[i] \in Held(n)
      OBVIOUS
    <3>2. \A i \in DOMAIN ns : Call(d, ns[i], t) \in C
      BY <1>1, <1>2, <3>1
    <3>3. QED
      BY <3>2, CallsAre
  <2>2. QED
    BY <2>1
<1>4. ast.node[n].body \in Seq(Held(n)) /\ ast.node[n].args \in Seq(Held(n))
  BY HeldLists
<1>5. kind(n) \in {"variable_def", "if", "while"} => kids(n)[1] \in Held(n)
  BY HeldLists DEF WithOperand
<1>6. CASE kind(n) \in {"variable_decl", "function_decl", "function_call"}
  <2>1. \E d \in {"declared", "not_duplicated", "check_call"} : VisitCalls(n, t) = <<Call(d, n, t)>>
    <3>1. kind(n) = "variable_decl" => VisitCalls(n, t) = <<Call("declared", n, t)>>
      BY Zenon DEF VisitCalls
    <3>2. kind(n) = "function_decl" => VisitCalls(n, t) = <<Call("not_duplicated", n, t)>>
      BY Zenon DEF VisitCalls
    <3>3. kind(n) = "function_call" => VisitCalls(n, t) = <<Call("check_call", n, t)>>
      BY Zenon DEF VisitCalls
    <3>4. QED
      BY <1>6, <3>1, <3>2, <3>3
  <2>2. QED
    BY <1>1, <1>2, <2>1 DEF C
<1>7. CASE kind(n) = "variable_def"
  <2>1. VisitCalls(n, t)
          = <<Call("defined", n, t), Call("assign", kids(n)[1], t), Call("support", n, t),
              Call("check_def", n, t)>>
    BY <1>7, Zenon DEF VisitCalls
  <2>2. <<Call("defined", n, t), Call("assign", kids(n)[1], t), Call("support", n, t),
          Call("check_def", n, t)>> \in Seq(C)
    BY <1>1, <1>2, <1>5, <1>7
  <2>3. QED
    BY <2>1, <2>2 DEF C
<1>8. CASE kind(n) \in {"if", "while"}
  <2>1. VisitCalls(n, t)
          = <<Call("condition", n, t), Call("support", kids(n)[1], t)>>
              \o (IF kind(n) = "if" THEN Calls("visit", ast.node[n].body, t) ELSE <<>>)
    BY <1>8, Zenon DEF VisitCalls
  <2>2. <<Call("condition", n, t), Call("support", kids(n)[1], t)>> \in Seq(C)
    BY <1>1, <1>2, <1>5, <1>8
  <2>3. (IF kind(n) = "if" THEN Calls("visit", ast.node[n].body, t) ELSE <<>>) \in Seq(C)
    <3>1. <<>> \in Seq(C)
      OBVIOUS
    <3>2. QED
      BY <1>3, <1>4, <3>1
  <2>4. QED
    BY <2>1, <2>2, <2>3, Joined DEF C
<1>9. CASE kind(n) = "function_def"
  <2>1. VisitCalls(n, t)
          = <<Call("not_duplicated", n, t), Call("returns", n, t)>> \o Calls("visit", ast.node[n].body, t)
    BY <1>9, Zenon DEF VisitCalls
  <2>2. <<Call("not_duplicated", n, t), Call("returns", n, t)>> \in Seq(C)
    BY <1>1, <1>2
  <2>3. QED
    BY <1>3, <1>4, <2>1, <2>2, Joined DEF C
<1>10. CASE kind(n) = "assignment"
  <2> DEFINE sides == ast.node[n].args
  <2>1. VisitCalls(n, t)
          = Calls("assign", sides, t) \o Calls("support", sides, t) \o <<Call("check_assignment", n, t)>>
    BY <1>10, Zenon DEF VisitCalls
  <2>2. <<Call("check_assignment", n, t)>> \in Seq(C)
    BY <1>1, <1>2
  <2>3. Calls("assign", sides, t) \o Calls("support", sides, t) \in Seq(C)
    BY <1>3, <1>4, Joined
  <2>4. QED
    BY <2>1, <2>2, <2>3, Joined DEF C
<1>11. CASE kind(n) \notin {"variable_decl", "variable_def", "if", "while", "function_decl",
                            "function_def", "assignment", "function_call"}
  <2>1. VisitCalls(n, t) = <<>>
    BY <1>11, Zenon DEF VisitCalls
  <2>2. QED
    BY <2>1
<1>12. QED
  BY <1>6, <1>7, <1>8, <1>9, <1>10, <1>11

LEMMA FunctionsAroundHeld ==
    ASSUME ast \in Programs, NEW n \in Nodes, NEW m \in Held(n)
    PROVE  /\ m \in Nodes /\ (kind(m) = "function_def" => ~TopLevel(m))
           /\ Functions(m) = Functions(n) \cup (IF kind(n) = "function_def" THEN {n} ELSE {})
<1>1. CASE \E l \in NodeLists(ast.node[n]) : m \in Members(l)
  BY <1>1, FunctionsBelow
<1>2. CASE kind(n) = "expression" /\ m \in Members(Operands(n))
  <2> DEFINE P == {k \in Nodes : Functions(k) = Functions(n) /\ kind(k) # "function_def"}
  <2>1. n \in P
    BY <1>2
  <2>2. ASSUME NEW k \in Nodes \cap P, kind(k) = "expression" PROVE kids(k)[1] \in P /\ kids(k)[2] \in P
    <3>1. ASSUME NEW i \in DOMAIN kids(k) PROVE kids(k)[i] \in P
      <4>1. kids(k)[i] \in Members(kids(k)) /\ kids(k) \in NodeLists(ast.node[k])
        BY DEF Members, NodeLists, kids
      <4>2. Functions(kids(k)[i]) = Functions(k) /\ kids(k)[i] \in Nodes
        BY <2>2, <4>1, FunctionsBelow
      <4>3. kind(kids(k)[i]) # "function_def"
        BY Shapes DEF ValueKinds
      <4>4. QED
        BY <4>2, <4>3
    <3>2. QED
      BY <2>2, <3>1, Shapes
  <2>3. \A i \in DOMAIN Operands(n) : Operands(n)[i] \in P
    <3> HIDE DEF P
    <3>1. QED
      BY <2>1, <2>2, OperandsWithin
  <2>4. m \in P
    BY <1>2, <2>3 DEF Members
  <2>5. QED
    BY <1>2, <2>4
<1>3. Held(n) = (UNION {Members(l) : l \in NodeLists(ast.node[n])}) \cup
                (IF kind(n) = "expression" THEN Members(Operands(n)) ELSE {})
  BY Zenon DEF Held
<1>4. m \in UNION {Members(l) : l \in NodeLists(ast.node[n])} => \E l \in NodeLists(ast.node[n]) : m \in Members(l)
  BY Zenon
<1>5. QED
  BY <1>1, <1>2, <1>3, <1>4, Zenon

-----------------------------------------------------------------------------
(* A call of a node in no function is made with the global table, and one  *)
(* of a node in a function with the function's: with the table of the node *)
(* itself when it is a function definition.                                *)
Simple(n)     == \A f \in Functions(n) : TopLevel(f) /\ name(f) # GlobalName
InTable(n, t) == IF Functions(n) = {} THEN t = Root ELSE \A f \in Functions(n) : t = home[f]
Seated(n, t)  ==
    IF kind(n) = "function_def" /\ TopLevel(n)
    THEN name(n) # GlobalName => t = home[n]
    ELSE Simple(n) => InTable(n, t)

LEMMA SeatedHeld ==
    ASSUME ast \in Programs, NEW n \in Nodes, NEW t, Seated(n, t), NEW m \in {n} \cup Held(n)
    PROVE  Seated(m, t)
<1>1. CASE m = n
  BY <1>1
<1>2. CASE m \in Held(n)
  <2>1. /\ kind(m) = "function_def" => ~TopLevel(m)
        /\ Functions(m) = Functions(n) \cup (IF kind(n) = "function_def" THEN {n} ELSE {})
    BY <1>2, FunctionsAroundHeld
  <2>2. CASE kind(n) = "function_def" /\ TopLevel(n)
    <3>1. Functions(m) = {n}
      BY <2>1, <2>2, FunctionsAre
    <3>2. QED
      BY <2>1, <2>2, <3>1 DEF Seated, Simple, InTable
  <2>3. CASE kind(n) = "function_def" /\ ~TopLevel(n)
    BY <2>1, <2>3 DEF Seated, Simple
  <2>4. CASE kind(n) # "function_def"
    BY <2>1, <2>4 DEF Seated, Simple, InTable
  <2>5. QED
    BY <2>2, <2>3, <2>4
<1>3. QED
  BY <1>1, <1>2

(* Entering a function, and deriving types, is of nodes of the top level   *)
(* and of their children, outside of all functions.                        *)
Outermost == {"enter_assign", "enter_visit", "derive"}
Outside   ==
    /\ \A n \in Members(stack_assign) \cup Members(stack_visit) : Functions(n) = {}
    /\ \A c \in Due : c.do \in Outermost => Functions(c.n) = {}
Placed    == \A c \in Due : c.do \notin Outermost \cup {"collect"} => Seated(c.n, c.t)

(* The table of a function, as evaluate finds it from the global table.    *)
FoundHome ==
    (Running /\ task.do \in {"enter_assign", "enter_visit"} /\ name(task.n) # GlobalName) =>
        \A i \in DOMAIN answers : answers[i] = home[task.n]

(* What an identifier is resolved to, if anything.                         *)
NoneResolved == (\E c \in Due : c.do = "collect") => \A n \in Nodes : resolved[n] = Null
Lex(t, n)    == IF Declared(t, n) THEN t ELSE Root
ResolvedIn   ==
    \A n \in Named({"identifier"}) :
        (resolved[n] # Null /\ Simple(n)) =>
            IF Functions(n) = {} THEN resolved[n] = Root
            ELSE \A f \in Functions(n) : resolved[n] = Lex(home[f], name(n))

(* Every table but the global one is the home of a function definition,    *)
(* whose name is the last part of its own; so no node is entered twice.    *)
HomesApart ==
    \A t \in live \ {Root} :
        /\ Len(qa[t]) >= 2
        /\ \E f \in Named({"function_def"}) : home[f] = t /\ qa[t][Len(qa[t])] = name(f)
EnteredOnce ==
    /\ \A i, j \in DOMAIN agenda :
         agenda[i].do = "collect" /\ agenda[j].do = "collect" /\ agenda[i].n = agenda[j].n => i = j
    /\ \A c \in Due : c.do = "collect" => home[c.n] = Null
    /\ \A c \in Due : c.do = "collect" => \A h \in Holders(c.n) : home[h] # Null
    /\ \A n \in Nodes : home[n] # Null => \A h \in Holders(n) : home[h] # Null

LexInv ==
    /\ HomesApart /\ EnteredOnce /\ NoneResolved /\ Outside
    /\ UniqueFunctions => Placed /\ FoundHome /\ ResolvedIn

LEMMA InitLex == Init => LexInv
<1> SUFFICES ASSUME Init PROVE LexInv
  OBVIOUS
<1>1. ast \in Programs /\ live = {Root} /\ answers = <<>> /\ stack_assign = ast.top /\ stack_visit = ast.top
      /\ resolved = [n \in Nodes |-> Null] /\ home = [n \in Nodes |-> Null]
      /\ agenda = Calls("collect", ast.top, Root)
  BY DEF Init, ST!Init
<1>2. ast.top \in Seq(Nodes) /\ Members(ast.top) \subseteq Nodes /\ Once(ast.top)
  BY <1>1, Numbered, Whole, MembersIn DEF IsProgram
<1>3. \A n \in Members(ast.top) : Functions(n) = {} /\ Holders(n) = {}
  BY <1>1, <1>2, FunctionsAre, Whole DEF IsProgram, TopLevel, Holders, Nodes
<1>4. HomesApart
  BY <1>1 DEF HomesApart
<1>5. /\ DOMAIN agenda = DOMAIN ast.top
      /\ \A i \in DOMAIN agenda : agenda[i].n = ast.top[i] /\ agenda[i].do = "collect"
  <2>1. \A n : Call("collect", n, Root).n = n /\ Call("collect", n, Root).do = "collect"
    BY DEF Call
  <2>2. DOMAIN agenda = DOMAIN ast.top /\ \A i \in DOMAIN agenda : agenda[i] = Call("collect", ast.top[i], Root)
    BY <1>1 DEF Calls
  <2>3. QED
    BY <2>1, <2>2
<1>6. \A c \in Due : c.n \in Members(ast.top) /\ c.do = "collect"
  BY <1>5 DEF Due, Members
<1>7. EnteredOnce
  <2>1. \A i, j \in DOMAIN agenda : agenda[i].n = agenda[j].n => i = j
    BY <1>2, <1>5 DEF Once
  <2>2. \A c \in Due : home[c.n] = Null /\ Holders(c.n) = {}
    BY <1>1, <1>2, <1>3, <1>6
  <2>3. \A n \in Nodes : home[n] = Null
    BY <1>1
  <2>4. QED
    BY <2>1, <2>2, <2>3 DEF EnteredOnce
<1>8. NoneResolved /\ ResolvedIn /\ Outside
  BY <1>1, <1>3, <1>6 DEF NoneResolved, ResolvedIn, Outside, Outermost, Named
<1>9. Placed /\ FoundHome
  BY <1>1, <1>6 DEF Placed, FoundHome
<1>10. QED
  BY <1>4, <1>7, <1>8, <1>9 DEF LexInv

-----------------------------------------------------------------------------
(* The collection: what a step of it enters, and what it leaves to enter.  *)
LEMMA CollectCalls ==
    ASSUME TypeInv, Collect
    PROVE  /\ \E ns \in {<<>>, Below(ast.node[task.n])}, t \in live' :
                agenda' = Calls("collect", ns, t) \o Tail(agenda)
           /\ \E u \in live' : home' = [home EXCEPT ![task.n] = u]
           /\ \A t \in live' \ live :
                /\ home'[task.n] = t /\ kind(task.n) = "function_def"
                /\ qa'[t] = qa[task.t] \o <<name(task.n)>>
<1>1. task.n \in Nodes /\ task.t \in live /\ live \subseteq live' /\ home \in [Nodes -> live \cup {Null}]
  BY TaskIs, CollectStep DEF TypeInv, NodesOK
<1>2. CASE EnterSymbol
  <2>1. /\ home' = [home EXCEPT ![task.n] = task.t] /\ live' = live
        /\ agenda' = <<>> \o Tail(agenda)
    BY <1>2 DEF EnterSymbol, Then, ST!add, ST!tree
  <2>2. Calls("collect", <<>>, task.t) = <<>>
    BY DEF Calls
  <2>3. QED
    BY <1>1, <2>1, <2>2
<1>3. CASE EnterBlock
  <2>1. /\ home' = [home EXCEPT ![task.n] = task.t] /\ live' = live
        /\ agenda' = Calls("collect", Collected(task.n), task.t) \o Tail(agenda)
    BY <1>3 DEF EnterBlock, Then, tables
  <2>2. Collected(task.n) \in {<<>>, Below(ast.node[task.n])}
    BY DEF Collected
  <2>3. QED
    BY <1>1, <2>1, <2>2
<1>4. CASE EnterFunction
  <2> DEFINE b == CHOOSE b \in live' : b \notin live
             c == CHOOSE c \in Tables : c \notin live
  <2>1. /\ Tab!add_sym_table(task.t, name(task.n)) /\ kind(task.n) = "function_def"
        /\ home' = [home EXCEPT ![task.n] = b]
        /\ agenda' = Calls("collect", Below(ast.node[task.n]), b) \o Tail(agenda)
    BY <1>4, SameCalls DEF EnterFunction, At, Then
  <2>2. c \in Tables \ live
    BY <2>1, TablesAre DEF Tab!add_sym_table
  <2>3. live' = live \cup {c} /\ qa' = [qa EXCEPT ![c] = qa[task.t] \o <<name(task.n)>>]
    BY <2>1 DEF Tab!add_sym_table, Tab!create_qualified_name
  <2> HIDE DEF c
  <2>4. b = c
    BY <2>2, <2>3
  <2> HIDE DEF b
  <2>5. qa'[c] = qa[task.t] \o <<name(task.n)>> /\ home'[task.n] = c
    BY <1>1, <2>1, <2>2, <2>3, <2>4, TablesAre
  <2>6. QED
    BY <2>1, <2>2, <2>3, <2>4, <2>5
<1>5. QED
  BY <1>2, <1>3, <1>4 DEF Collect

LEMMA EnteredOnceKept == TypeInv /\ EnteredOnce /\ Collect => EnteredOnce'
<1> SUFFICES ASSUME TypeInv, EnteredOnce, Collect PROVE EnteredOnce'
  OBVIOUS
<1>1. PICK n : n = task.n
  OBVIOUS
<1>2. /\ n \in Nodes /\ ast \in Programs /\ ast' = ast /\ agenda \in Seq(ToCollect) /\ agenda # <<>>
      /\ task \in Due /\ task.do = "collect" /\ Null \notin live' /\ home \in [Nodes -> live \cup {Null}]
  <2>1. Null \notin live'
    BY CollectTypes, NodesAre, TypeInvTypes, TableAssumption
       DEF TypeInv, TablesOK, Tab!ForestInv, Tab!IInv, Tab!TypeOK
  <2>2. QED
    BY <1>1, <2>1, CollectStep, TaskIs DEF TypeInv, NodesOK, Running
<1>3. PICK ns \in {<<>>, Below(ast.node[n])}, t \in live' : agenda' = Calls("collect", ns, t) \o Tail(agenda)
  BY <1>1, CollectCalls
<1>4. PICK u \in live' : home' = [home EXCEPT ![n] = u]
  BY <1>1, CollectCalls
<1>5. ns \in Seq(Nodes) /\ Once(ns) /\ \A i \in DOMAIN ns : ns[i] \in Nodes /\ ns[i] > n /\ Holders(ns[i]) = {n}
  <2>1. CASE ns = <<>>
    BY <2>1 DEF Once
  <2>2. CASE ns = Below(ast.node[n]) /\ ns # <<>>
    <3>1. kind(n) # "variable_def"
      BY <2>2, Zenon DEF Below, kind
    <3>2. ns \in Seq(Nodes) /\ \A i \in DOMAIN ns : ns[i] \in Nodes /\ ns[i] > n /\ n \in Holders(ns[i])
      BY <1>2, <2>2, BelowIs
    <3>3. Once(ns)
      BY <1>2, <2>2, Whole DEF IsProgram, Nodes
    <3>4. ASSUME NEW i \in DOMAIN ns PROVE Holders(ns[i]) = {n}
      <4>1. PICK l \in NodeLists(ast.node[n]) : ns[i] \in Members(l)
        BY <3>2 DEF Holders, HoldersIn
      <4>2. QED
        BY <1>2, <3>1, <4>1, FunctionsBelow
    <3>5. QED
      BY <3>2, <3>3, <3>4
  <2>3. QED
    BY <1>3, <2>1, <2>2
<1>6. n \in Nat /\ \A i \in DOMAIN ns : ns[i] # n
  BY <1>2, <1>5, Numbered
<1>7. home[n] = Null
  BY <1>1, <1>2 DEF EnteredOnce
<1>8. ASSUME NEW c \in Due PROVE c.do = "collect" /\ \A i \in DOMAIN ns : c.n # ns[i]
  <2>1. c.do = "collect"
    BY <1>8, CollectStep
  <2>2. QED
    BY <1>5, <1>7, <1>8, <2>1 DEF EnteredOnce
<1>9. /\ Len(ns) \in Nat /\ DOMAIN ns = 1..Len(ns) /\ Len(agenda) \in Nat \ {0} /\ DOMAIN agenda = 1..Len(agenda)
      /\ agenda[1] = task /\ DOMAIN agenda' \subseteq Nat
      /\ \A i \in DOMAIN agenda' :
           \/ i \in DOMAIN ns /\ agenda'[i] = Call("collect", ns[i], t)
           \/ /\ i - Len(ns) + 1 \in 2..Len(agenda) /\ i > Len(ns)
              /\ agenda'[i] = agenda[i - Len(ns) + 1]
  <2>1. PICK old : old = Tail(agenda)
    OBVIOUS
  <2>2. PICK new : new = Calls("collect", ns, t)
    OBVIOUS
  <2>3. /\ old \in Seq(ToCollect) /\ Len(agenda) \in Nat \ {0} /\ DOMAIN agenda = 1..Len(agenda)
        /\ Len(old) = Len(agenda) - 1 /\ \A i \in 1..Len(old) : old[i] = agenda[i + 1]
        /\ agenda[1] = task
    BY <1>2, <2>1 DEF task
  <2>4. /\ Len(ns) \in Nat /\ DOMAIN ns = 1..Len(ns) /\ DOMAIN new = DOMAIN ns
        /\ \A i \in DOMAIN new : new[i] = Call("collect", ns[i], t)
    BY <1>5, <2>2 DEF Calls
  <2>5. Len(new) = Len(ns)
    BY <2>4
  <2>6. PICK old2 : agenda' = new \o old2 /\ old2 = old
    BY <1>3, <2>1, <2>2
  <2>7. /\ DOMAIN agenda' = 1..(Len(new) + Len(old)) /\ DOMAIN agenda' \subseteq Nat
        /\ \A i \in 1..(Len(new) + Len(old)) : agenda'[i] = IF i <= Len(new) THEN new[i] ELSE old[i - Len(new)]
    <3>1. PICK S : S = {Call("collect", m, t) : m \in Nodes} \cup ToCollect
      OBVIOUS
    <3>2. new \in Seq(S)
      BY <1>5, <2>2, <3>1, CallsAre
    <3>3. old2 \in Seq(S)
      BY <2>3, <2>6, <3>1, SeqsGrow
    <3>4. \A a, b \in Seq(S) :
            /\ DOMAIN (a \o b) = 1..(Len(a) + Len(b)) /\ Len(a) \in Nat /\ Len(b) \in Nat
            /\ \A i \in 1..(Len(a) + Len(b)) : (a \o b)[i] = IF i <= Len(a) THEN a[i] ELSE b[i - Len(a)]
      OBVIOUS
    <3>5. QED
      BY <2>6, <3>2, <3>3, <3>4
  <2>8. ASSUME NEW i \in DOMAIN agenda'
        PROVE  \/ i \in DOMAIN ns /\ agenda'[i] = Call("collect", ns[i], t)
               \/ /\ i - Len(ns) + 1 \in 2..Len(agenda) /\ i > Len(ns)
                  /\ agenda'[i] = agenda[i - Len(ns) + 1]
    <3>1. CASE i <= Len(ns)
      BY <2>4, <2>5, <2>7, <3>1
    <3>2. CASE i > Len(ns)
      <4>1. i - Len(ns) \in 1..Len(old)
        BY <2>3, <2>4, <2>5, <2>7, <3>2
      <4>2. agenda'[i] = old[i - Len(ns)]
        <5>1. i \in 1..(Len(new) + Len(old)) /\ ~(i <= Len(new))
          BY <2>4, <2>5, <2>7, <3>2
        <5>2. QED
          BY <2>5, <2>7, <5>1
      <4>3. QED
        BY <2>3, <2>4, <3>2, <4>1, <4>2
    <3>3. QED
      BY <2>3, <2>4, <2>7, <3>1, <3>2
  <2>9. QED
    BY <2>3, <2>4, <2>7, <2>8
<1>10. \A i \in DOMAIN agenda : agenda[i] \in Due
  BY DEF Due, Members
<1>11. \A i \in 2..Len(agenda) : agenda[i].n # n
  BY <1>1, <1>2, <1>8, <1>9, <1>10 DEF EnteredOnce
<1>12. \A m : Call("collect", m, t).n = m
  BY DEF Call
<1>13. ASSUME NEW i \in DOMAIN agenda', NEW j \in DOMAIN agenda', agenda'[i].n = agenda'[j].n
       PROVE  i = j
  <2>1. CASE i \in DOMAIN ns /\ agenda'[i] = Call("collect", ns[i], t)
    <3>1. CASE j \in DOMAIN ns /\ agenda'[j] = Call("collect", ns[j], t)
      BY <1>5, <1>12, <1>13, <2>1, <3>1 DEF Once
    <3>2. CASE j - Len(ns) + 1 \in 2..Len(agenda) /\ agenda'[j] = agenda[j - Len(ns) + 1]
      BY <1>8, <1>9, <1>10, <1>12, <1>13, <2>1, <3>2
    <3>3. QED
      BY <1>9, <3>1, <3>2
  <2>2. CASE i - Len(ns) + 1 \in 2..Len(agenda) /\ agenda'[i] = agenda[i - Len(ns) + 1] /\ i > Len(ns)
    <3>1. CASE j \in DOMAIN ns /\ agenda'[j] = Call("collect", ns[j], t)
      BY <1>8, <1>9, <1>10, <1>12, <1>13, <2>2, <3>1
    <3>2. CASE j - Len(ns) + 1 \in 2..Len(agenda) /\ agenda'[j] = agenda[j - Len(ns) + 1] /\ j > Len(ns)
      <4>1. i - Len(ns) + 1 \in DOMAIN agenda /\ j - Len(ns) + 1 \in DOMAIN agenda
        BY <1>9, <2>2, <3>2
      <4>2. i - Len(ns) + 1 = j - Len(ns) + 1
        BY <1>8, <1>10, <1>13, <2>2, <3>2, <4>1 DEF EnteredOnce
      <4>3. i \in Int /\ j \in Int
        BY <1>9
      <4>4. QED
        BY <1>9, <4>2, <4>3
    <3>3. QED
      BY <1>9, <3>1, <3>2
  <2>3. QED
    BY <1>9, <2>1, <2>2
<1>14. ASSUME NEW c \in Due'
       PROVE  \/ \E i \in DOMAIN ns : c = Call("collect", ns[i], t)
              \/ c \in Due /\ c.n # n
  <2>1. PICK i \in DOMAIN agenda' : c = agenda'[i]
    BY DEF Due, Members
  <2>2. QED
    BY <1>9, <1>10, <1>11, <2>1
<1>15. \A m \in Nodes : home'[m] = IF m = n THEN u ELSE home[m]
  BY <1>2, <1>4
<1>16. \A m : Holders(m)' = Holders(m) /\ Holders(m) \subseteq Nodes
  BY <1>2, HoldersAbove DEF Holders
<1>17. u # Null
  BY <1>2
<1>18. \A h \in Nodes : home[h] # Null => home'[h] # Null
  BY <1>15, <1>17
<1>19. \A c \in Due' : home'[c.n] = Null
  <2>1. \A i \in DOMAIN ns : home'[ns[i]] = Null
    BY <1>5, <1>6, <1>7, <1>15 DEF EnteredOnce
  <2>2. ASSUME NEW c \in Due, c.n # n PROVE home'[c.n] = Null
    <3>1. c.n \in Nodes
      BY <1>2, <2>2, MembersIn DEF Due, ToCollect
    <3>2. QED
      BY <1>8, <1>15, <2>2, <3>1 DEF EnteredOnce
  <2>3. QED
    BY <1>12, <1>14, <2>1, <2>2
<1>20. \A c \in Due' : \A h \in Holders(c.n) : home'[h] # Null
  BY <1>2, <1>5, <1>8, <1>12, <1>14, <1>15, <1>16, <1>17, <1>18 DEF EnteredOnce
<1>21. ASSUME NEW m \in Nodes, home'[m] # Null, NEW h \in Holders(m) PROVE home'[h] # Null
  <2>1. CASE m = n
    BY <1>1, <1>2, <1>16, <1>18, <1>21, <2>1 DEF EnteredOnce
  <2>2. CASE m # n
    BY <1>15, <1>16, <1>18, <1>21, <2>2 DEF EnteredOnce
  <2>3. QED
    BY <2>1, <2>2
<1>22. Nodes' = Nodes
  BY <1>2 DEF Nodes
<1>23. QED
  BY <1>13, <1>16, <1>19, <1>20, <1>21, <1>22 DEF EnteredOnce

(* Outside of the collection homes stay, and nothing is left to enter, if  *)
(* anything is due that was not.                                           *)
LEMMA OtherSteps ==
    ASSUME TypeInv, Next \/ UNCHANGED vars, ~Collect
    PROVE  /\ UNCHANGED <<ast, live, qa, children, underlying, encl, home>>
           /\ (\A c \in Due' : c.do # "collect") \/ (agenda' = agenda /\ Due' = Due /\ resolved' = resolved)
<1>1. [Next]_vars
  OBVIOUS
<1>2. QED
  BY <1>1, Steps, AskStep, HandlerStep, PopStep, QuietKeeps

LEMMA EntriesKept == TypeInv /\ EnteredOnce /\ [Next]_vars => EnteredOnce'
<1> SUFFICES ASSUME TypeInv, EnteredOnce, [Next]_vars PROVE EnteredOnce'
  OBVIOUS
<1>1. CASE Collect
  BY <1>1, EnteredOnceKept
<1>2. CASE ~Collect
  <2>1. UNCHANGED <<ast, home>>
        /\ ((\A c \in Due' : c.do # "collect") \/ (agenda' = agenda /\ Due' = Due))
    BY <1>2, OtherSteps
  <2>2. Nodes' = Nodes /\ \A m : Holders(m)' = Holders(m)
    BY <2>1 DEF Nodes, Holders
  <2>3. CASE \A c \in Due' : c.do # "collect"
    <3>1. \A i \in DOMAIN agenda' : agenda'[i].do # "collect"
      BY <2>3 DEF Due, Members
    <3>2. QED
      BY <2>1, <2>2, <2>3, <3>1 DEF EnteredOnce
  <2>4. CASE agenda' = agenda /\ Due' = Due
    BY <2>1, <2>2, <2>4 DEF EnteredOnce
  <2>5. QED
    BY <2>1, <2>3, <2>4
<1>3. QED
  BY <1>1, <1>2

LEMMA HomesKept == TypeInv /\ EnteredOnce /\ HomesApart /\ [Next]_vars => HomesApart'
<1> SUFFICES ASSUME TypeInv, EnteredOnce, HomesApart, [Next]_vars PROVE HomesApart'
  OBVIOUS
<1>1. ast' = ast /\ Named({"function_def"})' = Named({"function_def"}) /\ \A f : name(f)' = name(f)
  <2>1. ast' = ast
    BY OtherSteps, CollectStep
  <2>2. QED
    BY <2>1 DEF Named, Nodes, kind, name
<1>2. CASE Collect
  <2>1. /\ task \in Due /\ task.do = "collect" /\ live \subseteq live' /\ task.n \in Nodes /\ task.t \in live
        /\ \A t \in live : qa'[t] = qa[t]
    BY <1>2, CollectStep, CollectDeclares, TaskIs
  <2>2. home[task.n] = Null /\ Null \notin live /\ Root \in live
    BY <2>1, TablesAre DEF EnteredOnce
  <2>3. PICK n : n = task.n
    OBVIOUS
  <2>4. /\ \A m \in Nodes : m # n => home'[m] = home[m]
        /\ \A t \in live' \ live : home'[n] = t /\ kind(n) = "function_def" /\ qa'[t] = qa[task.t] \o <<name(n)>>
    BY <1>2, <2>3, CollectCalls DEF TypeInv, NodesOK
  <2>5. ASSUME NEW t \in live, t # Root
        PROVE  Len(qa'[t]) >= 2 /\ \E f \in Named({"function_def"}) : home'[f] = t /\ qa'[t][Len(qa'[t])] = name(f)
    <3>1. PICK f \in Named({"function_def"}) : home[f] = t /\ qa[t][Len(qa[t])] = name(f)
      BY <2>5 DEF HomesApart
    <3>2. f # n /\ f \in Nodes
      BY <2>2, <2>3, <2>5, <3>1 DEF Named
    <3>3. QED
      BY <2>1, <2>4, <2>5, <3>1, <3>2 DEF HomesApart
  <2>6. ASSUME NEW t \in live' \ live
        PROVE  Len(qa'[t]) >= 2 /\ \E f \in Named({"function_def"}) : home'[f] = t /\ qa'[t][Len(qa'[t])] = name(f)
    <3>1. n \in Named({"function_def"}) /\ name(n) \in Names /\ ast \in Programs
      BY <2>1, <2>3, <2>4, <2>6, NodesAre, Shapes DEF Named, NamedKinds
    <3>2. qa[task.t] \in Seq(Names) /\ Len(qa[task.t]) >= 1
      <4>1. qa \in [Tables -> Seq(Names)] /\ live \subseteq Tables /\ qa[Root] = <<GlobalName>>
        BY TablesAre
      <4>2. CASE task.t = Root
        <5>1. qa[task.t] \in Seq(Names)
          BY <2>1, <4>1
        <5>2. Len(<<GlobalName>>) = 1 /\ qa[task.t] = <<GlobalName>>
          BY <4>1, <4>2
        <5>3. QED
          BY <5>1, <5>2
      <4>3. CASE task.t # Root
        BY <2>1, <4>1, <4>3 DEF HomesApart
      <4>4. QED
        BY <4>2, <4>3
    <3>3. \A q \in Seq(Names), m \in Names : Len(q) >= 1 =>
             Len(q \o <<m>>) >= 2 /\ (q \o <<m>>)[Len(q \o <<m>>)] = m
      OBVIOUS
    <3>4. Len(qa'[t]) >= 2 /\ qa'[t][Len(qa'[t])] = name(n) /\ home'[n] = t
      BY <2>4, <2>6, <3>1, <3>2, <3>3
    <3>5. QED
      BY <3>1, <3>4
  <2>7. QED
    BY <1>1, <2>5, <2>6 DEF HomesApart
<1>3. CASE ~Collect
  <2>1. UNCHANGED <<live, qa, home>>
    BY <1>3, OtherSteps
  <2>2. QED
    BY <1>1, <2>1 DEF HomesApart
<1>4. QED
  BY <1>2, <1>3

LEMMA NoneResolvedKept == TypeInv /\ NoneResolved /\ [Next]_vars => NoneResolved'
<1> SUFFICES ASSUME TypeInv, NoneResolved, [Next]_vars PROVE NoneResolved'
  OBVIOUS
<1>1. CASE Collect
  BY <1>1, CollectStep DEF NoneResolved, Nodes
<1>2. CASE ~Collect
  <2>1. ast' = ast /\ ((\A c \in Due' : c.do # "collect") \/ (Due' = Due /\ resolved' = resolved))
    BY <1>2, OtherSteps
  <2>2. QED
    BY <2>1 DEF NoneResolved, Nodes
<1>3. QED
  BY <1>1, <1>2

(* What a handler makes due: calls of its own node and of the nodes it     *)
(* holds, with the table it has.                                           *)
LEMMA HandlerMakes ==
    ASSUME TypeInv, Handler
    PROVE  \E t : /\ Due' \subseteq CallsOn(task.n, t) \cup Due
                  /\ \/ Due' \subseteq Due
                     \/ task.do \notin Outermost \cup {"collect"} /\ t = task.t
                     \/ task.do \in {"enter_assign", "enter_visit"} /\ 1 \in DOMAIN answers /\ t = answers[1]
<1>1. /\ task.n \in Nodes /\ task.t \in live /\ ast \in Programs /\ agenda # <<>> /\ task.do # "collect"
      /\ agenda \in Seq(ToCheck)
  BY TaskIs, NodesAre, HandlerStep DEF Running
<1>2. ASSUME NEW t, NEW cs \in Seq(CallsOn(task.n, t)), agenda' = cs \o Tail(agenda)
      PROVE  Due' \subseteq CallsOn(task.n, t) \cup Due
  <2>1. PICK C : C = CallsOn(task.n, t)
    OBVIOUS
  <2>2. cs \in Seq(C \cup ToCheck) /\ agenda \in Seq(C \cup ToCheck) /\ Members(cs) \subseteq C
    BY <1>1, <1>2, <2>1, SeqsGrow, MembersIn
  <2>3. Due' \subseteq Members(cs) \cup Due
    BY <1>1, <1>2, <2>2, DueAfter
  <2>4. QED
    BY <2>1, <2>2, <2>3
<1>3. <<>> \in Seq(CallsOn(task.n, task.t))
  OBVIOUS
<1>4. CASE Enter
  <2>1. PICK d \in {"assign", "visit"} : Doing(Entering(d)) /\ Then(<<Call(d, task.n, answers[1])>>)
    BY <1>4 DEF Enter
  <2>2. task.do \in {"enter_assign", "enter_visit"} /\ Answered
    BY <2>1 DEF Doing, Entering
  <2>3. PICK t : t = answers[1]
    OBVIOUS
  <2>4. Call(d, task.n, t) \in CallsOn(task.n, t)
    BY DEF Call, CallsOn, Within, Checks
  <2>5. <<Call(d, task.n, t)>> \in Seq(CallsOn(task.n, t))
    BY <2>4
  <2>6. 1 \in DOMAIN answers
    <3>1. LookUps(task) = <<Look("find", Root)>>
      BY <2>2, LookUpsAre
    <3>2. Len(answers) = 1
      BY <2>2, <3>1 DEF Answered
    <3>3. QED
      BY <3>2, AnswerIs
  <2>7. QED
    BY <1>2, <2>1, <2>2, <2>3, <2>5, <2>6 DEF Then
<1>5. CASE Derive
  <2>1. agenda' = <<>> \o Tail(agenda)
    BY <1>5 DEF Derive, Then
  <2>2. <<>> \in Seq(ToCheck) /\ Members(<<>>) = {}
    BY DEF Members
  <2>3. Due' \subseteq Members(<<>>) \cup Due
    BY <1>1, <2>1, <2>2, DueAfter
  <2>4. QED
    BY <2>2, <2>3
<1>6. CASE ~Enter /\ ~Derive
  <2>1. task.do \notin Outermost \cup {"collect"}
    BY <1>6 DEF Handler, AssignLeaf, AssignNode, AssignFunctionDecl, Resolve, Support, Decide,
         PushType, TypeCall, VisitNode, Report, Condition, CheckCall, At, Doing, Outermost
  <2>2. \/ agenda' = <<>> \o Tail(agenda)
        \/ agenda' = AssignCalls(task.n, task.t) \o Tail(agenda)
        \/ agenda' = VisitCalls(task.n, task.t) \o Tail(agenda)
        \/ agenda' = Calls("assign", ast.node[task.n].args, task.t) \o Tail(agenda)
    BY <1>6 DEF Handler, AssignLeaf, AssignNode, Resolve, Support, Decide, AssignFunctionDecl,
         PushType, TypeCall, VisitNode, Report, Condition, CheckCall, Then
  <2>3. /\ AssignCalls(task.n, task.t) \in Seq(CallsOn(task.n, task.t))
        /\ VisitCalls(task.n, task.t) \in Seq(CallsOn(task.n, task.t))
    BY <1>1, AssignStaysWithin, VisitStaysWithin
  <2>4. Calls("assign", ast.node[task.n].args, task.t) \in Seq(CallsOn(task.n, task.t))
    <3>1. ast.node[task.n].args \in Seq(Held(task.n))
      BY <1>1, HeldLists
    <3>2. \A m \in Held(task.n) : Call("assign", m, task.t) \in CallsOn(task.n, task.t)
      BY DEF Call, CallsOn, Within, Checks
    <3>3. \A i \in DOMAIN ast.node[task.n].args : ast.node[task.n].args[i] \in Held(task.n)
      BY <3>1
    <3>4. QED
      BY <3>1, <3>2, <3>3, CallsAre
  <2>5. QED
    BY <1>2, <1>3, <2>1, <2>2, <2>3, <2>4
<1>7. QED
  BY <1>4, <1>5, <1>6

(* What is said of nodes, when the program and the homes stay.             *)
LEMMA SeatsSame ==
    ASSUME ast \in Programs, ast' = ast, home' = home
    PROVE  /\ \A n \in Nodes : Functions(n)' = Functions(n) /\ Simple(n)' = Simple(n)
           /\ \A n \in Nodes : \A t : Seated(n, t)' = Seated(n, t)
<1>1. /\ \A n \in Nodes : Functions(n)' = Functions(n)
      /\ \A n : kind(n)' = kind(n) /\ name(n)' = name(n) /\ TopLevel(n)' = TopLevel(n)
  BY FunctionsSame DEF kind, name, TopLevel
<1>2. \A n \in Nodes : Simple(n)' = Simple(n)
  BY <1>1 DEF Simple
<1>3. ASSUME NEW n \in Nodes, NEW t PROVE InTable(n, t)' = InTable(n, t)
  BY <1>1 DEF InTable
<1>4. ASSUME NEW n \in Nodes, NEW t PROVE Seated(n, t)' = Seated(n, t)
  BY <1>1, <1>2, <1>3 DEF Seated
<1>5. QED
  BY <1>1, <1>2, <1>4

LEMMA Pairs == \A x, y : <<x>> \o <<y>> = <<x, y>>
<1>1. ASSUME NEW x, NEW y PROVE <<x>> \o <<y>> = <<x, y>>
  <2>1. x \in {x, y} /\ y \in {x, y}
    OBVIOUS
  <2>2. QED
    BY <2>1, Pair
<1>2. QED
  BY <1>1

LEMMA OutsideKept == TypeInv /\ Outside /\ [Next]_vars => Outside'
<1> SUFFICES ASSUME TypeInv, Outside, [Next]_vars PROVE Outside'
  OBVIOUS
<1>1. ast \in Programs /\ stack_assign \in Seq(Nodes) /\ stack_visit \in Seq(Nodes)
  <2>1. Stacked \subseteq Nodes
    BY DEF Stacked
  <2>2. QED
    BY <2>1, SeqsGrow, NodesAre DEF TypeInv, StacksOK
<1>2. ast' = ast
  BY OtherSteps, CollectStep
<1>3. \A n \in Nodes : Functions(n)' = Functions(n)
  BY <1>1, <1>2, FunctionsSame
<1>4. Members(stack_assign) \subseteq Nodes /\ Members(stack_visit) \subseteq Nodes
  BY <1>1, MembersIn
<1>5. \A c \in Due : c.n \in Nodes
  BY MembersIn DEF Due, TypeInv, AgendaOK, ToCollect, ToCheck
<1>6. ASSUME Members(stack_assign') \subseteq Members(stack_assign), Members(stack_visit') \subseteq Members(stack_visit),
             \A c \in Due' : c.do \in Outermost => c \in Due \/ c.n \in Members(stack_assign) \cup Members(stack_visit)
      PROVE  Outside'
  BY <1>3, <1>4, <1>5, <1>6 DEF Outside
<1>7. CASE Collect
  <2>1. UNCHANGED <<stack_assign, stack_visit>> /\ \A c \in Due' : c.do = "collect"
    BY <1>7, CollectStep
  <2>2. QED
    BY <1>6, <2>1 DEF Outermost
<1>8. CASE Ask \/ Quiet
  BY <1>6, <1>8, AskStep, QuietKeeps
<1>9. CASE Finish
  <2>1. UNCHANGED <<agenda, stack_assign, stack_visit>>
    BY <1>9 DEF Finish, stacks
  <2>2. QED
    BY <1>6, <2>1 DEF Due, Members
<1>10. CASE PopVisit
  <2>1. PICK n : n = Head(stack_visit)
    OBVIOUS
  <2>2. /\ stack_assign' = stack_assign /\ stack_visit' = Tail(stack_visit) /\ stack_visit # <<>>
        /\ \E d : agenda' = <<Call(d, n, Root)>>
    BY <1>10, <2>1 DEF PopVisit, Entry
  <2>3. \A c \in Due' : c.n = n
    <3>1. PICK d : agenda' = <<Call(d, n, Root)>>
      BY <2>2
    <3>2. PICK c : c = Call(d, n, Root)
      OBVIOUS
    <3>3. agenda' = <<c>> /\ c.n = n
      BY <3>1, <3>2 DEF Call
    <3>4. QED
      BY <3>3 DEF Due, Members
  <2>4. Members(Tail(stack_visit)) \subseteq Members(stack_visit) /\ n \in Members(stack_visit)
    <3>1. \A s \in Seq(Nodes) : s # <<>> => /\ 1 \in DOMAIN s /\ Head(s) = s[1]
                                            /\ \A i \in DOMAIN Tail(s) : i + 1 \in DOMAIN s /\ Tail(s)[i] = s[i + 1]
      OBVIOUS
    <3>2. QED
      BY <1>1, <2>1, <2>2, <3>1 DEF Members
  <2>5. QED
    BY <1>6, <2>2, <2>3, <2>4
<1>11. CASE PopAssign
  <2> DEFINE k == Len(stack_assign)
             m == stack_assign[k]
  <2>1. /\ \E d : agenda' = <<Call(d, m, Root)>> \o <<Call("derive", m, Root)>>
        /\ stack_assign' = SubSeq(stack_assign, 1, k - 1) /\ stack_assign # <<>> /\ stack_visit' = stack_visit
    BY <1>11 DEF PopAssign, Entry
  <2>2. \A s \in Seq(Nodes) : s # <<>> =>
           /\ Len(s) \in DOMAIN s
           /\ \A i \in DOMAIN SubSeq(s, 1, Len(s) - 1) : i \in DOMAIN s /\ SubSeq(s, 1, Len(s) - 1)[i] = s[i]
    OBVIOUS
  <2>3. Members(stack_assign') \subseteq Members(stack_assign) /\ m \in Members(stack_assign)
    <3>1. /\ Len(stack_assign) \in DOMAIN stack_assign
          /\ \A i \in DOMAIN SubSeq(stack_assign, 1, Len(stack_assign) - 1) :
               i \in DOMAIN stack_assign /\ SubSeq(stack_assign, 1, Len(stack_assign) - 1)[i] = stack_assign[i]
      BY <1>1, <2>1, <2>2
    <3>2. QED
      BY <2>1, <3>1 DEF Members
  <2> HIDE DEF m
  <2>4. \A c \in Due' : c.n = m
    <3>1. PICK d : agenda' = <<Call(d, m, Root)>> \o <<Call("derive", m, Root)>>
      BY <2>1
    <3>2. PICK c, e : c = Call(d, m, Root) /\ e = Call("derive", m, Root)
      OBVIOUS
    <3>3. agenda' = <<c, e>> /\ c.n = m /\ e.n = m
      <4>1. agenda' = <<c>> \o <<e>>
        BY <3>1, <3>2
      <4>2. c.n = m /\ e.n = m
        BY <3>2 DEF Call
      <4>3. QED
        BY <4>1, <4>2, Pairs
    <3>4. QED
      BY <3>3 DEF Due, Members
  <2>5. QED
    BY <1>6, <2>1, <2>3, <2>4
<1>12. CASE Handler
  <2>1. stack_visit' = stack_visit /\ task \in Due
    BY <1>12, HandlerStep
  <2>2. \A c \in Due' : c.do \in Outermost => c \in Due
    <3>1. PICK t : Due' \subseteq CallsOn(task.n, t) \cup Due
      BY <1>12, HandlerMakes
    <3>2. QED
      BY <3>1 DEF CallsOn, Within, Outermost
  <2>3. CASE stack_assign' = stack_assign
    BY <1>6, <2>1, <2>2, <2>3
  <2>4. CASE Derive
    <3>1. /\ stack_assign' = stack_assign \o kids(task.n) /\ task.do = "derive" /\ task.n \in Nodes
      BY <2>4, TaskIs DEF Derive, Pushed, Doing
    <3>2. Functions(task.n) = {}
      BY <2>1, <3>1 DEF Outside, Outermost
    <3>3. kids(task.n) \in Seq(Nodes)
      BY <1>1, <3>1, KidsGoUp
    <3>4. Members(stack_assign') = Members(stack_assign) \cup Members(kids(task.n))
      BY <1>1, <3>1, <3>3, JoinedMembers
    <3>5. \A m \in Members(kids(task.n)) : m \in Nodes /\ Functions(m) = {}
      <4>1. CASE kind(task.n) = "function_def"
        <5>1. kids(task.n) = <<>>
          BY <1>1, <3>1, <4>1, Whole DEF IsProgram, kind, kids, Nodes
        <5>2. QED
          BY <5>1 DEF Members
      <4>2. CASE kind(task.n) # "function_def"
        <5>1. kids(task.n) \in NodeLists(ast.node[task.n])
          BY DEF NodeLists, kids
        <5>2. QED
          BY <1>1, <3>1, <3>2, <4>2, <5>1, FunctionsBelow
      <4>3. QED
        BY <4>1, <4>2
    <3>6. QED
      BY <1>3, <1>4, <1>5, <2>1, <2>2, <3>4, <3>5 DEF Outside
  <2>5. Derive \/ stack_assign' = stack_assign
    BY <1>12 DEF Handler, Enter, AssignLeaf, AssignNode, AssignFunctionDecl, Resolve, Support, Decide,
         PushType, TypeCall, VisitNode, Report, Condition, CheckCall, rest, stacks
  <2>6. QED
    BY <2>3, <2>4, <2>5
<1>13. QED
  BY <1>7, <1>8, <1>9, <1>10, <1>11, <1>12, Steps

(* Every call that is made is of a node whose table it is made with.       *)
LEMMA PlacedKept == TypeInv /\ Outside /\ Placed /\ FoundHome /\ [Next]_vars => Placed'
<1> SUFFICES ASSUME TypeInv, Outside, Placed, FoundHome, [Next]_vars PROVE Placed'
  OBVIOUS
<1>1. ast \in Programs /\ \A c \in Due : c.n \in Nodes
  BY NodesAre, MembersIn DEF Due, TypeInv, AgendaOK, ToCollect, ToCheck
<1>2. CASE Collect
  BY <1>2, CollectStep DEF Placed
<1>3. CASE ~Collect
  <2>1. ast' = ast /\ home' = home
    BY <1>3, OtherSteps
  <2>2. \A n \in Nodes : \A t : Seated(n, t)' = Seated(n, t)
    BY <1>1, <2>1, SeatsSame
  <2>3. ASSUME \A c \in Due' : c.do \notin Outermost \cup {"collect"} =>
                  c \in Due \/ (c.n \in Nodes /\ Seated(c.n, c.t))
        PROVE  Placed'
    BY <1>1, <2>2, <2>3 DEF Placed
  <2>4. CASE Ask \/ Quiet
    BY <2>3, <2>4, AskStep, QuietKeeps
  <2>5. CASE Handler
    <3>1. PICK t : /\ Due' \subseteq CallsOn(task.n, t) \cup Due
                   /\ \/ Due' \subseteq Due
                      \/ task.do \notin Outermost \cup {"collect"} /\ t = task.t
                      \/ task.do \in {"enter_assign", "enter_visit"} /\ 1 \in DOMAIN answers /\ t = answers[1]
      BY <2>5, HandlerMakes
    <3>2. task \in Due /\ Running /\ task.n \in Nodes /\ Fits(task)
      BY <2>5, HandlerStep, TaskIs
    <3>3. ASSUME Seated(task.n, t) PROVE \A c \in CallsOn(task.n, t) : c.n \in Nodes /\ Seated(c.n, c.t)
      <4>1. \A m \in {task.n} \cup Held(task.n) : m \in Nodes /\ Seated(m, t)
        BY <1>1, <3>2, <3>3, SeatedHeld, FunctionsAroundHeld
      <4>2. QED
        BY <4>1 DEF CallsOn
    <3>4. CASE Due' \subseteq Due
      BY <2>3, <3>4
    <3>5. CASE task.do \notin Outermost \cup {"collect"} /\ t = task.t
      BY <2>3, <3>1, <3>2, <3>3, <3>5 DEF Placed
    <3>6. CASE task.do \in {"enter_assign", "enter_visit"} /\ 1 \in DOMAIN answers /\ t = answers[1]
      <4>1. kind(task.n) = "function_def" /\ TopLevel(task.n)
        BY <3>2, <3>6 DEF Fits
      <4>2. Seated(task.n, t)
        BY <3>2, <3>6, <4>1 DEF Seated, FoundHome
      <4>3. QED
        BY <2>3, <3>1, <3>3, <4>2
    <3>7. QED
      BY <3>1, <3>4, <3>5, <3>6
  <2>6. CASE PopAssign \/ PopVisit
    <3>1. PICK n : n \in Members(stack_assign) \cup Members(stack_visit) /\ n \in Nodes
                   /\ \E d \in {"assign", "visit"} :
                        \/ agenda' = Entry(d, n) \o <<Call("derive", n, Root)>>
                        \/ agenda' = Entry(d, n)
      <4>1. Stacked \subseteq Nodes /\ stack_assign \in Seq(Stacked) /\ stack_visit \in Seq(Stacked)
        BY DEF Stacked, TypeInv, StacksOK
      <4>2. \A s \in Seq(Stacked) : s # <<>> => Len(s) \in DOMAIN s /\ 1 \in DOMAIN s /\ Head(s) = s[1]
                                                /\ s[Len(s)] \in Stacked /\ s[1] \in Stacked
        OBVIOUS
      <4>3. CASE PopAssign
        BY <4>1, <4>2, <4>3 DEF PopAssign, Members
      <4>4. CASE PopVisit
        BY <4>1, <4>2, <4>4 DEF PopVisit, Members
      <4>5. QED
        BY <2>6, <4>3, <4>4
    <3>2. PICK d \in {"assign", "visit"} : \/ agenda' = Entry(d, n) \o <<Call("derive", n, Root)>>
                                           \/ agenda' = Entry(d, n)
      BY <3>1
    <3>3. Functions(n) = {}
      BY <3>1 DEF Outside
    <3>4. kind(n) # "function_def" => Seated(n, Root)
      BY <3>3 DEF Seated, InTable
    <3>5. PICK c, e : e = Call("derive", n, Root) /\ c = Call(IF kind(n) = "function_def" THEN Entering(d) ELSE d, n, Root)
      OBVIOUS
    <3>6. /\ agenda' = <<c>> \o <<e>> \/ agenda' = <<c>>
          /\ e.do = "derive" /\ c.n = n /\ c.t = Root
          /\ c.do \in Outermost \/ kind(n) # "function_def"
      BY <3>2, <3>5 DEF Entry, Call, Entering, Outermost
    <3>7. \A x \in Due' : x = c \/ x = e
      <4>1. agenda' = <<c, e>> \/ agenda' = <<c>>
        BY <3>6, Pairs
      <4>2. QED
        BY <4>1 DEF Due, Members
    <3>8. QED
      BY <2>3, <3>1, <3>4, <3>6, <3>7 DEF Outermost
  <2>7. CASE Finish
    <3>1. Due' = Due
      BY <2>7 DEF Finish, Due, Members
    <3>2. QED
      BY <2>3, <3>1
  <2>8. QED
    BY <1>3, <2>4, <2>5, <2>6, <2>7, Steps
<1>4. QED
  BY <1>2, <1>3

(* The table evaluate finds for a function is the function's own.          *)
LEMMA HomeFound ==
    ASSUME TypeInv, HomesApart, UniqueFunctions, Running, task.do \in {"enter_assign", "enter_visit"},
           name(task.n) # GlobalName
    PROVE  ST!FoundTable(Root, ST!apply_scope(Root, name(task.n))) = home[task.n]
<1> DEFINE n == task.n
           q == <<GlobalName, name(n)>>
<1>1. /\ n \in Nodes /\ kind(n) = "function_def" /\ TopLevel(n) /\ ast \in Programs /\ name(n) \in Names
  BY TaskIs, NodesAre, Shapes DEF Fits, NamedKinds
<1>2. /\ Tab!ForestInv /\ Root \in live /\ Null \notin live /\ qa[Root] = <<GlobalName>> /\ GlobalName \in Names
      /\ children[Root] \in Seq(live)
  BY TablesAre, TableAssumption
<1>3. Entered(n)
  <2>1. Call("collect", n, Root) \notin Due
    <3>1. \A c \in Due : c.do # "collect"
      BY NoneCollected
    <3>2. Call("collect", n, Root).do = "collect"
      BY DEF Call
    <3>3. QED
      BY <3>1, <3>2
  <2>2. QED
    BY <1>1, <2>1 DEF TypeInv, HomesOK, TopLevel, Due
<1>4. ST!apply_scope(Root, name(n)) = q /\ q # qa[Root]
  <2>1. q = <<GlobalName>> \o <<name(n)>>
    BY Pairs
  <2>2. Tab!short_name(Root) = GlobalName
    BY <1>2 DEF Tab!short_name
  <2>3. Tab!apply_scope(Root, name(n)) = q
    BY <1>2, <2>1, <2>2 DEF Tab!apply_scope, Tab!create_qualified_name
  <2>4. Len(q) = 2 /\ Len(<<GlobalName>>) = 1
    OBVIOUS
  <2>5. QED
    BY <1>2, <2>3, <2>4, SameAnswers
<1>5. PICK g : g = Tab!FoundTable(Root, q)
  OBVIOUS
<1>6. g \in live /\ qa[g] = q
  <2>1. Tab!NearMatches(Root, q) # {}
    BY <1>3 DEF Entered, Members, Tab!NearMatches
  <2>2. QED
    BY <1>2, <1>5, <2>1, Tab!FoundTableAround, TableAssumption
<1>7. g # Root
  BY <1>4, <1>6
<1>8. PICK f \in Named({"function_def"}) : home[f] = g /\ qa[g][Len(qa[g])] = name(f)
  BY <1>6, <1>7 DEF HomesApart
<1>9. name(f) = name(n)
  <2>1. Len(q) = 2 /\ q[2] = name(n)
    OBVIOUS
  <2>2. QED
    BY <1>6, <1>8, <2>1
<1>10. f = n
  BY <1>1, <1>8, <1>9 DEF UniqueFunctions, Named
<1>11. QED
  BY <1>4, <1>5, <1>8, <1>10, SameAnswers

LEMMA FoundHomeKept == TypeInv /\ HomesApart /\ UniqueFunctions /\ FoundHome /\ [Next]_vars => FoundHome'
<1> SUFFICES ASSUME TypeInv, HomesApart, UniqueFunctions, FoundHome, [Next]_vars PROVE FoundHome'
  OBVIOUS
<1>1. CASE answers' = <<>>
  BY <1>1 DEF FoundHome
<1>2. CASE Quiet
  <2>1. UNCHANGED <<ast, agenda, answers, home>> /\ task' = task
    BY <1>2, QuietKeeps
  <2>2. name(task.n)' = name(task.n)
    BY <2>1 DEF name
  <2>3. QED
    BY <1>2, <2>1, <2>2, QuietKeeps DEF FoundHome
<1>3. CASE Ask
  <2>1. Running /\ task' = task /\ UNCHANGED <<ast, home>>
    BY <1>3, AskStep
  <2>2. name(task.n)' = name(task.n)
    BY <2>1 DEF name
  <2>3. ASSUME task.do \in {"enter_assign", "enter_visit"}, name(task.n) # GlobalName
        PROVE  \A i \in DOMAIN answers' : answers'[i] = home[task.n]
    <3>1. LookUps(task) = <<Look("find", Root)>>
      BY <2>3, LookUpsAre
    <3>2. Len(answers) = 0 /\ LookUps(task)[Len(answers) + 1] = Look("find", Root)
      <4>1. Len(answers) \in Nat /\ Len(answers) < Len(LookUps(task))
        BY <1>3, NodesAre DEF Ask
      <4>2. Len(LookUps(task)) = 1 /\ LookUps(task)[1] = Look("find", Root)
        BY <3>1
      <4>3. Len(answers) = 0
        BY <4>1, <4>2
      <4>4. QED
        BY <4>2, <4>3
    <3>3. answers = <<>>
      <4>1. PICK S : answers \in Seq(S)
        BY NodesAre
      <4>2. QED
        BY <3>2, <4>1
    <3>4. PICK x : x = ST!FoundTable(Root, ST!apply_scope(Root, name(task.n)))
      OBVIOUS
    <3>5. Look("find", Root).op = "find" /\ Look("find", Root).t = Root
      BY DEF Look
    <3>6. answers' = Append(answers, x)
      BY <1>3, <3>2, <3>4, <3>5 DEF Ask
    <3>7. answers' = <<x>>
      BY <3>3, <3>6
    <3>8. x = home[task.n]
      BY <2>1, <2>3, <3>4, HomeFound
    <3>9. QED
      BY <3>7, <3>8
  <2>4. QED
    BY <2>1, <2>2, <2>3 DEF FoundHome
<1>4. QED
  BY <1>1, <1>2, <1>3, Steps, CollectStep, HandlerStep, PopStep

(* The table of a function of the top level is linked to the global one,   *)
(* or to nothing.                                                          *)
LEMMA HomeIsNextToRoot ==
    ASSUME TypeInv, HomesApart, NEW f \in Nodes, TopLevel(f), kind(f) = "function_def",
           \A c \in Due : c.do # "collect"
    PROVE  home[f] \in live /\ parent[home[f]] \in {Root, Null}
<1>1. Entered(f)
  <2>1. Call("collect", f, Root).do = "collect"
    BY DEF Call
  <2>2. QED
    BY <2>1 DEF TypeInv, HomesOK, TopLevel, Due
<1>2. PICK g \in live : g = home[f] /\ qa[g] = <<GlobalName, name(f)>>
  BY <1>1 DEF Entered
<1>3. Len(qa[g]) = 2
  BY <1>2
<1>4. encl[g] \subseteq {Root}
  <2>1. /\ encl[g] \subseteq live /\ \A u \in encl[g] : Len(qa[u]) < Len(qa[g])
    BY <1>2, TablesAre DEF Tab!ForestInv, Tab!DeeperInside
  <2>2. \A u \in live \ {Root} : Len(qa[u]) >= 2
    BY DEF HomesApart
  <2>3. \A u \in live : Len(qa[u]) \in Nat
    BY TablesAre
  <2>4. QED
    BY <1>3, <2>1, <2>2, <2>3
<1>5. parent[g] \in encl[g] \cup {Null}
  BY <1>2, TablesAre DEF Tab!ForestInv, Tab!IInv, Tab!LinksLeadOut
<1>6. QED
  BY <1>2, <1>4, <1>5

LEMMA ResolvesLexically ==
    ASSUME TypeInv, ModsShow, HomesApart, Placed, UsesAnswered, Resolve, Simple(task.n),
           resolved'[task.n] # Null
    PROVE  IF Functions(task.n) = {} THEN resolved'[task.n] = Root
           ELSE \A f \in Functions(task.n) : resolved'[task.n] = Lex(home[f], name(task.n))
<1> DEFINE n == task.n
           t == task.t
           m == name(task.n)
<1>1. /\ Running /\ Answered /\ task.do = "resolve" /\ n \in Nodes /\ t \in live /\ kind(n) = "identifier"
      /\ ast \in Programs /\ m \in Names /\ task \in Due /\ \A c \in Due : c.do # "collect"
  BY TaskIs, NodesAre, Shapes, HandlerStep DEF Resolve, Doing, Fits, NamedKinds, Handler
<1>2. answers[3] = ST!GetAnswer(t, m) /\ answers[4] = ST!GetAnswer(Root, m)
  <2>1. LookUps(task) = <<Look("get", task.t), Look("get", Root), Look("get", task.t), Look("get", Root)>>
    BY <1>1, LookUpsAre
  <2>2. Len(answers) = 4
    BY <1>1, <2>1 DEF Answered
  <2>3. 3 \in DOMAIN answers /\ 4 \in DOMAIN answers
    BY <2>2, AnswerIs
  <2>4. answers[3] = ST!GetAnswer(Asked(3), m) /\ answers[4] = ST!GetAnswer(Asked(4), m)
    BY <1>1, <2>3 DEF UsesAnswered
  <2>5. QED
    BY <2>4 DEF Asked
<1>3. resolved'[n] = Preferred(answers[3], answers[4])
  <2>1. resolved' = [resolved EXCEPT ![n] = Preferred(answers[3], answers[4])]
    BY DEF Resolve
  <2>2. QED
    BY <1>1, <2>1, NodesAre
<1>4. InTable(n, t)
  BY <1>1 DEF Placed, Outermost, Seated
<1>5. /\ Root \in live /\ Null \notin live /\ parent[Root] = Null
      /\ ST!GetAnswer(Root, m) = IF Declared(Root, m) THEN Root ELSE Null
      /\ Declared(t, m) => ST!GetAnswer(t, m) = t
      /\ ~Declared(t, m) /\ parent[t] = Null => ST!GetAnswer(t, m) = Null
      /\ ~Declared(t, m) /\ parent[t] # Null => ST!GetAnswer(t, m) = ST!GetAnswer(parent[t], m)
  BY <1>1, TablesAre, AnswersDeclared
<1>6. CASE Functions(n) = {}
  <2>1. t = Root
    BY <1>4, <1>6 DEF InTable
  <2>2. QED
    BY <1>2, <1>3, <1>5, <1>6, <2>1 DEF Preferred
<1>7. CASE Functions(n) # {}
  <2>1. ASSUME NEW f \in Functions(n) PROVE resolved'[n] = Lex(home[f], m)
    <3>1. f \in Nodes /\ TopLevel(f) /\ kind(f) = "function_def"
      BY <1>1, <2>1, FunctionsAre DEF Simple, Functions
    <3>2. t = home[f]
      BY <1>4, <1>7, <2>1 DEF InTable
    <3>3. parent[t] \in {Root, Null}
      BY <1>1, <3>1, <3>2, HomeIsNextToRoot
    <3>4. CASE Declared(t, m)
      BY <1>1, <1>2, <1>3, <1>5, <3>2, <3>4 DEF Preferred, Lex
    <3>5. CASE ~Declared(t, m)
      <4>1. ST!GetAnswer(t, m) \in {Root, Null} /\ ST!GetAnswer(Root, m) \in {Root, Null}
        BY <1>5, <3>3, <3>5
      <4>2. resolved'[n] = Root
        BY <1>2, <1>3, <4>1 DEF Preferred
      <4>3. QED
        BY <3>2, <3>5, <4>2 DEF Lex
    <3>6. QED
      BY <3>4, <3>5
  <2>2. QED
    BY <1>7, <2>1
<1>8. QED
  BY <1>6, <1>7

LEMMA ResolvedKept ==
    ASSUME TypeInv, ModsShow, HomesApart, Placed, UsesAnswered, NoneResolved, ResolvedIn, [Next]_vars
    PROVE  ResolvedIn'
<1>1. ast \in Programs /\ ast' = ast /\ Nodes' = Nodes
  BY NodesAre, OtherSteps, CollectStep DEF Nodes
<1>2. CASE Collect
  <2>1. resolved' = resolved /\ \A n \in Nodes : resolved[n] = Null
    BY <1>2, CollectStep DEF NoneResolved
  <2>2. QED
    BY <1>1, <2>1 DEF ResolvedIn, Named
<1>3. CASE ~Collect
  <2>1. UNCHANGED <<ast, qa, underlying, home>>
    BY <1>3, OtherSteps
  <2>2. /\ \A n \in Nodes : Functions(n)' = Functions(n) /\ Simple(n)' = Simple(n)
        /\ (\A t, n : Declared(t, n)' = Declared(t, n)) /\ \A k : name(k)' = name(k) /\ kind(k)' = kind(k)
    BY <1>1, <2>1, SeatsSame, TablesSame
  <2>3. \A t, n : Lex(t, n)' = Lex(t, n)
    BY <2>2 DEF Lex
  <2>4. ASSUME NEW n \in Nodes, kind(n) = "identifier", resolved'[n] # Null, Simple(n)
        PROVE  IF Functions(n) = {} THEN resolved'[n] = Root
               ELSE \A f \in Functions(n) : resolved'[n] = Lex(home[f], name(n))
    <3>1. CASE Resolve /\ n = task.n
      BY <2>4, <3>1, ResolvesLexically
    <3>2. CASE ~(Resolve /\ n = task.n)
      <4>1. resolved'[n] = resolved[n]
        <5>1. CASE Resolve
          BY <3>2, <5>1, NodesAre DEF Resolve
        <5>2. CASE ~Resolve
          BY <1>3, <5>2, OthersResolveNothing, AskStep, PopStep, QuietKeeps, Steps
        <5>3. QED
          BY <5>1, <5>2
      <4>2. QED
        BY <2>4, <4>1 DEF ResolvedIn, Named
    <3>3. QED
      BY <3>1, <3>2
  <2>5. QED
    BY <1>1, <2>1, <2>2, <2>3, <2>4 DEF ResolvedIn, Named
<1>4. QED
  BY <1>2, <1>3

LEMMA LexKept ==
    ASSUME TypeInv, ModsShow, UsesAnswered, LexInv, [Next]_vars
    PROVE  LexInv'
<1>1. EnteredOnce' /\ HomesApart' /\ NoneResolved' /\ Outside'
  BY EntriesKept, HomesKept, NoneResolvedKept, OutsideKept DEF LexInv
<1>2. UniqueFunctions' => UniqueFunctions
  <2>1. ast' = ast
    BY OtherSteps, CollectStep
  <2>2. QED
    BY <2>1 DEF UniqueFunctions, Named, Nodes, kind, name
<1>3. ASSUME UniqueFunctions PROVE Placed' /\ FoundHome' /\ ResolvedIn'
  BY <1>3, PlacedKept, FoundHomeKept, ResolvedKept DEF LexInv
<1>4. QED
  BY <1>1, <1>2, <1>3 DEF LexInv

LEMMA LexInInv == TypeInv /\ LexInv => UsesResolveLexically
<1> SUFFICES ASSUME TypeInv, LexInv, UniqueFunctions, NEW n \in Named({"identifier"}), resolved[n] # Null,
                    \A f \in Functions(n) : TopLevel(f) /\ name(f) # GlobalName
             PROVE  LET own == {home[f] : f \in Functions(n)}
                        near == {t \in own : Declared(t, name(n))}
                    IN  resolved[n] \in (IF near = {} THEN {Root} ELSE near)
  BY DEF UsesResolveLexically
<1>1. IF Functions(n) = {} THEN resolved[n] = Root
      ELSE \A f \in Functions(n) : resolved[n] = Lex(home[f], name(n))
  BY DEF LexInv, ResolvedIn, Simple
<1>2. CASE Functions(n) = {}
  BY <1>1, <1>2
<1>3. CASE Functions(n) # {}
  <2> DEFINE own == {home[f] : f \in Functions(n)}
             near == {t \in own : Declared(t, name(n))}
  <2>1. ASSUME near = {} PROVE resolved[n] = Root
    <3>1. PICK f \in Functions(n) : TRUE
      BY <1>3
    <3>2. ~Declared(home[f], name(n))
      BY <2>1, <3>1
    <3>3. QED
      BY <1>1, <1>3, <3>1, <3>2 DEF Lex
  <2>2. ASSUME near # {} PROVE resolved[n] \in near
    <3>1. PICK f \in Functions(n) : Declared(home[f], name(n))
      BY <2>2
    <3>2. resolved[n] = home[f]
      BY <1>1, <1>3, <3>1 DEF Lex
    <3>3. QED
      BY <3>1, <3>2
  <2>3. QED
    BY <2>1, <2>2
<1>4. QED
  BY <1>2, <1>3

(* A name that is used in functions of the top level resolves to what the  *)
(* function declares, and to the global declaration otherwise, whatever    *)
(* links the look-ups before it have moved: every use is looked up in the  *)
(* table of its function, whose link leads to the global table or nowhere, *)
(* and the global table is asked as well.                                  *)
THEOREM NamesAlwaysLexical == ASSUME ModsShow PROVE Spec => []UsesResolveLexically
<1>1. TypeInv /\ UsesAnswered /\ LexInv /\ [Next]_vars => LexInv'
  BY LexKept
<1>2. Init => UsesAnswered
  BY DEF Init, UsesAnswered
<1>3. TypeInv /\ UsesAnswered /\ [Next]_vars => UsesAnswered'
  BY UsesAnsweredKept
<1>4. QED
  BY SemaInvariance, InitLex, <1>1, <1>2, <1>3, LexInInv, PTL DEF Spec
=============================================================================
