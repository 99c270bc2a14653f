----------------------------- MODULE SemaChecks -----------------------------
(***************************************************************************)
(* What the walk of the semantic analysis tells of a program, for any      *)
(* program the parser makes:                                               *)
(*   LinksAlwaysSurvive     its look-ups leave the links alone,            *)
(*   WalkCrashReported      none of them misses without an error,          *)
(*   FunctionsAlwaysReturn  an accepted function returns its type.         *)
(* The first two hold while no error is counted, where functions are as    *)
(* PlainFunctions says.  LinksInv is the invariant they follow from: each  *)
(* call is made with a table next to the global one, and every function a  *)
(* look-up of the visit asks for has been found before.                    *)
(*                                                                         *)
(* For the third, the check of a function reads what types[m] said of its  *)
(* returns m while types were assigned; the property is about the types    *)
(* the walk ends with.  Between the two, nodes are typed again and again:  *)
(* by the visit, by conditions, by the checks of operators.  ReturnsInv    *)
(* says that none of it reaches below a return of a function: what is      *)
(* under one is only typed by calls that its own push_type still follows.  *)
(***************************************************************************)
EXTENDS SemaProofs

-----------------------------------------------------------------------------
(* Look-ups from a table next to the global one.                           *)
NextToRoot(t) == t = Root \/ parent[t] = Root

LEMMA LinkedNextToRoot ==
    ASSUME TypeInv, NEW t \in live, ST!Linked(t), encl[t] \subseteq {Root}
    PROVE  NextToRoot(t)
BY DEF ST!Linked, NextToRoot

(* A climb that starts where it may stop ends there.                       *)
LEMMA StopsAtOnce ==
    ASSUME NEW p \in live \cup {Null}, NEW stops, p \in stops
    PROVE  ST!StopsAt(p, stops) = {p}
<1>1. p \in ST!StopsAt(p, stops)
  BY DEF ST!StopsAt
<1>2. ASSUME NEW x \in ST!StopsAt(p, stops) PROVE x = p
  <2> DEFINE S == {p}
  <2>1. S \in SUBSET (live \cup {Null}) /\ p \in S /\ S \ stops = {}
    OBVIOUS
  <2>2. x \in S
    BY <2>1 DEF ST!StopsAt
  <2>3. QED
    BY <2>2
<1>3. QED
  BY <1>1, <1>2

LEMMA SameLink ==
    ASSUME TypeInv, NEW t \in live, parent' = [parent EXCEPT ![t] = parent[t]]
    PROVE  parent' = parent
BY TablesAre

(* get stops at the global table, whatever it finds there.                 *)
LEMMA GetLeavesLinks ==
    ASSUME TypeInv, NEW t \in live, NEW n, NextToRoot(t), ST!get(t, n)
    PROVE  parent' = parent /\ crashed' = crashed
<1>1. Root \in live /\ parent[Root] = Null /\ Null \notin live
  BY TablesAre
<1>2. CASE parent[t] = Null
  BY <1>2 DEF ST!get
<1>3. CASE parent[t] = Root
  <2>1. Root \in ST!GetStops(n)
    BY <1>1 DEF ST!GetStops
  <2>2. ST!StopsAt(Root, ST!GetStops(n)) = {Root}
    BY <1>1, <2>1, StopsAtOnce
  <2>3. /\ parent' = parent \/ \E p \in ST!StopsAt(parent[t], ST!GetStops(n)) : parent' = [parent EXCEPT ![t] = p]
        /\ crashed' = crashed
    BY DEF ST!get
  <2>4. parent' = parent \/ parent' = [parent EXCEPT ![t] = parent[t]]
    BY <1>3, <2>2, <2>3
  <2>5. QED
    BY <2>3, <2>4, SameLink
<1>4. QED
  BY <1>1, <1>2, <1>3 DEF NextToRoot

(* get_sym_table from the global table has nowhere to climb, and does not  *)
(* climb where it finds what it is asked for.                              *)
LEMMA FindLeavesLinks ==
    ASSUME TypeInv, NEW t \in live, NEW q, ST!get_sym_table(t, q),
           t = Root \/ qa[t] = q \/ ST!NearMatches(t, q) # {}
    PROVE  parent' = parent /\ crashed' = crashed
<1>1. CASE qa[t] = q \/ ST!NearMatches(t, q) # {}
  BY <1>1 DEF ST!get_sym_table
<1>2. CASE t = Root
  <2>1. parent[t] = Null
    BY <1>2, TablesAre
  <2>2. \A stops : Null \in stops => ST!StopsAt(Null, stops) = {Null}
    BY StopsAtOnce
  <2>3. /\ parent' = parent \/ \E stops : Null \in stops /\ \E p \in ST!StopsAt(parent[t], stops) :
                               parent' = [parent EXCEPT ![t] = p]
        /\ crashed' = crashed
    BY DEF ST!get_sym_table
  <2>4. parent' = parent \/ parent' = [parent EXCEPT ![t] = parent[t]]
    BY <2>1, <2>2, <2>3
  <2>5. QED
    BY <2>3, <2>4, SameLink
<1>3. QED
  BY <1>1, <1>2

(* What get_sym_table finds from the global table.                         *)
LEMMA FoundFromRoot ==
    ASSUME TypeInv, NEW q, q # qa[Root]
    PROVE  /\ ST!FoundTable(Root, q) # Null <=> ST!NearMatches(Root, q) # {}
           /\ ST!FoundTable(Root, q) # Root
<1>1. Tab!ForestInv /\ Root \in live /\ parent[Root] = Null
  BY TablesAre
<1>2. CASE ST!NearMatches(Root, q) # {}
  <2>1. Tab!NearMatches(Root, q) # {}
    BY <1>2, SameAnswers
  <2>2. Tab!FoundTable(Root, q) # Null /\ Tab!FoundTable(Root, q) # Root
    BY <1>1, <2>1, Tab!FoundTableAround, TableAssumption
  <2>3. QED
    BY <1>2, <2>2, SameAnswers
<1>3. CASE ST!NearMatches(Root, q) = {}
  <2>1. PICK stops : stops = {Null} \cup {x \in live : qa[x] = q}
    OBVIOUS
  <2>2. ST!FoundTable(Root, q) = CHOOSE p \in ST!StopsAt(Null, stops) : TRUE
    BY <1>1, <1>3, <2>1 DEF ST!FoundTable
  <2>3. ST!StopsAt(Null, stops) = {Null}
    BY <2>1, StopsAtOnce
  <2>4. QED
    BY <1>1, <1>3, <2>2, <2>3, TablesAre
<1>4. QED
  BY <1>2, <1>3

(* Tables are added inside the table they are listed in.                   *)
ChildrenInside == \A u \in Tables : \A c \in Members(children[u]) : u \in live /\ encl[c] = encl[u] \cup {u}

(* While all links are where they were put, get_sym_table_from_unqualified *)
(* meets none that is cut, and finds a function of the global table        *)
(* without moving one.                                                     *)
LEMMA UnqualifiedLeavesLinks ==
    ASSUME TypeInv, ~crashed, ChildrenInside, \A u \in live : ST!Linked(u), NEW t \in live, NextToRoot(t), NEW n,
           ST!NearMatches(Root, <<GlobalName, n>>) # {}
    PROVE  /\ ST!get_sym_table_from_unqualified(t, n) => parent' = parent /\ crashed' = FALSE
           /\ ST!FoundUnqualified(t, n) # Null
<1>1. /\ Root \in live /\ parent[Root] = Null /\ Null \notin live /\ qa[Root] = <<GlobalName>>
      /\ children \in [Tables -> Seq(live)] /\ live \subseteq Tables /\ encl[Root] = {} /\ ~crashed
      /\ parent \in [Tables -> live \cup {Null}]
  <2>1. encl[Root] = {}
    BY TablesAre DEF Tab!ForestInv, Tab!RootIsOutermost
  <2>2. QED
    BY <2>1, TablesAre
<1>2. ASSUME NEW u \in live, NEW i \in DOMAIN children[u]
      PROVE  children[u][i] \in live /\ parent[children[u][i]] # Null
             /\ (u = Root => parent[children[u][i]] = Root)
  <2>1. children[u][i] \in live /\ children[u][i] \in Members(children[u])
    BY <1>1 DEF Members
  <2>2. encl[children[u][i]] = encl[u] \cup {u}
    BY <1>1, <2>1 DEF ChildrenInside
  <2>3. ST!Linked(children[u][i]) /\ children[u][i] # Root
    BY <1>1, <2>1, <2>2
  <2>4. QED
    BY <1>1, <2>1, <2>2, <2>3 DEF ST!Linked
<1>3. \A u \in live : ~ST!ScanCrashes(u, n)
  BY <1>2 DEF ST!ScanCrashes
<1>4. ST!ScanFinds(Root, n)
  <2>1. PICK i \in DOMAIN children[Root] : qa[children[Root][i]] = <<GlobalName, n>>
    BY DEF ST!NearMatches
  <2>2. ST!create_qualified_name(Root, n) = <<GlobalName, n>>
    BY <1>1, Pairs DEF ST!create_qualified_name
  <2>3. ST!UnqualifiedMatch(Root, n, i)
    BY <1>1, <1>2, <2>1, <2>2 DEF ST!UnqualifiedMatch
  <2>4. \A j \in 1..i : j \in DOMAIN children[Root]
    <3>1. children[Root] \in Seq(live)
      BY <1>1
    <3>2. QED
      BY <2>1, <3>1
  <2>5. QED
    BY <1>1, <1>2, <2>3, <2>4 DEF ST!ScanFinds
<1>5. ASSUME NEW u \in live, ST!ScanFinds(u, n) PROVE ST!FoundUnqualified(u, n) # Null
  <2>1. Tab!ScanFinds(u, n) /\ Tab!ForestInv
    BY <1>5, SameAnswers, TablesAre
  <2>2. Tab!FoundUnqualified(u, n) \in live
    BY <2>1, Tab!FoundUnqualifiedLives, TableAssumption
  <2>3. QED
    BY <1>1, <2>2, SameAnswers
<1>6. CASE ST!ScanFinds(t, n)
  <2>1. ST!get_sym_table_from_unqualified(t, n) => parent' = parent /\ crashed' = crashed
    BY <1>3, <1>6 DEF ST!get_sym_table_from_unqualified
  <2>2. QED
    BY <1>1, <1>5, <1>6, <2>1
<1>7. CASE ~ST!ScanFinds(t, n)
  <2>1. parent[t] = Root /\ t # Root
    BY <1>4, <1>7 DEF NextToRoot
  <2>2. PICK finds : finds = {Null} \cup {x \in live : ST!ScanFinds(x, n)}
    OBVIOUS
  <2>3. PICK stops : stops = {Null} \cup {x \in live : ST!ScanFinds(x, n) \/ ST!ScanCrashes(x, n)}
    OBVIOUS
  <2>4. ST!StopsAt(Root, finds) = {Root} /\ ST!StopsAt(Root, stops) = {Root}
    BY <1>1, <1>4, <2>2, <2>3, StopsAtOnce
  <2>5. ASSUME ST!get_sym_table_from_unqualified(t, n) PROVE parent' = parent /\ crashed' = FALSE
    <3>1. \E p \in ST!StopsAt(parent[t], stops) :
             parent' = [parent EXCEPT ![t] = p] /\ crashed' = (p # Null /\ ST!ScanCrashes(p, n))
      BY <1>3, <1>7, <2>3, <2>5 DEF ST!get_sym_table_from_unqualified
    <3>2. parent' = [parent EXCEPT ![t] = parent[t]] /\ crashed' = (Root # Null /\ ST!ScanCrashes(Root, n))
      BY <2>1, <2>4, <3>1
    <3>3. QED
      BY <1>1, <1>3, <3>2, SameLink
  <2>6. ST!FoundUnqualified(t, n) = ST!FoundUnqualified(Root, n)
    <3>1. Root = CHOOSE p \in ST!StopsAt(parent[t], finds) : TRUE
      BY <2>1, <2>4
    <3>2. QED
      BY <1>1, <1>4, <1>7, <2>2, <3>1 DEF ST!FoundUnqualified
  <2>7. QED
    BY <1>1, <1>4, <1>5, <2>5, <2>6
<1>8. QED
  BY <1>6, <1>7

-----------------------------------------------------------------------------
(* What the collection makes of the tables.                                *)
LEMMA TableEntered ==
    ASSUME TypeInv, EnterFunction
    PROVE  \E b \in Tables \ live :
             /\ live' = live \cup {b}
             /\ qa' = [qa EXCEPT ![b] = qa[task.t] \o <<name(task.n)>>]
             /\ parent' = [parent EXCEPT ![b] = task.t]
             /\ children' = [children EXCEPT ![task.t] = Append(@, b)]
             /\ encl' = [encl EXCEPT ![b] = encl[task.t] \cup {task.t}]
             /\ home' = [home EXCEPT ![task.n] = b]
             /\ agenda' = Calls("collect", Below(ast.node[task.n]), b) \o Tail(agenda)
             /\ kind(task.n) = "function_def"
<1>1. Tab!add_sym_table(task.t, name(task.n)) /\ live # Tables /\ live \subseteq Tables
  BY SameCalls, TablesAre DEF EnterFunction, Tab!add_sym_table
<1>2. PICK b : b = CHOOSE c \in Tables : c \notin live
  OBVIOUS
<1>3. b \in Tables \ live
  BY <1>1, <1>2
<1>4. /\ live' = live \cup {b}
      /\ qa' = [qa EXCEPT ![b] = qa[task.t] \o <<name(task.n)>>]
      /\ parent' = [parent EXCEPT ![b] = task.t]
      /\ children' = [children EXCEPT ![task.t] = Append(@, b)]
      /\ encl' = [encl EXCEPT ![b] = encl[task.t] \cup {task.t}]
  BY <1>1, <1>2 DEF Tab!add_sym_table, Tab!NewParent, Tab!create_qualified_name
<1>5. b = CHOOSE c \in live' : c \notin live
  BY <1>3, <1>4
<1>6. /\ home' = [home EXCEPT ![task.n] = b]
      /\ agenda' = Calls("collect", Below(ast.node[task.n]), b) \o Tail(agenda)
      /\ kind(task.n) = "function_def"
  BY <1>5 DEF EnterFunction, Then, At
<1>7. QED
  BY <1>3, <1>4, <1>6

LEMMA NoTableEntered ==
    ASSUME TypeInv, Collect, ~EnterFunction
    PROVE  /\ UNCHANGED <<live, qa, parent, children, encl>>
           /\ home' = [home EXCEPT ![task.n] = task.t]
           /\ agenda' = Calls("collect", Collected(task.n), task.t) \o Tail(agenda)
           /\ kind(task.n) # "function_def"
<1>1. CASE EnterSymbol
  <2>1. /\ UNCHANGED <<live, qa, parent, children, encl>>
        /\ home' = [home EXCEPT ![task.n] = task.t] /\ agenda' = <<>> \o Tail(agenda)
        /\ kind(task.n) \in {"function_arg", "variable_def", "variable_decl", "function_decl"}
    BY <1>1 DEF EnterSymbol, Then, At, ST!add, ST!tree
  <2>2. Collected(task.n) = <<>>
    BY <2>1, Zenon DEF Collected, Below, kind
  <2>3. Calls("collect", <<>>, task.t) = <<>>
    BY DEF Calls
  <2>4. QED
    BY <2>1, <2>2, <2>3
<1>2. CASE EnterBlock
  BY <1>2 DEF EnterBlock, Then, tables
<1>3. QED
  BY <1>1, <1>2 DEF Collect

(* ... and of the calls: those of the node it enters.                      *)
LEMMA CollectMakes ==
    ASSUME TypeInv, Collect
    PROVE  /\ task.n \in Nodes /\ task.t \in live /\ ast \in Programs /\ ast' = ast
           /\ task \in Due /\ task.do = "collect" /\ Due \subseteq {task} \cup Due'
           /\ home \in [Nodes -> live \cup {Null}]
           /\ Collected(task.n) \in Seq(Nodes) /\ Members(Collected(task.n)) \subseteq Held(task.n)
           /\ \E t \in live' :
                /\ EnterFunction => t \notin live
                /\ ~EnterFunction => t = task.t
                /\ home' = [home EXCEPT ![task.n] = t]
                /\ Due' \subseteq Due \cup {Call("collect", m, t) : m \in Members(Collected(task.n))}
                /\ \A m \in Members(Collected(task.n)) : Call("collect", m, t) \in Due'
<1>1. /\ Running /\ task \in Due /\ task.do = "collect" /\ ast' = ast /\ Due \subseteq {task} \cup Due' /\ live \subseteq live'
  BY CollectStep
<1>2. /\ task.n \in Nodes /\ task.t \in live /\ ast \in Programs /\ agenda # <<>> /\ agenda \in Seq(ToCollect)
      /\ home \in [Nodes -> live \cup {Null}]
  BY <1>1, TaskIs, NodesAre DEF Running, TypeInv, NodesOK
<1>3. Collected(task.n) \in Seq(Nodes) /\ Members(Collected(task.n)) \subseteq Held(task.n)
  <2>1. Collected(task.n) \in {<<>>, Below(ast.node[task.n])}
    BY DEF Collected
  <2>2. Below(ast.node[task.n]) \in Seq(Held(task.n)) /\ <<>> \in Seq(Held(task.n))
    BY <1>2, HeldLists
  <2>3. Held(task.n) \subseteq Nodes
    BY <1>2, FunctionsAroundHeld
  <2>4. QED
    BY <2>1, <2>2, <2>3, SeqsGrow, MembersIn
<1>4. \E t \in live' :
        /\ EnterFunction => t \notin live
        /\ ~EnterFunction => t = task.t
        /\ home' = [home EXCEPT ![task.n] = t]
        /\ agenda' = Calls("collect", Collected(task.n), t) \o Tail(agenda)
  <2>1. CASE EnterFunction
    <3>1. PICK b \in Tables \ live :
            /\ live' = live \cup {b} /\ home' = [home EXCEPT ![task.n] = b]
            /\ agenda' = Calls("collect", Below(ast.node[task.n]), b) \o Tail(agenda)
            /\ kind(task.n) = "function_def"
      BY <2>1, TableEntered
    <3>2. Collected(task.n) = Below(ast.node[task.n])
      BY <3>1 DEF Collected
    <3>3. QED
      BY <2>1, <3>1, <3>2
  <2>2. CASE ~EnterFunction
    BY <1>1, <1>2, <2>2, NoTableEntered
  <2>3. QED
    BY <2>1, <2>2
<1>5. PICK t \in live' :
        /\ EnterFunction => t \notin live
        /\ ~EnterFunction => t = task.t
        /\ home' = [home EXCEPT ![task.n] = t]
        /\ agenda' = Calls("collect", Collected(task.n), t) \o Tail(agenda)
  BY <1>4
<1> DEFINE S == [do : {"collect"}, n : Nodes, t : live']
           cs == Calls("collect", Collected(task.n), t)
<1>6. agenda \in Seq(S) /\ cs \in Seq(S)
  <2>1. ToCollect \subseteq S
    BY <1>1 DEF ToCollect
  <2>2. \A i \in DOMAIN Collected(task.n) : Call("collect", Collected(task.n)[i], t) \in S
    BY <1>3 DEF Call
  <2> HIDE DEF S
  <2>3. QED
    BY <1>2, <1>3, <2>1, <2>2, SeqsGrow, CallsAre
<1> HIDE DEF S
<1>7. Due' \subseteq Members(cs) \cup Due /\ Members(cs) \subseteq Due'
  <2> HIDE DEF cs
  <2>1. QED
    BY <1>2, <1>5, <1>6, DueAfter DEF cs
<1>8. Members(cs) = {Call("collect", m, t) : m \in Members(Collected(task.n))}
  BY CallMembers
<1>9. QED
  BY <1>1, <1>2, <1>3, <1>5, <1>7, <1>8

LEMMA ChildrenInsideKept == TypeInv /\ ChildrenInside /\ [Next]_vars => ChildrenInside'
<1> SUFFICES ASSUME TypeInv, ChildrenInside, [Next]_vars PROVE ChildrenInside'
  OBVIOUS
<1>1. CASE EnterFunction
  <2>1. PICK b \in Tables \ live :
             /\ live' = live \cup {b}
             /\ children' = [children EXCEPT ![task.t] = Append(@, b)]
             /\ encl' = [encl EXCEPT ![b] = encl[task.t] \cup {task.t}]
    BY <1>1, TableEntered
  <2>2. task.t \in live /\ live \subseteq Tables /\ children \in [Tables -> Seq(live)] /\ encl \in [Tables -> SUBSET live]
    BY <1>1, TablesAre, TaskIs DEF EnterFunction, At, Doing
  <2>3. ASSUME NEW u \in Tables, NEW c \in Members(children'[u])
        PROVE  u \in live' /\ encl'[c] = encl'[u] \cup {u}
    <3>1. CASE c \in Members(children[u])
      <4>1. c \in live /\ u \in live /\ encl[c] = encl[u] \cup {u}
        BY <2>2, <3>1, MembersIn DEF ChildrenInside
      <4>2. QED
        BY <2>1, <2>2, <4>1
    <3>2. CASE c \notin Members(children[u])
      <4>1. u = task.t /\ c \in Members(Append(children[u], b))
        BY <2>1, <2>2, <2>3, <3>2
      <4>2. c = b
        <5>1. \A s \in Seq(live) : \A i \in DOMAIN Append(s, b) : (i \in DOMAIN s /\ Append(s, b)[i] = s[i]) \/ Append(s, b)[i] = b
          OBVIOUS
        <5>2. QED
          BY <2>2, <3>2, <4>1, <5>1 DEF Members
      <4>3. QED
        BY <2>1, <2>2, <4>1, <4>2
    <3>3. QED
      BY <3>1, <3>2
  <2>4. QED
    BY <2>3 DEF ChildrenInside
<1>2. CASE ~EnterFunction
  <2>1. UNCHANGED <<live, children, encl>>
    BY <1>2, NoTableEntered, OtherSteps
  <2>2. QED
    BY <2>1 DEF ChildrenInside, Members
<1>3. QED
  BY <1>1, <1>2

-----------------------------------------------------------------------------
(* The tables of the calls: a call of a node in a function of the top      *)
(* level is made with the table of that function, any other with the       *)
(* global one.                                                             *)
OuterFunctions(n) == {f \in Functions(n) \cup {n} : kind(f) = "function_def" /\ TopLevel(f)}
SeatedIn(n, t) ==
    IF OuterFunctions(n) = {} THEN t = Root ELSE \E f \in OuterFunctions(n) : t = home[f]
SeatsPlain == \A c \in Due : c.do \notin Outermost \cup {"collect"} => SeatedIn(c.n, c.t)

LEMMA OuterHeld ==
    ASSUME ast \in Programs, NEW n \in Nodes, NEW m \in Held(n)
    PROVE  OuterFunctions(m) = OuterFunctions(n)
<1>1. /\ kind(m) = "function_def" => ~TopLevel(m)
      /\ Functions(m) = Functions(n) \cup (IF kind(n) = "function_def" THEN {n} ELSE {})
  BY FunctionsAroundHeld
<1>2. QED
  BY <1>1 DEF OuterFunctions

LEMMA SeatedSame ==
    ASSUME ast \in Programs, ast' = ast, home' = home, NEW n \in Nodes, NEW t
    PROVE  SeatedIn(n, t)' <=> SeatedIn(n, t)
<1>1. Functions(n)' = Functions(n) /\ \A m : kind(m)' = kind(m) /\ TopLevel(m)' = TopLevel(m)
  BY FunctionsSame DEF kind, TopLevel
<1>2. OuterFunctions(n)' = OuterFunctions(n)
  BY <1>1 DEF OuterFunctions
<1>3. QED
  BY <1>2 DEF SeatedIn

(* What a loop of evaluate starts: calls of one node, with the global      *)
(* table.                                                                  *)
LEMMA PopMakes ==
    ASSUME TypeInv, PopAssign \/ PopVisit
    PROVE  \E n \in Nodes :
             /\ PopAssign => n \in Members(stack_assign)
             /\ PopVisit => /\ n \in Members(stack_visit) /\ stack_assign = <<>>
                            /\ Members(stack_visit') \subseteq Members(stack_visit)
             /\ \A c \in Due' :
                  /\ c.n = n /\ c.t = Root
                  /\ c.do \in Outermost \/ (c.do \in {"assign", "visit"} /\ kind(n) # "function_def")
                  /\ PopAssign => c.do \in {"enter_assign", "assign", "derive"}
<1>1. Stacked \subseteq Nodes /\ stack_assign \in Seq(Stacked) /\ stack_visit \in Seq(Stacked)
  BY DEF Stacked, TypeInv, StacksOK
<1>2. \A s \in Seq(Stacked) : s # <<>> =>
         /\ Len(s) \in DOMAIN s /\ 1 \in DOMAIN s /\ Head(s) = s[1] /\ s[Len(s)] \in Stacked /\ s[1] \in Stacked
         /\ \A i \in DOMAIN Tail(s) : i + 1 \in DOMAIN s /\ Tail(s)[i] = s[i + 1]
  OBVIOUS
<1>3. PICK n \in Nodes, d \in {"assign", "visit"} :
         /\ PopAssign => n \in Members(stack_assign) /\ d = "assign"
         /\ PopVisit => /\ n \in Members(stack_visit) /\ stack_assign = <<>>
                        /\ Members(stack_visit') \subseteq Members(stack_visit)
         /\ \/ agenda' = Entry(d, n) \o <<Call("derive", n, Root)>>
            \/ agenda' = Entry(d, n)
  <2>1. CASE PopAssign
    <3>1. ~PopVisit
      BY <2>1 DEF PopAssign, PopVisit
    <3>2. QED
      BY <1>1, <1>2, <2>1, <3>1 DEF PopAssign, Members
  <2>2. CASE PopVisit
    <3>1. ~PopAssign
      BY <2>2 DEF PopAssign, PopVisit
    <3>2. stack_visit # <<>> /\ stack_assign = <<>> /\ stack_visit' = Tail(stack_visit) /\ agenda' = Entry("visit", Head(stack_visit))
      BY <2>2 DEF PopVisit
    <3>3. Head(stack_visit) \in Members(stack_visit) /\ Head(stack_visit) \in Nodes
          /\ Members(Tail(stack_visit)) \subseteq Members(stack_visit)
      BY <1>1, <1>2, <3>2 DEF Members
    <3>4. QED
      BY <3>1, <3>2, <3>3
  <2>3. QED
    BY <2>1, <2>2
<1>4. PICK c, e : e = Call("derive", n, Root) /\ c = Call(IF kind(n) = "function_def" THEN Entering(d) ELSE d, n, Root)
  OBVIOUS
<1>5. /\ agenda' = <<c>> \o <<e>> \/ agenda' = <<c>>
      /\ e.do = "derive" /\ c.n = n /\ e.n = n /\ c.t = Root /\ e.t = Root
      /\ c.do \in Outermost \/ (c.do \in {"assign", "visit"} /\ kind(n) # "function_def")
      /\ PopAssign => c.do \in {"enter_assign", "assign"}
  BY <1>3, <1>4 DEF Entry, Call, Entering, Outermost
<1>6. \A x \in Due' : x = c \/ x = e
  <2>1. agenda' = <<c, e>> \/ agenda' = <<c>>
    BY <1>5, Pairs
  <2>2. QED
    BY <2>1 DEF Due, Members
<1>7. QED
  BY <1>3, <1>5, <1>6 DEF Outermost

LEMMA SeatsPlainKept ==
    ASSUME TypeInv, Outside, SeatsPlain, FoundHome, PlainFunctions, [Next]_vars
    PROVE  SeatsPlain'
<1>1. ast \in Programs /\ \A c \in Due : c.n \in Nodes
  BY NodesAre, MembersIn DEF Due, TypeInv, AgendaOK, ToCollect, ToCheck
<1>2. CASE Collect
  BY <1>2, CollectStep DEF SeatsPlain
<1>3. CASE ~Collect
  <2>1. ast' = ast /\ home' = home
    BY <1>3, OtherSteps
  <2>2. \A n \in Nodes : \A t : SeatedIn(n, t)' <=> SeatedIn(n, t)
    BY <1>1, <2>1, SeatedSame
  <2>3. ASSUME \A c \in Due' : c.do \notin Outermost \cup {"collect"} =>
                  c \in Due \/ (c.n \in Nodes /\ SeatedIn(c.n, c.t))
        PROVE  SeatsPlain'
    BY <1>1, <2>2, <2>3 DEF SeatsPlain
  <2>4. CASE Ask \/ Quiet
    BY <2>3, <2>4, AskStep, QuietKeeps
  <2>5. CASE Handler
    <3>1. PICK t : /\ Due' \subseteq CallsOn(task.n, t) \cup Due
                   /\ \/ Due' \subseteq Due
                      \/ task.do \notin Outermost \cup {"collect"} /\ t = task.t
                      \/ task.do \in {"enter_assign", "enter_visit"} /\ 1 \in DOMAIN answers /\ t = answers[1]
      BY <2>5, HandlerMakes
    <3>2. task \in Due /\ Running /\ task.n \in Nodes /\ Fits(task)
      BY <2>5, HandlerStep, TaskIs
    <3>3. ASSUME SeatedIn(task.n, t) PROVE \A c \in CallsOn(task.n, t) : c.n \in Nodes /\ SeatedIn(c.n, c.t)
      <4>1. \A m \in {task.n} \cup Held(task.n) : m \in Nodes /\ OuterFunctions(m) = OuterFunctions(task.n)
        BY <1>1, <3>2, OuterHeld, FunctionsAroundHeld
      <4>2. \A m \in {task.n} \cup Held(task.n) : m \in Nodes /\ SeatedIn(m, t)
        BY <3>3, <4>1 DEF SeatedIn
      <4>3. QED
        BY <4>2 DEF CallsOn
    <3>4. CASE Due' \subseteq Due
      BY <2>3, <3>4
    <3>5. CASE task.do \notin Outermost \cup {"collect"} /\ t = task.t
      BY <2>3, <3>1, <3>2, <3>3, <3>5 DEF SeatsPlain
    <3>6. CASE task.do \in {"enter_assign", "enter_visit"} /\ 1 \in DOMAIN answers /\ t = answers[1]
      <4>1. kind(task.n) = "function_def" /\ TopLevel(task.n)
        BY <3>2, <3>6 DEF Fits
      <4>2. name(task.n) # GlobalName
        BY <3>2, <4>1 DEF PlainFunctions, Named
      <4>3. t = home[task.n]
        BY <3>2, <3>6, <4>2 DEF FoundHome
      <4>4. SeatedIn(task.n, t)
        BY <4>1, <4>3 DEF SeatedIn, OuterFunctions
      <4>5. QED
        BY <2>3, <3>1, <3>3, <4>4
    <3>7. QED
      BY <3>1, <3>4, <3>5, <3>6
  <2>6. CASE PopAssign \/ PopVisit
    <3>1. PICK n \in Nodes :
            /\ n \in Members(stack_assign) \cup Members(stack_visit)
            /\ \A c \in Due' : c.n = n /\ c.t = Root /\ (c.do \in Outermost \/ kind(n) # "function_def")
      BY <2>6, PopMakes
    <3>2. Functions(n) = {}
      BY <3>1 DEF Outside
    <3>3. kind(n) # "function_def" => SeatedIn(n, Root)
      BY <3>2 DEF SeatedIn, OuterFunctions
    <3>4. QED
      BY <2>3, <3>1, <3>3
  <2>7. CASE Finish
    <3>1. Due' = Due
      BY <2>7 DEF Finish, Due, Members
    <3>2. QED
      BY <2>3, <3>1
  <2>8. QED
    BY <1>3, <2>4, <2>5, <2>6, <2>7, Steps
<1>4. QED
  BY <1>2, <1>3

(* So the look-ups of the walk start next to the global table.             *)
LEMMA SeatsNextToRoot ==
    ASSUME TypeInv, HomesApart, SeatsPlain, \A t \in live : ST!Linked(t),
           NEW c \in Due, c.do \notin Outermost \cup {"collect"}, \A d \in Due : d.do # "collect"
    PROVE  c.t \in live /\ NextToRoot(c.t)
<1>1. c.t = Root \/ \E f \in OuterFunctions(c.n) : c.t = home[f]
  BY DEF SeatsPlain, SeatedIn
<1>2. CASE c.t = Root
  BY <1>2, TablesAre DEF NextToRoot
<1>3. CASE c.t # Root
  <2>1. PICK f \in OuterFunctions(c.n) : c.t = home[f]
    BY <1>1, <1>3
  <2>2. c.n \in Nodes /\ ast \in Programs
    BY NodesAre, MembersIn DEF Due, TypeInv, AgendaOK, ToCollect, ToCheck
  <2>3. f \in Nodes /\ TopLevel(f) /\ kind(f) = "function_def"
    BY <2>2, FunctionsAre DEF OuterFunctions
  <2>4. home[f] \in live /\ parent[home[f]] \in {Root, Null}
    BY <2>3, HomeIsNextToRoot
  <2>5. ST!Linked(c.t)
    BY <2>1, <2>4
  <2>6. QED
    BY <1>3, <2>1, <2>4, <2>5 DEF ST!Linked, NextToRoot
<1>4. QED
  BY <1>2, <1>3

-----------------------------------------------------------------------------
(* What the collection leaves: the table of a function that is nested in   *)
(* another one, listed in that one's; and every node entered that it goes  *)
(* down to, which is what the visit goes down to later.                    *)
CollectedIn == \A c \in Due : c.do = "collect" => \A f \in Nodes : Functions(c.n) = {f} => c.t = home[f]
NestedEntered ==
    \A n \in Named({"function_def"}) : \A f \in Nodes :
        (Functions(n) = {f} /\ home[n] # Null) =>
            /\ home[f] # Null
            /\ home[n] \in Members(children[home[f]])
            /\ qa[home[n]] = qa[home[f]] \o <<name(n)>>
ToEnter(n) == home[n] # Null \/ DueFor(n, "collect")
AllEntered ==
    /\ \A n \in Members(ast.top) : ToEnter(n)
    /\ \A n \in Nodes : home[n] # Null => \A m \in Members(Collected(n)) : ToEnter(m)

LEMMA CollectedInKept ==
    ASSUME TypeInv, EnteredOnce, CollectedIn, [Next]_vars
    PROVE  CollectedIn'
<1>1. ast \in Programs /\ ast' = ast /\ Nodes' = Nodes /\ Null \notin live
  BY NodesAre, OtherSteps, CollectStep DEF Nodes
<1>2. \A n \in Nodes : Functions(n)' = Functions(n)
  BY <1>1, FunctionsSame
<1>3. \A c \in Due : c.n \in Nodes /\ c.t \in live
  BY MembersIn DEF Due, TypeInv, AgendaOK, ToCollect, ToCheck
<1>4. CASE Collect
  <2>1. PICK n : n = task.n
    OBVIOUS
  <2>2. PICK t \in live' :
          /\ ~EnterFunction => t = task.t
          /\ home' = [home EXCEPT ![n] = t]
          /\ Due' \subseteq Due \cup {Call("collect", m, t) : m \in Members(Collected(n))}
    BY <1>4, <2>1, CollectMakes
  <2>3. n \in Nodes /\ home \in [Nodes -> live \cup {Null}] /\ task \in Due /\ task.do = "collect"
        /\ Members(Collected(n)) \subseteq Held(n)
    BY <1>4, <2>1, CollectMakes
  <2>4. home[n] = Null
    BY <2>1, <2>3 DEF EnteredOnce
  <2>5. ASSUME NEW c \in Due, c.do = "collect", NEW f \in Nodes, Functions(c.n) = {f}
        PROVE  c.t = home'[f]
    <3>1. c.t = home[f] /\ c.t # Null
      BY <1>1, <1>3, <2>5 DEF CollectedIn
    <3>2. f # n
      BY <2>4, <3>1
    <3>3. QED
      BY <2>2, <2>3, <2>5, <3>1, <3>2
  <2>6. ASSUME NEW m \in Members(Collected(n)), NEW f \in Nodes, Functions(m) = {f}
        PROVE  t = home'[f]
    <3>1. Functions(m) = Functions(n) \cup (IF kind(n) = "function_def" THEN {n} ELSE {})
      BY <1>1, <2>3, FunctionsAroundHeld
    <3>2. CASE kind(n) = "function_def"
      BY <2>2, <2>3, <2>6, <3>1, <3>2
    <3>3. CASE kind(n) # "function_def"
      <4>1. ~EnterFunction
        BY <2>1, <3>3 DEF EnterFunction, At
      <4>2. Functions(n) = {f} /\ t = task.t
        BY <2>2, <2>6, <3>1, <3>3, <4>1
      <4>3. task.t = home[f] /\ task.t # Null
        BY <1>1, <1>3, <2>1, <2>3, <4>2 DEF CollectedIn
      <4>4. f # n
        BY <2>4, <4>3
      <4>5. QED
        BY <2>2, <2>3, <2>6, <4>2, <4>3, <4>4
    <3>4. QED
      BY <3>2, <3>3
  <2>7. \A m : Call("collect", m, t).n = m /\ Call("collect", m, t).t = t
    BY DEF Call
  <2>8. \A m \in Members(Collected(n)) : m \in Nodes
    BY <1>1, <2>3, FunctionsAroundHeld
  <2>9. ASSUME NEW c \in Due', c.do = "collect", NEW f \in Nodes, Functions(c.n)' = {f} PROVE c.t = home'[f]
    <3>1. c.n \in Nodes
      BY <1>3, <2>2, <2>7, <2>8
    <3>2. Functions(c.n) = {f}
      BY <1>2, <2>9, <3>1
    <3>3. QED
      BY <2>2, <2>5, <2>6, <2>7, <2>9, <3>2
  <2>10. QED
    BY <1>1, <2>9 DEF CollectedIn
<1>5. CASE ~Collect
  <2>1. home' = home /\ ((\A c \in Due' : c.do # "collect") \/ Due' = Due)
    BY <1>5, OtherSteps
  <2>2. QED
    BY <1>1, <1>2, <1>3, <2>1 DEF CollectedIn
<1>6. QED
  BY <1>4, <1>5

LEMMA NestedEnteredKept ==
    ASSUME TypeInv, EnteredOnce, CollectedIn, NestedEntered, [Next]_vars
    PROVE  NestedEntered'
<1>1. ast \in Programs /\ ast' = ast /\ Nodes' = Nodes /\ Null \notin live
  BY NodesAre, OtherSteps, CollectStep DEF Nodes
<1>2. /\ \A n \in Nodes : Functions(n)' = Functions(n)
      /\ \A n : kind(n)' = kind(n) /\ name(n)' = name(n)
      /\ Named({"function_def"})' = Named({"function_def"}) /\ Named({"function_def"}) \subseteq Nodes
  BY <1>1, FunctionsSame DEF kind, name, Named
<1>3. CASE Collect
  <2>1. PICK k : k = task.n
    OBVIOUS
  <2>2. PICK t \in live' : (~EnterFunction => t = task.t) /\ home' = [home EXCEPT ![k] = t]
    BY <1>3, <2>1, CollectMakes
  <2>3. k \in Nodes /\ home \in [Nodes -> live \cup {Null}] /\ task \in Due /\ task.do = "collect" /\ task.t \in live
    BY <1>3, <2>1, CollectMakes
  <2>4. home[k] = Null
    BY <2>1, <2>3 DEF EnteredOnce
  <2>5. /\ \A u \in live : qa'[u] = qa[u]
        /\ \A u \in live : Members(children[u]) \subseteq Members(children'[u])
    <3>1. CASE EnterFunction
      <4>1. PICK b \in Tables \ live :
              /\ qa' = [qa EXCEPT ![b] = qa[task.t] \o <<name(task.n)>>]
              /\ children' = [children EXCEPT ![task.t] = Append(@, b)]
        BY <3>1, TableEntered
      <4>2. /\ live \subseteq Tables /\ qa \in [Tables -> Seq(Names)] /\ children \in [Tables -> Seq(live)]
        BY TablesAre
      <4>3. \A s \in Seq(live) : \A i \in DOMAIN s : i \in DOMAIN Append(s, b) /\ Append(s, b)[i] = s[i]
        OBVIOUS
      <4>4. \A s \in Seq(live) : Members(s) \subseteq Members(Append(s, b))
        BY <4>3 DEF Members
      <4>5. \A u \in live : children[u] \in Seq(live) /\ children'[u] \in {children[u], Append(children[u], b)}
        BY <4>1, <4>2
      <4>6. \A u \in live : qa'[u] = qa[u]
        BY <4>1, <4>2
      <4>7. QED
        BY <4>4, <4>5, <4>6
    <3>2. CASE ~EnterFunction
      BY <1>3, <3>2, NoTableEntered
    <3>3. QED
      BY <3>1, <3>2
  <2>6. ASSUME NEW n \in Named({"function_def"}), NEW f \in Nodes, Functions(n) = {f}, home'[n] # Null
        PROVE  /\ home'[f] # Null
               /\ home'[n] \in Members(children'[home'[f]])
               /\ qa'[home'[n]] = qa'[home'[f]] \o <<name(n)>>
    <3>1. CASE n # k
      <4>1. home'[n] = home[n]
        BY <1>2, <2>2, <2>3, <3>1
      <4>2. /\ home[f] # Null /\ home[n] \in Members(children[home[f]])
            /\ qa[home[n]] = qa[home[f]] \o <<name(n)>>
        BY <2>6, <4>1 DEF NestedEntered
      <4>3. home'[f] = home[f] /\ home[f] \in live /\ home[n] \in live
        BY <1>2, <2>2, <2>3, <2>4, <2>6, <4>1, <4>2
      <4>4. QED
        BY <2>5, <4>1, <4>2, <4>3
    <3>2. CASE n = k
      <4>1. EnterFunction
        BY <1>3, <2>1, <2>6, <3>2, NoTableEntered DEF Named
      <4>2. PICK b \in Tables \ live :
              /\ qa' = [qa EXCEPT ![b] = qa[task.t] \o <<name(k)>>]
              /\ children' = [children EXCEPT ![task.t] = Append(@, b)]
              /\ home' = [home EXCEPT ![k] = b]
        BY <2>1, <4>1, TableEntered
      <4>3. task.t = home[f]
        BY <2>1, <2>3, <2>6, <3>2 DEF CollectedIn
      <4>4. f # k /\ home'[f] = task.t /\ home'[k] = b
        BY <1>1, <2>3, <2>4, <4>2, <4>3
      <4>5. /\ live \subseteq Tables /\ qa \in [Tables -> Seq(Names)] /\ children \in [Tables -> Seq(live)]
        BY TablesAre
      <4>6. b \in Members(children'[task.t])
        <5>1. \A s \in Seq(live) : Len(s) + 1 \in DOMAIN Append(s, b) /\ Append(s, b)[Len(s) + 1] = b
          OBVIOUS
        <5>2. children'[task.t] = Append(children[task.t], b) /\ children[task.t] \in Seq(live)
          BY <2>3, <4>2, <4>5
        <5>3. QED
          BY <5>1, <5>2 DEF Members
      <4>7. qa'[b] = qa[task.t] \o <<name(k)>> /\ qa'[task.t] = qa[task.t]
        BY <2>3, <4>2, <4>5
      <4>8. QED
        BY <1>1, <2>3, <3>2, <4>4, <4>6, <4>7
    <3>3. QED
      BY <3>1, <3>2
  <2>7. QED
    BY <1>1, <1>2, <2>6 DEF NestedEntered
<1>4. CASE ~Collect
  <2>1. UNCHANGED <<qa, children, home>>
    BY <1>4, OtherSteps
  <2>2. QED
    BY <1>1, <1>2, <2>1 DEF NestedEntered, Members
<1>5. QED
  BY <1>3, <1>4

LEMMA AllEnteredKept ==
    ASSUME TypeInv, AllEntered, [Next]_vars
    PROVE  AllEntered'
<1>1. ast' = ast /\ Nodes' = Nodes /\ \A n : Collected(n)' = Collected(n)
  BY OtherSteps, CollectStep DEF Nodes, Collected, kind
<1>2. CASE Collect
  <2>1. PICK k : k = task.n
    OBVIOUS
  <2>2. PICK t \in live' :
          /\ home' = [home EXCEPT ![k] = t]
          /\ \A m \in Members(Collected(k)) : Call("collect", m, t) \in Due'
    BY <1>2, <2>1, CollectMakes
  <2>3. k \in Nodes /\ home \in [Nodes -> live \cup {Null}] /\ Due \subseteq {task} \cup Due'
    BY <1>2, <2>1, CollectMakes
  <2>4. t # Null
    <3>1. TypeInv'
      BY NextTypes
    <3>2. (TypeInv => Null \notin live)'
      BY TablesAre, PTL
    <3>3. QED
      BY <3>1, <3>2
  <2>5. \A m : Call("collect", m, t).n = m /\ Call("collect", m, t).do = "collect"
    BY DEF Call
  <2>6. \A m \in Nodes : ToEnter(m) => ToEnter(m)'
    <3>1. ASSUME NEW m \in Nodes, home[m] # Null PROVE ToEnter(m)'
      BY <2>2, <2>3, <2>4, <3>1 DEF ToEnter
    <3>2. ASSUME NEW m \in Nodes, NEW c \in Due, c.n = m, c.do = "collect" PROVE ToEnter(m)'
      <4>1. CASE c \in Due'
        BY <3>2, <4>1 DEF ToEnter, DueFor
      <4>2. CASE c = task
        BY <2>1, <2>2, <2>3, <2>4, <3>2, <4>2 DEF ToEnter
      <4>3. QED
        BY <2>3, <4>1, <4>2
    <3>3. QED
      BY <3>1, <3>2 DEF ToEnter, DueFor
  <2>7. \A n \in Nodes : Members(Collected(n)) \subseteq Nodes
    BY NodesAre, BelowIs, MembersIn
  <2>8. Members(ast.top) \subseteq Nodes
    BY NodesAre, Numbered DEF Members
  <2>9. ASSUME NEW n \in Nodes, home'[n] # Null, NEW m \in Members(Collected(n)) PROVE ToEnter(m)'
    <3>1. CASE n = k
      BY <2>2, <2>5, <2>9, <3>1 DEF ToEnter, DueFor
    <3>2. CASE n # k
      BY <2>2, <2>3, <2>6, <2>7, <2>9, <3>2 DEF AllEntered
    <3>3. QED
      BY <3>1, <3>2
  <2>10. QED
    BY <1>1, <2>6, <2>8, <2>9 DEF AllEntered
<1>3. CASE ~Collect
  <2>1. home' = home /\ \A c \in Due : c.do = "collect" => c \in Due'
    <3>1. home' = home
      BY <1>3, OtherSteps
    <3>2. CASE Handler
      BY <3>1, <3>2, HandlerStep
    <3>3. CASE PopAssign \/ PopVisit \/ Finish
      BY <3>1, <3>3, PopStep
    <3>4. CASE Ask \/ Quiet
      BY <3>1, <3>4, AskStep, QuietKeeps
    <3>5. QED
      BY <1>3, <3>2, <3>3, <3>4, Steps
  <2>2. \A m : ToEnter(m) => ToEnter(m)'
    BY <2>1 DEF ToEnter, DueFor
  <2>3. QED
    BY <1>1, <2>1, <2>2 DEF AllEntered
<1>4. QED
  BY <1>2, <1>3

-----------------------------------------------------------------------------
(* The calls of the visit that end in a look-up of a function, and what    *)
(* makes them: visits alone, of the node and of what is collected of it.   *)
Visiting == {"enter_visit", "visit", "check_call", "not_duplicated"}

LEMMA TupleMembers ==
    /\ Members(<<>>) = {}
    /\ \A x : Members(<<x>>) = {x}
    /\ \A x, y : Members(<<x, y>>) = {x, y}
    /\ \A x, y, z : Members(<<x, y, z>>) = {x, y, z}
    /\ \A w, x, y, z : Members(<<w, x, y, z>>) = {w, x, y, z}
BY DEF Members

LEMMA CallsDo ==
    ASSUME NEW d, NEW ns, NEW t
    PROVE  \A c \in Members(Calls(d, ns, t)) : c.do = d /\ c.n \in Members(ns)
BY CallMembers DEF Call

LEMMA CallsAreCalls ==
    ASSUME NEW D, NEW d \in D, NEW ns \in Seq(Nodes), NEW t
    PROVE  Calls(d, ns, t) \in Seq([do : D, n : Nodes, t : {t}])
<1>1. \A i \in DOMAIN ns : ns[i] \in Nodes
  OBVIOUS
<1>2. \A i \in DOMAIN ns : Call(d, ns[i], t) \in [do : D, n : Nodes, t : {t}]
  BY <1>1 DEF Call
<1>3. QED
  BY <1>2, CallsAre

LEMMA AssignVisitsNone ==
    ASSUME ast \in Programs, NEW n \in Nodes, NEW t
    PROVE  \A c \in Members(AssignCalls(n, t)) : c.do \notin Visiting
<1>1. \A d, m, u : Call(d, m, u).do = d
  BY DEF Call
<1>2. \A ns, u : \A c \in Members(Calls("assign", ns, u)) : c.do = "assign"
  BY CallsDo
<1>3. CASE kind(n) = "expression"
  <2> DEFINE D == {"assign", "support", "decide"}
             C == [do : D, n : Nodes, t : {t}]
  <2>1. AssignCalls(n, t) = Calls("assign", Operands(n), t) \o <<Call("support", n, t), Call("decide", n, t)>>
    BY <1>3, Zenon DEF AssignCalls
  <2>2. <<Call("support", n, t), Call("decide", n, t)>> \in Seq(C)
    BY DEF Call
  <2>3. Calls("assign", Operands(n), t) \in Seq(C)
    BY OperandsWithin, CallsAreCalls
  <2>4. AssignCalls(n, t) \in Seq(C)
    BY <2>1, <2>2, <2>3, Joined
  <2>5. \A c \in C : c.do \notin Visiting
    BY DEF Visiting
  <2> HIDE DEF C
  <2>6. QED
    BY <2>4, <2>5, MembersIn
<1>4. CASE kind(n) = "return"
  <2>1. AssignCalls(n, t)
          = <<Call("support", kids(n)[1], t), Call("assign", kids(n)[1], t), Call("push_type", n, t)>>
    BY <1>4, Zenon DEF AssignCalls
  <2>2. QED
    BY <1>1, <2>1, TupleMembers DEF Visiting
<1>5. CASE kind(n) = "unary"
  <2>1. AssignCalls(n, t) = <<Call("support", kids(n)[1], t), Call("assign", kids(n)[1], t)>>
    BY <1>5, Zenon DEF AssignCalls
  <2>2. QED
    BY <1>1, <2>1, TupleMembers DEF Visiting
<1>6. CASE kind(n) \in {"identifier", "print", "function_call"}
  <2>1. kind(n) = "identifier" => AssignCalls(n, t) = <<Call("resolve", n, t)>>
    BY Zenon DEF AssignCalls
  <2>2. kind(n) = "print" => AssignCalls(n, t) = <<Call("assign", kids(n)[1], t)>>
    BY Zenon DEF AssignCalls
  <2>3. kind(n) = "function_call" => AssignCalls(n, t) = <<Call("type_call", n, t)>>
    BY Zenon DEF AssignCalls
  <2>4. QED
    BY <1>1, <1>6, <2>1, <2>2, <2>3, TupleMembers DEF Visiting
<1>7. CASE kind(n) = "function_def"
  <2>1. AssignCalls(n, t) = Calls("assign", ast.node[n].body \o ast.node[n].args, t)
    BY <1>7, Zenon DEF AssignCalls
  <2>2. QED
    BY <1>2, <2>1 DEF Visiting
<1>8. CASE kind(n) \in {"if", "while", "for", "else"}
  <2>1. AssignCalls(n, t) = Calls("assign", Below(ast.node[n]), t)
    BY <1>8, Zenon DEF AssignCalls
  <2>2. QED
    BY <1>2, <2>1 DEF Visiting
<1>9. CASE kind(n) \notin {"identifier", "expression", "return", "unary", "print", "function_def",
                           "if", "while", "for", "else", "function_call"}
  <2>1. AssignCalls(n, t) = <<>>
    BY <1>9, Zenon DEF AssignCalls
  <2>2. QED
    BY <2>1, TupleMembers
<1>10. QED
  BY <1>3, <1>4, <1>5, <1>6, <1>7, <1>8, <1>9

LEMMA VisitMakes ==
    ASSUME ast \in Programs, NEW n \in Nodes, NEW t
    PROVE  \A c \in Members(VisitCalls(n, t)) :
             c.do \in Visiting => c.n = n \/ c.n \in Members(Collected(n))
<1>1. \A d, m, u : Call(d, m, u).do = d /\ Call(d, m, u).n = m
  BY DEF Call
<1>2. \A d, ns, u : \A c \in Members(Calls(d, ns, u)) : c.do = d /\ c.n \in Members(ns)
  BY CallsDo
<1> DEFINE nd == ast.node[n]
           C == [do : Checks, n : Nodes, t : {t}]
<1>3. nd.body \in Seq(Nodes) /\ nd.args \in Seq(Nodes) /\ nd.alternate \in Seq(Nodes)
  BY ListsGoUp DEF NodeLists
<1>4. \A d \in Checks : \A ns \in Seq(Nodes) : Calls(d, ns, t) \in Seq(C)
  BY CallsAreCalls
<1>5. \A d, e \in Checks : \A m, k \in Nodes : <<Call(d, m, t), Call(e, k, t)>> \in Seq(C)
  BY DEF Call
<1>6. \A a, b \in Seq(C) : Members(a \o b) = Members(a) \cup Members(b)
  BY JoinedMembers
<1>7. {"visit", "condition", "support", "not_duplicated", "returns", "assign", "check_assignment"} \subseteq Checks
  BY DEF Checks
<1> HIDE DEF C
<1>8. CASE kind(n) \in {"variable_decl", "function_decl", "function_call"}
  <2>1. kind(n) = "variable_decl" => VisitCalls(n, t) = <<Call("declared", n, t)>>
    BY Zenon DEF VisitCalls
  <2>2. kind(n) = "function_decl" => VisitCalls(n, t) = <<Call("not_duplicated", n, t)>>
    BY Zenon DEF VisitCalls
  <2>3. kind(n) = "function_call" => VisitCalls(n, t) = <<Call("check_call", n, t)>>
    BY Zenon DEF VisitCalls
  <2>4. QED
    BY <1>1, <1>8, <2>1, <2>2, <2>3, TupleMembers
<1>9. CASE kind(n) = "variable_def"
  <2>1. VisitCalls(n, t)
          = <<Call("defined", n, t), Call("assign", kids(n)[1], t), Call("support", n, t),
              Call("check_def", n, t)>>
    BY <1>9, Zenon DEF VisitCalls
  <2>2. QED
    BY <1>1, <2>1, TupleMembers DEF Visiting
<1>10. CASE kind(n) \in {"if", "while"}
  <2>1. VisitCalls(n, t)
          = <<Call("condition", n, t), Call("support", kids(n)[1], t)>>
              \o (IF kind(n) = "if" THEN Calls("visit", nd.body, t) ELSE <<>>)
    BY <1>10, Zenon DEF VisitCalls
  <2>2. kids(n)[1] \in Nodes
    BY <1>10, Shapes, KidsGoUp DEF WithOperand
  <2>3. <<Call("condition", n, t), Call("support", kids(n)[1], t)>> \in Seq(C)
    BY <1>5, <1>7, <2>2
  <2>4. \A c \in Members(<<Call("condition", n, t), Call("support", kids(n)[1], t)>>) : c.do \notin Visiting
    BY <1>1, TupleMembers DEF Visiting
  <2>5. PICK z : z = IF kind(n) = "if" THEN Calls("visit", nd.body, t) ELSE <<>>
    OBVIOUS
  <2>6. z \in Seq(C)
    <3>1. <<>> \in Seq(C)
      OBVIOUS
    <3>2. QED
      BY <1>3, <1>4, <1>7, <2>5, <3>1
  <2>7. \A c \in Members(z) : c.n \in Members(Collected(n))
    <3>1. CASE kind(n) = "if"
      <4>1. Collected(n) = nd.body \o nd.alternate
        BY <3>1, Zenon DEF Collected, Below, kind
      <4>2. Members(nd.body) \subseteq Members(Collected(n))
        BY <1>3, <4>1, JoinedMembers
      <4>3. QED
        BY <1>2, <2>5, <3>1, <4>2
    <3>2. CASE kind(n) # "if"
      BY <2>5, <3>2, TupleMembers
    <3>3. QED
      BY <3>1, <3>2
  <2>8. PICK a : a = <<Call("condition", n, t), Call("support", kids(n)[1], t)>>
    OBVIOUS
  <2>9. VisitCalls(n, t) = a \o z
    BY <2>1, <2>5, <2>8
  <2>10. Members(a \o z) = Members(a) \cup Members(z)
    BY <1>6, <2>3, <2>6, <2>8
  <2>11. QED
    BY <2>4, <2>7, <2>8, <2>9, <2>10
<1>11. CASE kind(n) = "function_def"
  <2>1. VisitCalls(n, t)
          = <<Call("not_duplicated", n, t), Call("returns", n, t)>> \o Calls("visit", nd.body, t)
    BY <1>11, Zenon DEF VisitCalls
  <2>2. PICK a, z : a = <<Call("not_duplicated", n, t), Call("returns", n, t)>> /\ z = Calls("visit", nd.body, t)
    OBVIOUS
  <2>3. a \in Seq(C) /\ z \in Seq(C)
    BY <1>3, <1>4, <1>5, <1>7, <2>2
  <2>4. Collected(n) = nd.args \o nd.body
    BY <1>11, Zenon DEF Collected, Below, kind
  <2>5. Members(nd.body) \subseteq Members(Collected(n))
    BY <1>3, <2>4, JoinedMembers
  <2>6. \A c \in Members(a) : c.n = n
    BY <1>1, <2>2, TupleMembers
  <2>7. \A c \in Members(z) : c.n \in Members(Collected(n))
    BY <1>2, <2>2, <2>5
  <2>8. Members(VisitCalls(n, t)) = Members(a) \cup Members(z)
    BY <1>6, <2>1, <2>2, <2>3
  <2>9. QED
    BY <2>6, <2>7, <2>8
<1>12. CASE kind(n) = "assignment"
  <2>1. VisitCalls(n, t)
          = Calls("assign", nd.args, t) \o Calls("support", nd.args, t) \o <<Call("check_assignment", n, t)>>
    BY <1>12, Zenon DEF VisitCalls
  <2>2. PICK a, y, z : a = Calls("assign", nd.args, t) /\ y = Calls("support", nd.args, t)
                       /\ z = <<Call("check_assignment", n, t)>>
    OBVIOUS
  <2>3. a \in Seq(C) /\ y \in Seq(C)
    BY <1>3, <1>4, <1>7, <2>2
  <2>4. z \in Seq(C)
    BY <1>7, <2>2 DEF Call, C
  <2>5. a \o y \in Seq(C) /\ Members(a \o y) = Members(a) \cup Members(y)
    BY <1>6, <2>3, Joined
  <2>6. Members((a \o y) \o z) = Members(a) \cup Members(y) \cup Members(z)
    BY <1>6, <2>4, <2>5
  <2>7. VisitCalls(n, t) = (a \o y) \o z
    BY <2>1, <2>2
  <2>8. \A c \in Members(a) \cup Members(y) \cup Members(z) : c.do \notin Visiting
    <3>1. \A c \in Members(z) : c.do = "check_assignment"
      BY <1>1, <2>2, TupleMembers
    <3>2. (\A c \in Members(a) : c.do = "assign") /\ \A c \in Members(y) : c.do = "support"
      BY <1>2, <2>2
    <3>3. QED
      BY <3>1, <3>2 DEF Visiting
  <2>9. QED
    BY <2>6, <2>7, <2>8
<1>13. CASE kind(n) \notin {"variable_decl", "variable_def", "if", "while", "function_decl",
                            "function_def", "assignment", "function_call"}
  <2>1. VisitCalls(n, t) = <<>>
    BY <1>13, Zenon DEF VisitCalls
  <2>2. QED
    BY <2>1, TupleMembers
<1>14. QED
  BY <1>8, <1>9, <1>10, <1>11, <1>12, <1>13

LEMMA HandlerVisits ==
    ASSUME TypeInv, Handler, NEW c \in Due', c \notin Due, c.do \in Visiting
    PROVE  task.do \in {"enter_visit", "visit"} /\ (c.n = task.n \/ c.n \in Members(Collected(task.n)))
<1>1. /\ task.n \in Nodes /\ task.t \in live /\ ast \in Programs /\ agenda # <<>> /\ task.do # "collect"
      /\ agenda \in Seq(ToCheck)
  BY TaskIs, NodesAre, HandlerStep DEF Running
<1>2. PICK cs \in Seq(ToCheck) : agenda' = cs \o Tail(agenda)
  BY HandlerCalls
<1>3. ASSUME NEW ds \in Seq(ToCheck), agenda' = ds \o Tail(agenda) PROVE c \in Members(ds)
  <2>1. Due' \subseteq Members(ds) \cup Due
    BY <1>1, <1>3, DueAfter
  <2>2. QED
    BY <2>1
<1>4. CASE Enter
  <2>1. PICK d \in {"assign", "visit"} : Doing(Entering(d)) /\ Then(<<Call(d, task.n, answers[1])>>)
    BY <1>4 DEF Enter
  <2>2. PICK e : e = Call(d, task.n, answers[1])
    OBVIOUS
  <2>3. agenda' = <<e>> \o Tail(agenda) /\ e.do = d /\ e.n = task.n
    BY <2>1, <2>2 DEF Then, Call
  <2>4. Due' \subseteq {e} \cup Due
    <3>1. PICK S : S = ToCheck \cup {e}
      OBVIOUS
    <3>2. agenda \in Seq(S) /\ <<e>> \in Seq(S)
      BY <1>1, <3>1, SeqsGrow
    <3>3. Due' \subseteq Members(<<e>>) \cup Due
      BY <1>1, <2>3, <3>2, DueAfter
    <3>4. QED
      BY <3>3, TupleMembers
  <2>5. c = e
    BY <2>4
  <2>6. d = "visit"
    BY <2>3, <2>5 DEF Visiting
  <2>7. QED
    BY <2>1, <2>3, <2>5, <2>6 DEF Doing, Entering
<1>5. CASE VisitNode
  <2>1. agenda' = VisitCalls(task.n, task.t) \o Tail(agenda) /\ task.do = "visit"
    BY <1>5 DEF VisitNode, Then, Doing
  <2>2. c \in Members(VisitCalls(task.n, task.t))
    BY <1>1, <1>3, <2>1, VisitCallsFit
  <2>3. QED
    BY <1>1, <2>1, <2>2, VisitMakes
<1>6. CASE ~Enter /\ ~VisitNode
  <2>1. \/ agenda' = <<>> \o Tail(agenda)
        \/ agenda' = AssignCalls(task.n, task.t) \o Tail(agenda)
        \/ agenda' = Calls("assign", ast.node[task.n].args, task.t) \o Tail(agenda)
    BY <1>6 DEF Handler, Derive, AssignLeaf, AssignNode, AssignFunctionDecl, Resolve, Support, Decide,
         PushType, TypeCall, Report, Condition, CheckCall, Then
  <2>2. /\ <<>> \in Seq(ToCheck) /\ AssignCalls(task.n, task.t) \in Seq(ToCheck)
        /\ Calls("assign", ast.node[task.n].args, task.t) \in Seq(ToCheck)
    <3>1. ast.node[task.n].args \in Seq(Nodes)
      BY <1>1, ListsGoUp DEF NodeLists
    <3>2. QED
      BY <1>1, <3>1, CallsFit, AssignCallsFit
  <2>3. \/ c \in Members(<<>>)
        \/ c \in Members(AssignCalls(task.n, task.t))
        \/ c \in Members(Calls("assign", ast.node[task.n].args, task.t))
    BY <1>3, <2>1, <2>2
  <2>4. c.do \notin Visiting
    <3>1. CASE c \in Members(Calls("assign", ast.node[task.n].args, task.t))
      BY <3>1, CallsDo DEF Visiting
    <3>2. QED
      BY <1>1, <2>3, <3>1, TupleMembers, AssignVisitsNone
  <2>5. QED
    BY <2>4
<1>7. QED
  BY <1>4, <1>5, <1>6

-----------------------------------------------------------------------------
(* Calls of functions: typing one looks its function up from the global    *)
(* table, and not to find it is an error.  The visit begins when every     *)
(* call that is a statement has been typed, so what it looks up is known.  *)
Target(g) == ST!NearMatches(Root, ST!apply_scope(Root, name(g)))
Known(g)  == error_count > 0 \/ Target(g) # {}

NoneAssigned == (\E c \in Due : c.do = "collect") => assigned = {}
CallFound ==
    (Running /\ task.do = "type_call") =>
        \A k \in DOMAIN answers : answers[k] # Root /\ (answers[k] # Null <=> Target(task.n) # {})
CallsKnown == \A g \in assigned : kind(g) = "function_call" => DueFor(g, "type_call") \/ Known(g)
Visits ==
    /\ Members(stack_visit) \subseteq Members(ast.top)
    /\ \A c \in Due : c.do \in Visiting => Statement(c.n) /\ home[c.n] # Null
    /\ (\E c \in Due : c.do \in Visiting) =>
          \A g \in Named({"function_call"}) : Statement(g) => Known(g)

LEMMA KnownStays ==
    ASSUME TypeInv, [Next]_vars, UNCHANGED <<ast, qa, children>>
    PROVE  \A g : Target(g)' = Target(g) /\ (Known(g) => Known(g)')
<1>1. error_count \in Nat /\ error_count' \in Nat /\ error_count' >= error_count
  BY ErrorsStay, NodesAre
<1>2. \A g : Target(g)' = Target(g)
  BY <1>1 DEF Target, name, ST!NearMatches, ST!apply_scope, ST!short_name, ST!create_qualified_name
<1>3. QED
  BY <1>1, <1>2 DEF Known

LEMMA NoneAssignedKept == TypeInv /\ NoneAssigned /\ [Next]_vars => NoneAssigned'
<1> SUFFICES ASSUME TypeInv, NoneAssigned, [Next]_vars PROVE NoneAssigned'
  OBVIOUS
<1>1. CASE Collect
  BY <1>1, CollectStep DEF NoneAssigned
<1>2. CASE Handler
  BY <1>2, HandlerStep DEF NoneAssigned
<1>3. CASE PopAssign \/ PopVisit \/ Finish
  BY <1>3, PopStep DEF NoneAssigned
<1>4. CASE Ask \/ Quiet
  BY <1>4, AskStep, QuietKeeps DEF NoneAssigned
<1>5. QED
  BY <1>1, <1>2, <1>3, <1>4, Steps

(* The name of a call, qualified by the global table, is not its own.      *)
LEMMA TargetIs ==
    ASSUME TypeInv, PlainFunctions, NEW g \in Nodes, kind(g) = "function_call"
    PROVE  /\ ST!apply_scope(Root, name(g)) = <<GlobalName, name(g)>>
           /\ <<GlobalName, name(g)>> # qa[Root]
<1>1. qa[Root] = <<GlobalName>> /\ name(g) # GlobalName
  BY TablesAre DEF PlainFunctions, Named
<1>2. /\ <<GlobalName>> \o <<name(g)>> = <<GlobalName, name(g)>>
      /\ Len(<<GlobalName>>) = 1 /\ <<GlobalName>>[1] = GlobalName /\ Len(<<GlobalName, name(g)>>) = 2
  BY Pairs
<1>3. QED
  BY <1>1, <1>2 DEF ST!apply_scope, ST!short_name, ST!create_qualified_name

(* The look-ups of a call being typed.                                     *)
LEMMA AskAnswers ==
    ASSUME TypeInv, Ask
    PROVE  /\ task.do = "type_call" =>
                answers' = Append(answers, ST!FoundTable(Root, ST!apply_scope(Root, name(task.n))))
           /\ task.do = "check_call" =>
                /\ ST!get_sym_table_from_unqualified(task.t, name(task.n))
                /\ crashed' = FALSE => answers' = Append(answers, ST!FoundUnqualified(task.t, name(task.n)))
           /\ task.do = "not_duplicated" => ST!get_sym_table(task.t, ST!apply_scope(task.t, name(task.n)))
           /\ task.do \in {"resolve", "declared", "defined"} =>
                \E t \in {task.t, Root} : ST!get(t, name(task.n))
           /\ task.do \in {"type_call", "enter_assign", "enter_visit"} =>
                ST!get_sym_table(Root, ST!apply_scope(Root, name(task.n)))
           /\ task.do \in {"resolve", "declared", "defined", "type_call", "enter_assign", "enter_visit",
                           "not_duplicated", "check_call"}
<1>1. Len(answers) \in Nat /\ Len(answers) < Len(LookUps(task))
  BY NodesAre DEF Ask
<1>2. PICK k : k = Len(answers) + 1
  OBVIOUS
<1>3. PICK a : a = LookUps(task)[k]
  OBVIOUS
<1>4. \/ /\ a.op = "get" /\ ST!get(a.t, name(task.n))
      \/ /\ a.op = "find" /\ ST!get_sym_table(a.t, ST!apply_scope(a.t, name(task.n)))
         /\ answers' = Append(answers, ST!FoundTable(a.t, ST!apply_scope(a.t, name(task.n))))
      \/ /\ a.op = "find_unqualified" /\ ST!get_sym_table_from_unqualified(a.t, name(task.n))
         /\ crashed' = FALSE => answers' = Append(answers, ST!FoundUnqualified(a.t, name(task.n)))
  BY <1>2, <1>3 DEF Ask
<1>5. \A op, t : Look(op, t).op = op /\ Look(op, t).t = t
  BY DEF Look
<1>6. k \in 1..Len(LookUps(task))
  <2>1. Len(LookUps(task)) \in Nat
    BY LookUpsCounted
  <2>2. QED
    BY <1>1, <1>2, <2>1
<1> HIDE DEF Look
<1>7. task.do \in {"resolve", "declared", "defined"} => a.op = "get" /\ a.t \in {task.t, Root}
  <2>1. task.do = "resolve" => LookUps(task) = <<Look("get", task.t), Look("get", Root), Look("get", task.t), Look("get", Root)>>
    BY LookUpsAre
  <2>2. task.do = "declared" => LookUps(task) = <<Look("get", task.t)>>
    BY LookUpsAre
  <2>3. task.do = "defined" => LookUps(task) = <<Look("get", task.t), Look("get", Root)>>
    BY LookUpsAre
  <2>4. task.do \in {"resolve", "declared", "defined"} => a \in {Look("get", task.t), Look("get", Root)}
    BY <1>3, <1>6, <2>1, <2>2, <2>3
  <2>5. QED
    BY <1>5, <2>4
<1>8. task.do \in {"type_call", "enter_assign", "enter_visit"} => a.op = "find" /\ a.t = Root
  <2>1. task.do = "type_call" => LookUps(task) = <<Look("find", Root), Look("find", Root)>>
    BY LookUpsAre
  <2>2. task.do \in {"enter_assign", "enter_visit"} => LookUps(task) = <<Look("find", Root)>>
    BY LookUpsAre
  <2>3. task.do \in {"type_call", "enter_assign", "enter_visit"} => a = Look("find", Root)
    BY <1>3, <1>6, <2>1, <2>2
  <2>4. QED
    BY <1>5, <2>3
<1>9. ASSUME task.do = "not_duplicated" PROVE a.op = "find" /\ a.t = task.t
  <2>1. LookUps(task) = <<Look("find", task.t)>>
    BY <1>9, LookUpsAre
  <2>2. k = 1
    BY <1>6, <2>1
  <2>3. a = Look("find", task.t)
    BY <1>3, <2>1, <2>2
  <2>4. QED
    BY <1>5, <2>3
<1>10. ASSUME task.do = "check_call" PROVE a.op = "find_unqualified" /\ a.t = task.t
  <2>1. PICK b : b = Look("find_unqualified", task.t)
    OBVIOUS
  <2>2. LookUps(task) = [i \in 1..2 |-> b]
    BY <1>10, <2>1, LookUpsAre
  <2>3. k \in 1..2
    BY <1>6, <2>2
  <2>4. a = b
    BY <1>3, <2>2, <2>3
  <2>5. QED
    BY <1>5, <2>1, <2>4
<1>11. task.do \in {"resolve", "declared", "defined", "type_call", "enter_assign", "enter_visit",
                    "not_duplicated", "check_call"}
  <2>1. LookUps(task) # <<>>
    BY <1>6
  <2>2. QED
    BY <2>1, LookUpsAre
<1>12. QED
  BY <1>4, <1>7, <1>8, <1>9, <1>10, <1>11

LEMMA CallFoundKept ==
    ASSUME TypeInv, PlainFunctions, CallFound, [Next]_vars
    PROVE  CallFound'
<1>1. CASE answers' = <<>>
  BY <1>1 DEF CallFound
<1>2. CASE Ask \/ Quiet
  <2>1. task' = task /\ UNCHANGED <<ast, qa, children>>
    BY <1>2, AskStep, QuietKeeps
  <2>2. (Running' => Running) /\ Target(task.n)' = Target(task.n)
    <3>1. Quiet => (Running' => Running)
      BY QuietKeeps
    <3>2. Target(task.n)' = Target(task.n)
      BY <2>1 DEF Target, name, ST!NearMatches, ST!apply_scope, ST!short_name, ST!create_qualified_name
    <3>3. QED
      BY <1>2, <3>1, <3>2, AskStep
  <2>3. CASE Quiet
    <3>1. answers' = answers
      BY <2>3, QuietKeeps
    <3>2. QED
      BY <2>1, <2>2, <3>1 DEF CallFound
  <2>4. CASE Ask
    <3>1. ASSUME task.do = "type_call"
          PROVE  \A k \in DOMAIN answers' : answers'[k] # Root /\ (answers'[k] # Null <=> Target(task.n) # {})
      <4>1. PICK x : x = ST!FoundTable(Root, ST!apply_scope(Root, name(task.n)))
        OBVIOUS
      <4>2. answers' = Append(answers, x)
        BY <2>4, <3>1, <4>1, AskAnswers
      <4>3. Running /\ task.n \in Nodes /\ kind(task.n) = "function_call"
        BY <2>4, <3>1, AskStep, TaskIs DEF Fits
      <4>4. x # Root /\ (x # Null <=> Target(task.n) # {})
        BY <4>1, <4>3, TargetIs, FoundFromRoot DEF Target
      <4>5. \A k \in DOMAIN answers : answers[k] # Root /\ (answers[k] # Null <=> Target(task.n) # {})
        BY <3>1, <4>3 DEF CallFound
      <4>6. PICK S : S = live \cup {Null}
        OBVIOUS
      <4>7. answers \in Seq(S)
        BY <4>6, NodesAre
      <4>8. \A k \in DOMAIN Append(answers, x) : (k \in DOMAIN answers /\ Append(answers, x)[k] = answers[k]) \/ Append(answers, x)[k] = x
        BY <4>7
      <4>9. QED
        BY <4>2, <4>4, <4>5, <4>8
    <3>2. QED
      BY <2>1, <2>2, <3>1 DEF CallFound
  <2>5. QED
    BY <1>2, <2>3, <2>4
<1>3. QED
  BY <1>1, <1>2, Steps, CollectStep, HandlerStep, PopStep

(* A call that has been typed is counted as an error, or its function is   *)
(* there.                                                                  *)
LEMMA CallTyped ==
    ASSUME TypeInv, CallFound, TypeCall, NEW g, g = task.n
    PROVE  Known(g)' /\ (outcome' = "crashed" => error_count' > 0)
<1>1. Running /\ task.do = "type_call" /\ Answered
  BY DEF TypeCall, Doing
<1>2. 1 \in DOMAIN answers /\ 2 \in DOMAIN answers
  <2>1. LookUps(task) = <<Look("find", Root), Look("find", Root)>>
    BY <1>1, LookUpsAre
  <2>2. Len(answers) = 2
    BY <1>1, <2>1 DEF Answered
  <2>3. QED
    BY <2>2, AnswerIs
<1>3. answers[1] # Null <=> Target(g) # {}
  BY <1>1, <1>2 DEF CallFound
<1>4. answers[2] # Null <=> Target(g) # {}
  BY <1>1, <1>2 DEF CallFound
<1>5. answers[1] = Null => error_count' > 0
  <2>1. PICK c : c = <<children[Root] = <<>>, answers[1] = Null>>
    OBVIOUS
  <2>2. Errors(c) /\ DOMAIN c \subseteq 1..2 /\ 2 \in DOMAIN c /\ error_count \in Nat
    BY <2>1, NodesAre DEF TypeCall
  <2>3. \A i \in DOMAIN c : c[i] => error_count' > error_count
    BY <2>2, ErrorsGrow
  <2>4. error_count' \in Nat
    BY <2>2, ErrorsGrow
  <2>5. answers[1] = Null => c[2]
    BY <2>1
  <2>6. QED
    BY <2>2, <2>3, <2>4, <2>5
<1>6. UNCHANGED <<ast, qa, children>>
  BY DEF TypeCall, rest, tables
<1>7. [Next]_vars
  BY DEF Next, Assign
<1>8. Target(g) # {} => Known(g)'
  BY <1>6, <1>7, KnownStays DEF Known
<1>9. outcome' = "crashed" => answers[2] = Null
  BY <1>1, <1>2 DEF TypeCall, Running, CallFound
<1>10. QED
  BY <1>3, <1>4, <1>5, <1>8, <1>9 DEF Known

LEMMA StatementsSame ==
    ASSUME ast' = ast
    PROVE  /\ \A n : Statement(n)' <=> Statement(n)
           /\ Named({"function_call"})' = Named({"function_call"})
<1>1. \A n : TopLevel(n)' <=> TopLevel(n)
  BY DEF TopLevel
<1>2. Nodes' = Nodes /\ \A n : kind(n)' = kind(n)
  BY DEF Nodes, kind
<1>3. \A n : Statement(n)' <=> Statement(n)
  BY <1>1, <1>2 DEF Statement
<1>4. QED
  BY <1>2, <1>3 DEF Named

LEMMA VisitsKept ==
    ASSUME TypeInv, UsesReached, AllEntered, CallsKnown, Visits, [Next]_vars
    PROVE  Visits'
<1>1. ast \in Programs
  BY NodesAre
<1>2. CASE Collect
  BY <1>2, CollectStep DEF Visits, Visiting
<1>3. CASE Handler
  <2>1. /\ ast' = ast /\ home' = home /\ stack_visit' = stack_visit /\ UNCHANGED <<qa, children>>
        /\ task \in Due /\ \A c \in Due' : c.do # "collect"
        /\ \A c \in Due : c.do # "collect"
    BY <1>3, HandlerStep
  <2>2. \A n : Statement(n)' <=> Statement(n)
    BY <2>1, StatementsSame
  <2>3. ASSUME NEW c \in Due', c.do \in Visiting
        PROVE  /\ Statement(c.n) /\ home[c.n] # Null
               /\ \E e \in Due : e.do \in Visiting
    <3>1. CASE c \in Due
      BY <2>3, <3>1 DEF Visits
    <3>2. CASE c \notin Due
      <4>1. task.do \in {"enter_visit", "visit"} /\ (c.n = task.n \/ c.n \in Members(Collected(task.n)))
        BY <1>3, <2>3, <3>2, HandlerVisits
      <4>2. task.do \in Visiting
        BY <4>1 DEF Visiting
      <4>3. Statement(task.n) /\ home[task.n] # Null
        BY <2>1, <4>2 DEF Visits
      <4>4. ASSUME c.n \in Members(Collected(task.n)) PROVE Statement(c.n) /\ home[c.n] # Null
        <5>1. task.n \in Nodes
          BY <1>3, HandlerStep, TaskIs
        <5>2. c.n \in Members(Below(ast.node[task.n]))
          BY <4>4 DEF Collected, Members
        <5>3. ToEnter(c.n)
          BY <4>3, <4>4, <5>1 DEF AllEntered
        <5>4. QED
          BY <2>1, <5>1, <5>2, <5>3 DEF Statement, ToEnter, DueFor
      <4>5. QED
        BY <2>1, <4>1, <4>2, <4>3, <4>4
    <3>3. QED
      BY <3>1, <3>2
  <2>4. \A g : Known(g) => Known(g)'
    BY <2>1, KnownStays
  <2>5. Named({"function_call"})' = Named({"function_call"})
    BY <2>1, StatementsSame
  <2>6. Members(stack_visit)' = Members(stack_visit) /\ Members(ast.top)' = Members(ast.top)
    BY <2>1
  <2>7. \A c \in Due' : c.do \in Visiting => Statement(c.n)' /\ home'[c.n] # Null
    BY <2>1, <2>2, <2>3
  <2>8. (\E c \in Due' : c.do \in Visiting) =>
          \A g \in Named({"function_call"})' : Statement(g)' => Known(g)'
    BY <2>2, <2>3, <2>4, <2>5 DEF Visits
  <2>9. QED
    BY <2>6, <2>7, <2>8 DEF Visits
<1>4. CASE PopAssign
  <2>1. \A c \in Due' : c.do \notin Visiting
    BY <1>4, PopMakes DEF Visiting
  <2>2. stack_visit' = stack_visit /\ ast' = ast
    BY <1>4 DEF PopAssign
  <2>3. QED
    BY <2>1, <2>2 DEF Visits
<1>5. CASE PopVisit
  <2>1. /\ Due = {} /\ agenda = <<>> /\ UNCHANGED <<ast, home, qa, children>>
    BY <1>5, PopStep
  <2>2. PICK n \in Nodes :
          /\ n \in Members(stack_visit) /\ stack_assign = <<>>
          /\ Members(stack_visit') \subseteq Members(stack_visit)
          /\ \A c \in Due' : c.n = n
    BY <1>5, PopMakes
  <2>3. n \in Members(ast.top) /\ Members(stack_visit') \subseteq Members(ast.top)
    BY <2>2 DEF Visits
  <2>4. Statement(n) /\ home[n] # Null
    BY <2>1, <2>3 DEF Statement, TopLevel, AllEntered, ToEnter, DueFor
  <2>5. ASSUME NEW g \in Named({"function_call"}), Statement(g) PROVE Known(g)'
    <3>1. g \in Nodes /\ kind(g) = "function_call"
      BY DEF Named
    <3>2. g \in assigned
      BY <2>1, <2>2, <2>5, <3>1, StatementsAssigned
    <3>3. Known(g)
      BY <2>1, <3>1, <3>2 DEF CallsKnown, DueFor
    <3>4. QED
      BY <2>1, <3>3, KnownStays
  <2>6. Statement(n)' /\ home'[n] # Null
    BY <2>1, <2>4, StatementsSame
  <2>7. \A g \in Named({"function_call"})' : Statement(g)' => Known(g)'
    BY <2>1, <2>5, StatementsSame
  <2>8. Members(stack_visit)' \subseteq Members(ast.top)'
    BY <2>1, <2>3
  <2>9. \A c \in Due' : Statement(c.n)' /\ home'[c.n] # Null
    BY <2>2, <2>6
  <2>10. QED
    BY <2>7, <2>8, <2>9 DEF Visits
<1>6. CASE Finish
  <2>1. Due = {} /\ agenda' = agenda /\ stack_visit' = stack_visit /\ ast' = ast
    BY <1>6, PopStep DEF Finish, stacks
  <2>2. Due' = {}
    BY <2>1 DEF Due
  <2>3. QED
    BY <2>1, <2>2 DEF Visits
<1>7. CASE Ask \/ Quiet
  <2>1. UNCHANGED <<ast, home, stack_visit, qa, children>> /\ Due' = Due
    BY <1>7, AskStep, QuietKeeps
  <2>2. \A g : Known(g) => Known(g)'
    BY <2>1, KnownStays
  <2>3. QED
    BY <2>1, <2>2, StatementsSame DEF Visits
<1>8. QED
  BY <1>2, <1>3, <1>4, <1>5, <1>6, <1>7, Steps

LEMMA CallsKnownKept ==
    ASSUME TypeInv, NoneAssigned, CallFound, CallsKnown, [Next]_vars
    PROVE  CallsKnown'
<1>1. ast \in Programs /\ assigned \subseteq Nodes
  BY NodesAre
<1>2. ast' = ast
  BY Steps, CollectStep, HandlerStep, PopStep, AskStep, QuietKeeps
<1> SUFFICES ASSUME NEW g \in assigned', kind(g)' = "function_call"
             PROVE  DueFor(g, "type_call")' \/ Known(g)'
  BY DEF CallsKnown
<1>3. kind(g) = "function_call"
  BY <1>2 DEF kind
<1>4. CASE g \notin assigned
  <2>1. Handler /\ g = task.n /\ Members(AssignCalls(g, task.t)) \subseteq Due'
    BY <1>4, NewlyAssigned
  <2>2. g \in Nodes
    BY <2>1, HandlerStep, TaskIs
  <2>3. PICK t : t = task.t
    OBVIOUS
  <2>4. Call("type_call", g, t) \in Due'
    BY <1>1, <1>3, <2>1, <2>2, <2>3, AssignReaches
  <2>5. QED
    BY <2>4 DEF DueFor, Call
<1>5. CASE g \in assigned
  <2>1. ~Collect
    BY <1>5, CollectStep DEF NoneAssigned
  <2>2. UNCHANGED <<ast, qa, children>>
    BY <2>1, OtherSteps
  <2>3. CASE Known(g)
    BY <2>2, <2>3, KnownStays
  <2>4. CASE DueFor(g, "type_call")
    <3>1. PICK c \in Due : c.n = g /\ c.do = "type_call"
      BY <2>4 DEF DueFor
    <3>2. CASE c \in Due'
      BY <3>1, <3>2 DEF DueFor
    <3>3. CASE c = task /\ Handler
      <4>1. task.do = "type_call" /\ g = task.n
        BY <3>1, <3>3
      <4>2. TypeCall
        BY <3>3, <4>1 DEF Handler, Enter, Entering, Derive, AssignLeaf, AssignNode, AssignFunctionDecl, Resolve, Support,
             Decide, PushType, VisitNode, Report, Condition, CheckCall, Doing, At
      <4>3. QED
        BY <4>1, <4>2, CallTyped
    <3>4. QED
      BY <3>1, <3>2, <3>3, DueStays
  <2>5. QED
    BY <1>3, <1>5, <2>3, <2>4 DEF CallsKnown
<1>6. QED
  BY <1>4, <1>5

-----------------------------------------------------------------------------
(* The look-ups of a walk without errors leave the links alone.            *)
CallAnswered ==
    (Running /\ task.do = "check_call" /\ error_count = 0) =>
        \A k \in DOMAIN answers : answers[k] # Null
LinksKept == error_count = 0 => \A t \in live : ST!Linked(t)
Reported  == outcome = "crashed" => error_count > 0

(* Where a look-up of the visit starts.                                    *)
LEMMA TaskNextToRoot ==
    ASSUME TypeInv, HomesApart, SeatsPlain, \A t \in live : ST!Linked(t), Running,
           task.do \notin Outermost \cup {"collect"}
    PROVE  task.t \in live /\ NextToRoot(task.t) /\ task \in Due /\ SeatedIn(task.n, task.t)
<1>1. \A c \in Due : c.do # "collect"
  BY NoneCollected
<1>2. task \in Due
  <2>1. PICK S : agenda \in Seq(S) /\ agenda # <<>>
    BY DEF TypeInv, AgendaOK, Running
  <2>2. 1 \in DOMAIN agenda /\ Head(agenda) = agenda[1]
    BY <2>1
  <2>3. QED
    BY <2>2 DEF Due, Members, task
<1>3. QED
  BY <1>1, <1>2, SeatsNextToRoot DEF SeatsPlain

(* The check of a call that is a statement finds the call's function.      *)
LEMMA CallChecked ==
    ASSUME TypeInv, PlainFunctions, HomesApart, ChildrenInside, SeatsPlain, Visits, LinksKept,
           error_count = 0, Ask, task.do = "check_call"
    PROVE  /\ parent' = parent /\ ~crashed'
           /\ \E x : x # Null /\ answers' = Append(answers, x)
<1>1. Running /\ task.n \in Nodes /\ kind(task.n) = "function_call"
  BY AskStep, TaskIs DEF Fits
<1>2. /\ task.t \in live /\ NextToRoot(task.t) /\ task \in Due
      /\ \A t \in live : ST!Linked(t)
  BY <1>1, TaskNextToRoot DEF Outermost, LinksKept
<1>3. Target(task.n) # {}
  BY <1>1, <1>2 DEF Visits, Visiting, Known, Named
<1>4. ST!NearMatches(Root, <<GlobalName, name(task.n)>>) # {}
  BY <1>1, <1>3, TargetIs DEF Target
<1>5. ~crashed
  BY AskIsLookup
<1>6. PICK n, x : n = name(task.n) /\ x = ST!FoundUnqualified(task.t, n)
  OBVIOUS
<1>7. /\ ST!get_sym_table_from_unqualified(task.t, n)
      /\ crashed' = FALSE => answers' = Append(answers, x)
  BY <1>6, AskAnswers
<1>8. parent' = parent /\ crashed' = FALSE /\ x # Null
  BY <1>2, <1>4, <1>5, <1>6, <1>7, UnqualifiedLeavesLinks
<1>9. QED
  BY <1>7, <1>8

(* The check of a function looks for a table where one is: the function's, *)
(* or that of the function around it.                                      *)
LEMMA FunctionChecked ==
    ASSUME TypeInv, PlainFunctions, HomesApart, NestedEntered, SeatsPlain, Visits, LinksKept,
           error_count = 0, Ask, task.do = "not_duplicated"
    PROVE  parent' = parent /\ ~crashed'
<1>1. Running /\ task.n \in Nodes /\ kind(task.n) \in {"function_decl", "function_def"} /\ ast \in Programs
  BY AskStep, TaskIs, NodesAre DEF Fits
<1>2. task.t \in live /\ task \in Due /\ SeatedIn(task.n, task.t)
  BY <1>1, TaskNextToRoot DEF Outermost, LinksKept
<1>3. PICK g, t, q : g = task.n /\ t = task.t /\ q = ST!apply_scope(t, name(g))
  OBVIOUS
<1>4. ST!get_sym_table(t, q) /\ ~crashed
  BY <1>3, AskAnswers, AskIsLookup
<1>5. home[g] # Null
  BY <1>2, <1>3 DEF Visits, Visiting
<1>6. \A f : (f \in Nodes /\ kind(f) = "function_def" /\ TopLevel(f)) => Entered(f)
  <2>1. \A c \in Due : c.do # "collect"
    BY <1>1, NoneCollected
  <2>2. HomesOK
    BY DEF TypeInv
  <2>3. \A f : Call("collect", f, Root).do = "collect"
    BY DEF Call
  <2>4. QED
    BY <2>1, <2>2, <2>3 DEF HomesOK, Due, TopLevel
<1>7. t = Root \/ qa[t] = q \/ ST!NearMatches(t, q) # {}
  <2>1. CASE OuterFunctions(g) = {}
    BY <1>2, <1>3, <2>1 DEF SeatedIn
  <2>2. ASSUME NEW f \in OuterFunctions(g), t = home[f]
        PROVE  qa[t] = q \/ ST!NearMatches(t, q) # {}
    <3>1. f \in Functions(g) \cup {g} /\ f \in Nodes /\ kind(f) = "function_def" /\ TopLevel(f)
      BY <1>1, <1>3, FunctionsAre DEF OuterFunctions
    <3>2. Entered(f) /\ qa[t] = <<GlobalName, name(f)>>
      BY <1>6, <2>2, <3>1 DEF Entered
    <3>3. ST!short_name(t) = name(f)
      <4>1. \A x, y : Len(<<x, y>>) = 2 /\ <<x, y>>[2] = y
        OBVIOUS
      <4>2. QED
        BY <3>2, <4>1 DEF ST!short_name
    <3>4. CASE f = g
      BY <1>3, <3>3, <3>4 DEF ST!apply_scope
    <3>5. CASE f # g
      <4>1. f \in Functions(g)
        BY <3>1, <3>5
      <4>2. kind(g) = "function_def" /\ Cardinality(Functions(g)) <= 1
        BY <1>1, <1>3, <4>1 DEF PlainFunctions, Named
      <4>3. Functions(g) = {f}
        <5>1. PICK F : F = Functions(g)
          OBVIOUS
        <5>2. F \subseteq 1..Last /\ Last \in Nat
          BY <1>1, <1>3, <5>1, FunctionsAre, Numbered
        <5>3. IsFiniteSet(F)
          BY <5>2, SubsetsCount
        <5>4. Cardinality(F) \in Nat /\ Cardinality(F) <= 1
          BY <4>2, <5>1, <5>2, SubsetsCount
        <5>5. ASSUME NEW h \in F PROVE h = f
          <6>1. {h, f} \subseteq F
            BY <4>1, <5>1, <5>5
          <6>2. Cardinality({h, f}) <= Cardinality(F)
            BY <5>3, <6>1, FS_Subset
          <6>3. Cardinality({h, f}) = 2 \/ h = f
            <7>1. h # f => {h} # {h, f} /\ f \notin {h} /\ {h} \cup {f} = {h, f}
              OBVIOUS
            <7>2. IsFiniteSet({h}) /\ Cardinality({h}) = 1
              BY FS_Singleton
            <7>3. h # f => Cardinality({h} \cup {f}) = Cardinality({h}) + 1
              BY <7>1, <7>2, FS_AddElement
            <7>4. QED
              BY <7>1, <7>2, <7>3
          <6>4. QED
            BY <5>4, <6>2, <6>3
        <5>6. QED
          BY <4>1, <5>1, <5>5
      <4>4. name(g) # name(f)
        BY <1>1, <1>3, <3>1, <3>5, <4>2 DEF PlainFunctions, UniqueFunctions, Named
      <4>5. q = qa[t] \o <<name(g)>>
        BY <1>3, <3>3, <4>4 DEF ST!apply_scope, ST!create_qualified_name
      <4>6. home[g] \in Members(children[t]) /\ qa[home[g]] = q
        BY <1>1, <1>3, <1>5, <2>2, <3>1, <4>2, <4>3, <4>5 DEF NestedEntered, Named
      <4>7. QED
        BY <4>6 DEF Members, ST!NearMatches
    <3>6. QED
      BY <3>4, <3>5
  <2>3. QED
    BY <1>2, <1>3, <2>1, <2>2 DEF SeatedIn
<1>8. QED
  BY <1>2, <1>3, <1>4, <1>7, FindLeavesLinks

LEMMA AskLeavesLinks ==
    ASSUME TypeInv, PlainFunctions, HomesApart, ChildrenInside, NestedEntered, SeatsPlain, Visits, LinksKept,
           error_count = 0, Ask
    PROVE  parent' = parent /\ ~crashed'
<1>1. Running /\ ~crashed /\ Root \in live
  BY AskStep, AskIsLookup, NodesAre
<1>2. CASE task.do \in {"resolve", "declared", "defined"}
  <2>1. PICK t \in {task.t, Root} : ST!get(t, name(task.n))
    BY <1>2, AskAnswers
  <2>2. task.t \in live /\ NextToRoot(task.t)
    BY <1>1, <1>2, TaskNextToRoot DEF Outermost, LinksKept
  <2>3. t \in live /\ NextToRoot(t)
    BY <1>1, <2>2 DEF NextToRoot
  <2>4. PICK n : n = name(task.n)
    OBVIOUS
  <2>5. QED
    BY <1>1, <2>1, <2>3, <2>4, GetLeavesLinks
<1>3. CASE task.do \in {"type_call", "enter_assign", "enter_visit"}
  <2>1. PICK q : q = ST!apply_scope(Root, name(task.n))
    OBVIOUS
  <2>2. ST!get_sym_table(Root, q)
    BY <1>3, <2>1, AskAnswers
  <2>3. QED
    BY <1>1, <2>2, FindLeavesLinks
<1>4. CASE task.do = "not_duplicated"
  BY <1>4, FunctionChecked
<1>5. CASE task.do = "check_call"
  BY <1>5, CallChecked
<1>6. QED
  BY <1>2, <1>3, <1>4, <1>5, AskAnswers

LEMMA CallAnsweredKept ==
    ASSUME TypeInv, PlainFunctions, HomesApart, ChildrenInside, SeatsPlain, Visits, LinksKept, CallAnswered,
           [Next]_vars
    PROVE  CallAnswered'
<1>1. CASE answers' = <<>>
  BY <1>1 DEF CallAnswered
<1>2. CASE Quiet
  <2>1. UNCHANGED <<answers, error_count>> /\ task' = task /\ (Running' => Running)
    BY <1>2, QuietKeeps
  <2>2. QED
    BY <2>1 DEF CallAnswered
<1>3. CASE Ask
  <2>1. Running /\ task' = task /\ error_count' = error_count
    BY <1>3, AskStep
  <2>2. ASSUME task.do = "check_call", error_count = 0
        PROVE  \A k \in DOMAIN answers' : answers'[k] # Null
    <3>1. PICK x : x # Null /\ answers' = Append(answers, x)
      BY <1>3, <2>2, CallChecked
    <3>2. \A k \in DOMAIN answers : answers[k] # Null
      BY <2>1, <2>2 DEF CallAnswered
    <3>3. PICK S : S = live \cup {Null}
      OBVIOUS
    <3>4. answers \in Seq(S)
      BY <3>3, NodesAre
    <3>5. \A k \in DOMAIN Append(answers, x) :
            (k \in DOMAIN answers /\ Append(answers, x)[k] = answers[k]) \/ Append(answers, x)[k] = x
      BY <3>4
    <3>6. QED
      BY <3>1, <3>2, <3>5
  <2>3. QED
    BY <2>1, <2>2 DEF CallAnswered
<1>4. QED
  BY <1>1, <1>2, <1>3, Steps, CollectStep, HandlerStep, PopStep

LEMMA LinksStay ==
    ASSUME TypeInv, PlainFunctions, HomesApart, ChildrenInside, NestedEntered, SeatsPlain, Visits, LinksKept,
           [Next]_vars
    PROVE  LinksKept'
<1> SUFFICES ASSUME error_count' = 0 PROVE \A t \in live' : ST!Linked(t)'
  BY DEF LinksKept
<1>1. error_count = 0
  BY ErrorsStay, NodesAre
<1>2. \A t \in live : ST!Linked(t)
  BY <1>1 DEF LinksKept
<1>3. CASE UNCHANGED <<live, parent, encl>>
  BY <1>2, <1>3 DEF ST!Linked
<1>4. CASE EnterFunction
  <2>1. PICK b \in Tables \ live :
          /\ live' = live \cup {b}
          /\ parent' = [parent EXCEPT ![b] = task.t]
          /\ encl' = [encl EXCEPT ![b] = encl[task.t] \cup {task.t}]
    BY <1>4, TableEntered
  <2>2. task.t \in live /\ Root \in live /\ Null \notin Tables
    <3>1. Running
      BY <1>4 DEF EnterFunction, At, Doing
    <3>2. QED
      BY <3>1, TaskIs, NodesAre, TableAssumption
  <2>3. DOMAIN parent = Tables /\ DOMAIN encl = Tables /\ live \subseteq Tables
        /\ \A t \in Tables : parent[t] \in live \cup {Null}
    BY TablesAre
  <2>4. /\ parent'[b] = task.t /\ encl'[b] = encl[task.t] \cup {task.t}
        /\ \A t \in live : parent'[t] = parent[t] /\ encl'[t] = encl[t]
    BY <2>1, <2>3
  <2>5. ASSUME NEW t \in live PROVE ST!Linked(t)'
    <3>1. t = Root \/ (parent[t] # Null /\ parent[t] \in live /\ encl[t] = {parent[t]} \cup encl[parent[t]])
      BY <1>2, <2>3, <2>5 DEF ST!Linked
    <3>2. QED
      BY <2>4, <3>1 DEF ST!Linked
  <2>6. ST!Linked(b)'
    BY <2>2, <2>3, <2>4 DEF ST!Linked
  <2>7. QED
    BY <2>1, <2>5, <2>6
<1>5. CASE Collect /\ ~EnterFunction
  BY <1>3, <1>5, NoTableEntered
<1>6. CASE Ask
  BY <1>1, <1>3, <1>6, AskStep, AskLeavesLinks
<1>7. QED
  BY <1>3, <1>4, <1>5, <1>6, Steps, HandlerStep, PopStep, QuietKeeps

(* A call that reads past the symbols of its function has more arguments   *)
(* than that has parameters, and this is counted.                          *)
LEMMA CheckedReports ==
    ASSUME TypeInv, CallAnswered, CheckCall, outcome' = "crashed"
    PROVE  error_count' > 0
<1>1. Running /\ task.do = "check_call" /\ Answered /\ outcome = "running"
  BY DEF CheckCall, Doing, Running
<1>2. task.n \in Nodes /\ error_count \in Nat /\ Null \notin live
  BY <1>1, TaskIs, NodesAre
<1>3. 2 \in DOMAIN answers /\ answers[2] \in live \cup {Null}
  <2>1. LookUps(task) = [i \in 1..2 |-> Look("find_unqualified", task.t)]
    BY <1>1, LookUpsAre
  <2>2. Len(LookUps(task)) = 2
    BY <2>1
  <2>3. Len(answers) = 2
    BY <1>1, <2>2 DEF Answered
  <2>4. QED
    BY <2>3, AnswerIs
<1>4. error_count' \in Nat /\ error_count' >= error_count
  <2>1. [Next]_vars
    BY DEF Next, Visit
  <2>2. QED
    BY <2>1, ErrorsStay
<1>5. CASE answers[2] = Null
  <2>1. error_count # 0
    BY <1>1, <1>3, <1>5 DEF CallAnswered
  <2>2. QED
    BY <1>2, <1>4, <2>1
<1>6. CASE answers[2] # Null
  <2> DEFINE t     == answers[2]
             args  == ast.node[task.n].args
             known == {i \in DOMAIN args : i \in DOMAIN symbols[t]}
             wrong == {i \in known : ~Compatible(symbols[t][i].type, real_type[args[i]])}
  <2>1. PICK garbage \in 0..(Len(args) - Cardinality(known)) :
          error_count' = error_count + Cardinality(wrong) + garbage
                           + (IF Len(args) # Cardinality(Parameters(t)) THEN 1 ELSE 0)
    BY <1>6 DEF CheckCall
  <2>2. known # DOMAIN args
    BY <1>1, <1>6 DEF CheckCall
  <2>3. Len(args) \in Nat /\ DOMAIN args = 1..Len(args)
    BY <1>2, NodesAre, ListsGoUp DEF NodeLists
  <2>4. PICK k \in Nat : DOMAIN symbols[t] = 1..k
    <3>1. t \in Tables /\ symbols \in [Tables -> Seq([type : Kinds, is_function_arg : BOOLEAN])]
      BY <1>3, <1>6, TablesAre DEF TypeInv, TablesOK
    <3>2. symbols[t] \in Seq([type : Kinds, is_function_arg : BOOLEAN])
      BY <3>1
    <3>3. QED
      BY <3>2
  <2>5. Len(args) > k
    BY <2>2, <2>3, <2>4
  <2>6. Parameters(t) \subseteq 1..k
    BY <2>4 DEF Parameters
  <2>7. Cardinality(Parameters(t)) \in Nat /\ Cardinality(Parameters(t)) <= k
    BY <2>6, SubsetsCount
  <2>8. wrong \subseteq 1..Len(args) /\ known \subseteq 1..Len(args)
    BY <2>3
  <2>9. Cardinality(wrong) \in Nat /\ Cardinality(known) \in Nat
    BY <2>3, <2>8, SubsetsCount
  <2>10. Len(args) # Cardinality(Parameters(t))
    BY <2>3, <2>5, <2>7
  <2> HIDE DEF t, args, known, wrong
  <2>11. garbage \in Nat
    BY <2>3, <2>9
  <2>12. error_count' = error_count + Cardinality(wrong) + garbage + 1
    BY <2>1, <2>10
  <2>13. QED
    BY <1>2, <2>9, <2>11, <2>12
<1>7. QED
  BY <1>3, <1>5, <1>6

LEMMA ReportedKept ==
    ASSUME TypeInv, PlainFunctions, HomesApart, ChildrenInside, NestedEntered, SeatsPlain, Visits, LinksKept,
           CallFound, CallAnswered, Reported, [Next]_vars
    PROVE  Reported'
<1> SUFFICES ASSUME outcome' = "crashed" PROVE error_count' > 0
  BY DEF Reported
<1>1. error_count \in Nat /\ error_count' \in Nat /\ error_count' >= error_count
  BY ErrorsStay, NodesAre
<1>2. CASE outcome' = outcome
  BY <1>1, <1>2 DEF Reported
<1>3. CASE Ask
  <2>1. crashed' \/ outcome' = outcome
    BY <1>3 DEF Ask
  <2>2. error_count = 0 => ~crashed'
    BY <1>3, AskLeavesLinks
  <2>3. QED
    BY <1>1, <1>2, <2>1, <2>2
<1>4. CASE TypeCall
  BY <1>4, CallTyped
<1>5. CASE CheckCall
  BY <1>5, CheckedReports
<1>6. CASE Handler /\ ~TypeCall /\ ~CheckCall
  <2>1. outcome' = outcome
    BY <1>6 DEF Handler, Enter, Derive, AssignLeaf, AssignNode, AssignFunctionDecl, Resolve, Support,
         Decide, PushType, VisitNode, Report, Condition
  <2>2. QED
    BY <1>2, <2>1
<1>7. CASE PopAssign \/ PopVisit \/ Finish
  BY <1>7, PopStep
<1>8. QED
  BY <1>2, <1>3, <1>4, <1>5, <1>6, <1>7, Steps, CollectStep, QuietKeeps

-----------------------------------------------------------------------------
(* The invariant.                                                          *)
LinksInv ==
    /\ HomesApart /\ EnteredOnce /\ Outside /\ PhasesInv /\ UsesReached /\ UsesAnswered
    /\ NoneAssigned /\ ChildrenInside /\ CollectedIn /\ NestedEntered /\ AllEntered
    /\ PlainFunctions =>
         /\ SeatsPlain /\ FoundHome /\ Visits /\ CallsKnown /\ CallFound /\ CallAnswered
         /\ LinksKept /\ Reported

LEMMA PlainSame ==
    ASSUME ast \in Programs, ast' = ast
    PROVE  PlainFunctions' <=> PlainFunctions
<1>1. \A ks : Named(ks)' = Named(ks)
  BY DEF Named, Nodes, kind
<1>2. \A ks : \A n \in Named(ks) : name(n)' = name(n) /\ Functions(n)' = Functions(n)
  BY FunctionsSame DEF Named, name
<1>3. UniqueFunctions' <=> UniqueFunctions
  BY <1>1, <1>2 DEF UniqueFunctions
<1>4. QED
  BY <1>1, <1>2, <1>3 DEF PlainFunctions

LEMMA InitLinks == Init => LinksInv
<1> SUFFICES ASSUME Init PROVE LinksInv
  OBVIOUS
<1>1. TypeInv /\ ast \in Programs
  BY InitTypes DEF TypeInv
<1>2. HomesApart /\ EnteredOnce /\ Outside /\ PhasesInv /\ UsesReached /\ UsesAnswered
  BY InitLex, InitUses DEF LexInv, UsesInv
<1>3. /\ live = {Root} /\ children = [t \in Tables |-> <<>>] /\ answers = <<>>
      /\ stack_visit = ast.top /\ error_count = 0 /\ assigned = {} /\ outcome = "running"
      /\ home = [n \in Nodes |-> Null] /\ agenda = Calls("collect", ast.top, Root)
  BY DEF Init, ST!Init
<1>4. Due = {Call("collect", n, Root) : n \in Members(ast.top)}
  BY <1>3, CallMembers DEF Due
<1>5. /\ \A c \in Due : c.do = "collect" /\ c.n \in Members(ast.top) /\ c.t = Root
      /\ \A n \in Members(ast.top) : DueFor(n, "collect")
  <2>1. \A n : Call("collect", n, Root).do = "collect" /\ Call("collect", n, Root).n = n
               /\ Call("collect", n, Root).t = Root
    BY DEF Call
  <2>2. ASSUME NEW n \in Members(ast.top) PROVE DueFor(n, "collect")
    <3>1. Call("collect", n, Root) \in Due
      BY <1>4
    <3>2. QED
      BY <2>1, <3>1 DEF DueFor
  <2>3. QED
    BY <1>4, <2>1, <2>2
<1>6. Members(ast.top) \subseteq Nodes
  BY <1>1, Numbered, MembersIn
<1>7. NoneAssigned /\ AllEntered
  BY <1>3, <1>5 DEF NoneAssigned, AllEntered, ToEnter
<1>8. ChildrenInside
  BY <1>3 DEF ChildrenInside, Members
<1>9. CollectedIn
  BY <1>1, <1>5, <1>6, FunctionsAre DEF CollectedIn, TopLevel
<1>10. NestedEntered
  BY <1>3 DEF NestedEntered, Named
<1>11. SeatsPlain /\ Visits /\ CallsKnown
  BY <1>3, <1>5 DEF SeatsPlain, Visits, CallsKnown, Visiting
<1>12. FoundHome /\ CallFound /\ CallAnswered
  BY <1>3 DEF FoundHome, CallFound, CallAnswered
<1>13. LinksKept /\ Reported
  BY <1>3 DEF LinksKept, Reported, ST!Linked
<1>14. QED
  BY <1>2, <1>7, <1>8, <1>9, <1>10, <1>11, <1>12, <1>13 DEF LinksInv

LEMMA LinksInvKept == TypeInv /\ LinksInv /\ [Next]_vars => LinksInv'
<1> SUFFICES ASSUME TypeInv, LinksInv, [Next]_vars PROVE LinksInv'
  OBVIOUS
<1>1. /\ HomesApart /\ EnteredOnce /\ Outside /\ PhasesInv /\ UsesReached /\ UsesAnswered
      /\ NoneAssigned /\ ChildrenInside /\ CollectedIn /\ NestedEntered /\ AllEntered
  BY DEF LinksInv
<1>2. (HomesApart /\ EnteredOnce /\ Outside /\ PhasesInv /\ UsesReached /\ UsesAnswered)'
  BY <1>1, HomesKept, EntriesKept, OutsideKept, PhasesKept, ReachedKept, UsesAnsweredKept
<1>3. (NoneAssigned /\ ChildrenInside /\ CollectedIn /\ NestedEntered /\ AllEntered)'
  BY <1>1, NoneAssignedKept, ChildrenInsideKept, CollectedInKept, NestedEnteredKept, AllEnteredKept
<1>4. ASSUME PlainFunctions'
      PROVE  /\ SeatsPlain' /\ FoundHome' /\ Visits' /\ CallsKnown' /\ CallFound' /\ CallAnswered'
             /\ LinksKept' /\ Reported'
  <2>1. ast \in Programs /\ ast' = ast
    BY NodesAre, Steps, CollectStep, HandlerStep, PopStep, AskStep, QuietKeeps
  <2>2. PlainFunctions
    BY <1>4, <2>1, PlainSame
  <2>3. UniqueFunctions
    BY <2>2 DEF PlainFunctions
  <2>4. /\ SeatsPlain /\ FoundHome /\ Visits /\ CallsKnown /\ CallFound /\ CallAnswered
        /\ LinksKept /\ Reported
    BY <2>2 DEF LinksInv
  <2>5. SeatsPlain'
    BY <1>1, <2>2, <2>4, SeatsPlainKept
  <2>6. FoundHome'
    BY <1>1, <2>3, <2>4, FoundHomeKept
  <2>7. Visits'
    BY <1>1, <2>4, VisitsKept
  <2>8. CallsKnown' /\ CallFound'
    BY <1>1, <2>2, <2>4, CallsKnownKept, CallFoundKept
  <2>9. CallAnswered'
    BY <1>1, <2>2, <2>4, CallAnsweredKept
  <2>10. LinksKept'
    BY <1>1, <2>2, <2>4, LinksStay
  <2>11. Reported'
    BY <1>1, <2>2, <2>4, ReportedKept
  <2>12. QED
    BY <2>5, <2>6, <2>7, <2>8, <2>9, <2>10, <2>11
<1>5. QED
  BY <1>2, <1>3, <1>4 DEF LinksInv

LEMMA LinksInInv == LinksInv => LinksSurvive /\ CrashIsReported
BY DEF LinksInv, LinksKept, Reported, LinksSurvive, CrashIsReported

(* While the analysis has counted no error, and functions are plain, every *)
(* link of the tables is where add_sym_table put it: none of the look-ups  *)
(* of the walk, in whatever order, has moved or cut one.  So what          *)
(* LexicalWhileLinked says of get holds along the whole walk.              *)
THEOREM LinksAlwaysSurvive == Spec => []LinksSurvive
<1>1. TypeInv /\ LinksInv /\ [Next]_vars => LinksInv'
  BY LinksInvKept
<1>2. QED
  BY <1>1, InitLinks, LinksInInv, SemaInvariance, PTL DEF Spec

(* The analysis of a program with plain functions never dies, of a null    *)
(* table or of reading past the symbols of one, before it has counted an   *)
(* error.                                                                  *)
THEOREM WalkCrashReported == Spec => []CrashIsReported
<1>1. TypeInv /\ LinksInv /\ [Next]_vars => LinksInv'
  BY LinksInvKept
<1>2. QED
  BY <1>1, InitLinks, LinksInInv, SemaInvariance, PTL DEF Spec

-----------------------------------------------------------------------------
(* The returns, in functions, that a node is under.                        *)
ReturnsIn(n) == {m \in Around(n) : kind(m) = "return" /\ Functions(m) # {}}

LEMMA ReturnsBelow ==
    ASSUME ast \in Programs, NEW n \in Nodes, NEW l \in NodeLists(ast.node[n]), NEW m \in Members(l)
    PROVE  /\ m \in Nodes
           /\ ReturnsIn(m) = ReturnsIn(n) \cup (IF kind(n) = "return" /\ Functions(n) # {} THEN {n} ELSE {})
<1>1. m \in Nodes /\ n \in Holders(m)
  BY ListsGoUp DEF Members, Holders, HoldersIn, Nodes
<1>2. \A h, g \in Holders(m) : h # g => TopLevel(h) /\ TopLevel(g) /\ kind(h) = "variable_def" /\ kind(g) = "variable_def"
  BY <1>1, Whole DEF IsProgram, TopLevel, Holders, Nodes, kind
<1>3. Around(m) = Holders(m) \cup UNION {Around(h) : h \in Holders(m)}
  BY <1>1, AroundIs
<1>4. CASE Holders(m) = {n}
  <2>1. Around(m) = {n} \cup Around(n)
    BY <1>3, <1>4
  <2>2. QED
    BY <1>1, <2>1 DEF ReturnsIn
<1>5. CASE Holders(m) # {n}
  <2>1. \A h \in Holders(m) : TopLevel(h) /\ kind(h) = "variable_def"
    BY <1>1, <1>2, <1>5
  <2>2. \A h \in Holders(m) : Around(h) = {}
    <3>1. \A h \in Holders(m) : h \in Nodes /\ Holders(h) = {}
      BY <2>1, HoldersAbove, Whole DEF IsProgram, TopLevel, Holders, Nodes
    <3>2. QED
      BY <3>1, AroundIs
  <2>3. Around(m) = Holders(m)
    BY <1>3, <2>2
  <2>4. ReturnsIn(m) = {} /\ ReturnsIn(n) = {} /\ kind(n) # "return"
    BY <1>1, <2>1, <2>2, <2>3 DEF ReturnsIn
  <2>5. QED
    BY <1>1, <2>4
<1>6. QED
  BY <1>4, <1>5

AroundOver(n) == Holders(n) \cup UNION {Around(h) : h \in Holders(n)}

LEMMA AroundHeld == ast \in Programs => \A n \in Nodes : Around(n) = AroundOver(n)
BY AroundIs DEF AroundOver

LEMMA AroundSame ==
    ASSUME ast \in Programs, ast' = ast
    PROVE  \A n \in Nodes : Around(n)' = Around(n)
<1>1. (ast \in Programs => \A n \in Nodes : Around(n) = AroundOver(n))'
  BY AroundHeld, PTL
<1>2. /\ Nodes' = Nodes /\ \A n : Holders(n)' = Holders(n)
  BY DEF Nodes, Holders
<1>3. \A n \in Nodes : Around(n)' = Holders(n) \cup UNION {Around(h)' : h \in Holders(n)}
  BY <1>1, <1>2 DEF AroundOver
<1>4. \A n \in Nodes : Around(n) = Holders(n) \cup UNION {Around(h) : h \in Holders(n)}
  BY AroundIs
<1> DEFINE P == {n \in Nodes : Around(n)' = Around(n)}
<1>5. ASSUME NEW m \in Nodes, \A k \in Nodes : k < m => k \in P PROVE m \in P
  <2>1. \A h \in Holders(m) : Around(h)' = Around(h)
    BY <1>5, HoldersAbove
  <2>2. UNION {Around(h)' : h \in Holders(m)} = UNION {Around(h) : h \in Holders(m)}
    BY <2>1
  <2>3. QED
    BY <1>3, <1>4, <2>2
<1>6. Nodes \subseteq P
  <2> HIDE DEF P
  <2>1. QED
    BY <1>5, FromAbove
<1>7. QED
  BY <1>6

LEMMA ReturnsSame ==
    ASSUME ast \in Programs, ast' = ast
    PROVE  \A n \in Nodes : ReturnsIn(n)' = ReturnsIn(n)
<1> SUFFICES ASSUME NEW n \in Nodes PROVE ReturnsIn(n)' = ReturnsIn(n)
  OBVIOUS
<1>1. Around(n)' = Around(n) /\ Around(n) \subseteq Nodes
  BY AroundSame, AroundIs
<1>2. \A m \in Around(n) : kind(m)' = kind(m) /\ Functions(m)' = Functions(m)
  BY <1>1, FunctionsSame DEF kind
<1>3. ReturnsIn(n)' = {m \in Around(n) : kind(m)' = "return" /\ Functions(m)' # {}}
  BY <1>1 DEF ReturnsIn
<1>4. QED
  BY <1>2, <1>3 DEF ReturnsIn

(* A node under a return of a function is in that function.                *)
LEMMA ReturnsInFunctions ==
    ASSUME ast \in Programs, NEW n \in Nodes, Functions(n) = {}
    PROVE  ReturnsIn(n) = {}
<1> DEFINE P == {k \in Nodes : \A m \in Around(k) : Around(m) \subseteq Around(k)}
<1>1. ASSUME NEW k \in Nodes, \A h \in Nodes : h < k => h \in P PROVE k \in P
  <2>1. Around(k) = Holders(k) \cup UNION {Around(h) : h \in Holders(k)}
    BY AroundIs
  <2>2. \A h \in Holders(k) : \A m \in Around(h) : Around(m) \subseteq Around(h)
    BY <1>1, HoldersAbove
  <2>3. QED
    BY <2>1, <2>2
<1>2. Nodes \subseteq P
  <2> HIDE DEF P
  <2>1. QED
    BY <1>1, FromAbove
<1>3. \A m \in Around(n) : Around(m) \subseteq Around(n)
  BY <1>2
<1>4. QED
  BY <1>3 DEF ReturnsIn, Functions

(* What a handler makes due is under the same returns, unless its node is  *)
(* one; so is what a look through the children of a node passes.           *)
LEMMA ReturnsHeld ==
    ASSUME ast \in Programs, NEW n \in Nodes, kind(n) # "return", NEW m \in Held(n)
    PROVE  m \in Nodes /\ ReturnsIn(m) = ReturnsIn(n)
<1>1. CASE \E l \in NodeLists(ast.node[n]) : m \in Members(l)
  BY <1>1, ReturnsBelow
<1>2. CASE kind(n) = "expression" /\ m \in Members(Operands(n))
  <2> DEFINE P == {k \in Nodes : ReturnsIn(k) = ReturnsIn(n) /\ kind(k) # "return"}
  <2>1. n \in P
    BY <1>2
  <2>2. ASSUME NEW k \in Nodes \cap P, kind(k) = "expression" PROVE kids(k)[1] \in P /\ kids(k)[2] \in P
    <3>1. ASSUME NEW i \in DOMAIN kids(k) PROVE kids(k)[i] \in P
      <4>1. kids(k)[i] \in Members(kids(k)) /\ kids(k) \in NodeLists(ast.node[k])
        BY DEF Members, NodeLists, kids
      <4>2. ReturnsIn(kids(k)[i]) = ReturnsIn(k) /\ kids(k)[i] \in Nodes
        BY <2>2, <4>1, ReturnsBelow
      <4>3. kind(kids(k)[i]) # "return"
        BY Shapes DEF ValueKinds
      <4>4. QED
        BY <4>2, <4>3
    <3>2. QED
      BY <2>2, <3>1, Shapes
  <2>3. \A i \in DOMAIN Operands(n) : Operands(n)[i] \in P
    <3> HIDE DEF P
    <3>1. QED
      BY <2>1, <2>2, OperandsWithin
  <2>4. m \in P
    BY <1>2, <2>3 DEF Members
  <2>5. QED
    BY <1>2, <2>4
<1>3. Held(n) = (UNION {Members(l) : l \in NodeLists(ast.node[n])}) \cup
                (IF kind(n) = "expression" THEN Members(Operands(n)) ELSE {})
  BY Zenon DEF Held
<1>4. m \in UNION {Members(l) : l \in NodeLists(ast.node[n])} => \E l \in NodeLists(ast.node[n]) : m \in Members(l)
  BY Zenon
<1>5. QED
  BY <1>1, <1>2, <1>3, <1>4, Zenon

LEMMA ReturnsKid ==
    ASSUME ast \in Programs, NEW n \in Nodes, NEW i \in DOMAIN kids(n)
    PROVE  /\ kids(n)[i] \in Nodes /\ kind(kids(n)[i]) # "return"
           /\ ReturnsIn(kids(n)[i]) = ReturnsIn(n) \cup (IF kind(n) = "return" /\ Functions(n) # {} THEN {n} ELSE {})
<1>1. kids(n)[i] \in Members(kids(n)) /\ kids(n) \in NodeLists(ast.node[n])
  BY DEF Members, NodeLists, kids
<1>2. QED
  BY <1>1, ReturnsBelow, Shapes DEF ValueKinds

LEMMA ReturnsSubtree ==
    ASSUME ast \in Programs, NEW n \in Nodes, kind(n) # "return", NEW x \in Subtree(n)
    PROVE  x \in Nodes /\ ReturnsIn(x) = ReturnsIn(n)
<1> DEFINE P == {k \in Nodes : kind(k) # "return" => \A y \in Subtree(k) : y \in Nodes /\ ReturnsIn(y) = ReturnsIn(k)}
<1>1. ASSUME NEW k \in Nodes, \A h \in Nodes : h > k => h \in P PROVE k \in P
  <2>1. Subtree(k) = {k} \cup UNION {Subtree(kids(k)[i]) : i \in DOMAIN kids(k)}
    BY SubtreeIs
  <2>2. ASSUME kind(k) # "return", NEW i \in DOMAIN kids(k), NEW y \in Subtree(kids(k)[i])
        PROVE  y \in Nodes /\ ReturnsIn(y) = ReturnsIn(k)
    <3>1. kids(k)[i] \in Nodes /\ kids(k)[i] > k
      BY KidsGoUp
    <3>2. ReturnsIn(kids(k)[i]) = ReturnsIn(k) /\ kind(kids(k)[i]) # "return"
      BY <2>2, ReturnsKid
    <3>3. QED
      BY <1>1, <2>2, <3>1, <3>2
  <2>3. QED
    BY <2>1, <2>2
<1>2. Nodes \subseteq P
  <2> HIDE DEF P
  <2>1. QED
    BY <1>1, FromBelow
<1>3. QED
  BY <1>2

-----------------------------------------------------------------------------
(* The calls a handler makes due, by the call it handles.                  *)
ToReturn == {"enter_visit", "visit", "returns"}
Typing   == {"assign", "enter_assign", "push_type", "derive"}
Checked  == ValueKinds \cup {"variable_def"}

LEMMA AssignSpawns ==
    ASSUME ast \in Programs, NEW n \in Nodes, NEW t
    PROVE  \A c \in Members(AssignCalls(n, t)) :
             /\ c.do \notin ToReturn \cup {"enter_assign", "derive"}
             /\ c.do = "support" => kind(c.n) \in ValueKinds
             /\ c.do = "assign" /\ kind(n) \in ValueKinds => kind(c.n) \in ValueKinds
             /\ c.do = "push_type" => kind(n) \notin ValueKinds
<1>1. \A d, m, u : Call(d, m, u).do = d /\ Call(d, m, u).n = m
  BY DEF Call
<1>2. \A ns, u : \A c \in Members(Calls("assign", ns, u)) : c.do = "assign" /\ c.n \in Members(ns)
  BY CallsDo
<1>3. \A i \in DOMAIN kids(n) : kind(kids(n)[i]) \in ValueKinds
  BY Shapes
<1>4. kind(n) \in {"return", "unary", "print"} => 1 \in DOMAIN kids(n)
  BY Shapes DEF WithOperand
<1>5. CASE kind(n) = "expression"
  <2> DEFINE D == {"assign", "support", "decide"}
             C == [do : D, n : Nodes, t : {t}]
  <2>1. AssignCalls(n, t) = Calls("assign", Operands(n), t) \o <<Call("support", n, t), Call("decide", n, t)>>
    BY <1>5, Zenon DEF AssignCalls
  <2>2. <<Call("support", n, t), Call("decide", n, t)>> \in Seq(C)
    BY DEF Call
  <2>3. Calls("assign", Operands(n), t) \in Seq(C)
    <3>1. Operands(n) \in Seq(Nodes)
      BY OperandsWithin
    <3>2. "assign" \in D
      OBVIOUS
    <3> HIDE DEF D
    <3>3. QED
      BY <3>1, <3>2, CallsAreCalls
  <2>4. Members(AssignCalls(n, t))
          = Members(Calls("assign", Operands(n), t)) \cup Members(<<Call("support", n, t), Call("decide", n, t)>>)
    <3> HIDE DEF C
    <3>1. \A a, b \in Seq(C) : Members(a \o b) = Members(a) \cup Members(b)
      BY JoinedMembers
    <3>2. QED
      BY <2>1, <2>2, <2>3, <3>1
  <2>5. \A m \in Members(Operands(n)) : kind(m) \in ValueKinds
    <3> DEFINE P == {k \in Nodes : kind(k) \in ValueKinds}
    <3>1. n \in P
      BY <1>5 DEF ValueKinds
    <3>2. \A k \in Nodes \cap P : kind(k) = "expression" => kids(k)[1] \in P /\ kids(k)[2] \in P
      BY Shapes, KidsGoUp
    <3>3. \A i \in DOMAIN Operands(n) : Operands(n)[i] \in P
      <4> HIDE DEF P
      <4>1. QED
        BY <3>1, <3>2, OperandsWithin
    <3>4. QED
      BY <3>3 DEF Members
  <2>6. \A c \in Members(Calls("assign", Operands(n), t)) : c.do = "assign" /\ kind(c.n) \in ValueKinds
    BY <1>2, <2>5
  <2>7. \A c \in Members(<<Call("support", n, t), Call("decide", n, t)>>) : c.do \in {"support", "decide"} /\ c.n = n
    BY <1>1, TupleMembers
  <2>8. QED
    BY <1>5, <2>4, <2>6, <2>7 DEF ToReturn, ValueKinds
<1>6. CASE kind(n) = "return"
  <2>1. AssignCalls(n, t)
          = <<Call("support", kids(n)[1], t), Call("assign", kids(n)[1], t), Call("push_type", n, t)>>
    BY <1>6, Zenon DEF AssignCalls
  <2>2. QED
    BY <1>1, <1>3, <1>4, <1>6, <2>1, TupleMembers DEF ToReturn, ValueKinds
<1>7. CASE kind(n) = "unary"
  <2>1. AssignCalls(n, t) = <<Call("support", kids(n)[1], t), Call("assign", kids(n)[1], t)>>
    BY <1>7, Zenon DEF AssignCalls
  <2>2. QED
    BY <1>1, <1>3, <1>4, <1>7, <2>1, TupleMembers DEF ToReturn
<1>8. CASE kind(n) \in {"identifier", "print", "function_call"}
  <2>1. kind(n) = "identifier" => AssignCalls(n, t) = <<Call("resolve", n, t)>>
    BY Zenon DEF AssignCalls
  <2>2. kind(n) = "print" => AssignCalls(n, t) = <<Call("assign", kids(n)[1], t)>>
    BY Zenon DEF AssignCalls
  <2>3. kind(n) = "function_call" => AssignCalls(n, t) = <<Call("type_call", n, t)>>
    BY Zenon DEF AssignCalls
  <2>4. QED
    BY <1>1, <1>3, <1>4, <1>8, <2>1, <2>2, <2>3, TupleMembers DEF ToReturn
<1>9. CASE kind(n) \in {"function_def", "if", "while", "for", "else"}
  <2>1. /\ kind(n) = "function_def" => AssignCalls(n, t) = Calls("assign", ast.node[n].body \o ast.node[n].args, t)
        /\ kind(n) # "function_def" => AssignCalls(n, t) = Calls("assign", Below(ast.node[n]), t)
    BY <1>9, Zenon DEF AssignCalls
  <2>2. \A c \in Members(AssignCalls(n, t)) : c.do = "assign"
    BY <1>2, <2>1
  <2>3. QED
    BY <1>9, <2>2 DEF ToReturn, ValueKinds
<1>10. CASE kind(n) \notin {"identifier", "expression", "return", "unary", "print", "function_def",
                            "if", "while", "for", "else", "function_call"}
  <2>1. AssignCalls(n, t) = <<>>
    BY <1>10, Zenon DEF AssignCalls
  <2>2. QED
    BY <2>1, TupleMembers
<1>11. QED
  BY <1>5, <1>6, <1>7, <1>8, <1>9, <1>10

LEMMA VisitSpawns ==
    ASSUME ast \in Programs, NEW n \in Nodes, NEW t
    PROVE  \A c \in Members(VisitCalls(n, t)) :
             /\ c.do \in Typing => c.do = "assign" /\ kind(c.n) \in ValueKinds
             /\ c.do = "support" => kind(c.n) \in Checked
<1>1. \A d, m, u : Call(d, m, u).do = d /\ Call(d, m, u).n = m
  BY DEF Call
<1>2. \A d, ns, u : \A c \in Members(Calls(d, ns, u)) : c.do = d /\ c.n \in Members(ns)
  BY CallsDo
<1> DEFINE nd == ast.node[n]
           C == [do : Checks, n : Nodes, t : {t}]
<1>3. nd.body \in Seq(Nodes) /\ nd.args \in Seq(Nodes)
  BY ListsGoUp DEF NodeLists
<1>4. \A d \in Checks : \A ns \in Seq(Nodes) : Calls(d, ns, t) \in Seq(C)
  BY CallsAreCalls
<1>5. \A d, e \in Checks : \A m, k \in Nodes : <<Call(d, m, t), Call(e, k, t)>> \in Seq(C)
  BY DEF Call
<1>6. \A a, b \in Seq(C) : Members(a \o b) = Members(a) \cup Members(b)
  BY JoinedMembers
<1>7. {"visit", "condition", "support", "not_duplicated", "returns", "assign", "check_assignment"} \subseteq Checks
  BY DEF Checks
<1>8. kind(n) \in WithOperand => 1 \in DOMAIN kids(n) /\ kids(n)[1] \in Nodes /\ kind(kids(n)[1]) \in ValueKinds
  BY Shapes, KidsGoUp
<1>9. kind(n) = "assignment" => \A m \in Members(nd.args) : kind(m) \in ValueKinds
  BY Whole DEF IsProgram, kind, Nodes
<1> HIDE DEF C
<1>10. CASE kind(n) \in {"variable_decl", "function_decl", "function_call"}
  <2>1. kind(n) = "variable_decl" => VisitCalls(n, t) = <<Call("declared", n, t)>>
    BY Zenon DEF VisitCalls
  <2>2. kind(n) = "function_decl" => VisitCalls(n, t) = <<Call("not_duplicated", n, t)>>
    BY Zenon DEF VisitCalls
  <2>3. kind(n) = "function_call" => VisitCalls(n, t) = <<Call("check_call", n, t)>>
    BY Zenon DEF VisitCalls
  <2>4. QED
    BY <1>1, <1>10, <2>1, <2>2, <2>3, TupleMembers DEF Typing
<1>11. CASE kind(n) = "variable_def"
  <2>1. VisitCalls(n, t)
          = <<Call("defined", n, t), Call("assign", kids(n)[1], t), Call("support", n, t),
              Call("check_def", n, t)>>
    BY <1>11, Zenon DEF VisitCalls
  <2>2. QED
    BY <1>1, <1>8, <1>11, <2>1, TupleMembers DEF Typing, Checked, WithOperand
<1>12. CASE kind(n) \in {"if", "while"}
  <2>1. VisitCalls(n, t)
          = <<Call("condition", n, t), Call("support", kids(n)[1], t)>>
              \o (IF kind(n) = "if" THEN Calls("visit", nd.body, t) ELSE <<>>)
    BY <1>12, Zenon DEF VisitCalls
  <2>2. kids(n)[1] \in Nodes /\ kind(kids(n)[1]) \in ValueKinds
    BY <1>8, <1>12 DEF WithOperand
  <2>3. <<Call("condition", n, t), Call("support", kids(n)[1], t)>> \in Seq(C)
    BY <1>5, <1>7, <2>2
  <2>4. \A c \in Members(<<Call("condition", n, t), Call("support", kids(n)[1], t)>>) :
          c.do \in {"condition", "support"} /\ (c.do = "support" => kind(c.n) \in ValueKinds)
    BY <1>1, <2>2, TupleMembers
  <2>5. PICK a, z : /\ a = <<Call("condition", n, t), Call("support", kids(n)[1], t)>>
                    /\ z = IF kind(n) = "if" THEN Calls("visit", nd.body, t) ELSE <<>>
    OBVIOUS
  <2>6. z \in Seq(C)
    <3>1. <<>> \in Seq(C)
      OBVIOUS
    <3>2. QED
      BY <1>3, <1>4, <1>7, <2>5, <3>1
  <2>7. \A c \in Members(z) : c.do = "visit"
    BY <1>2, <2>5, TupleMembers
  <2>8. Members(VisitCalls(n, t)) = Members(a) \cup Members(z)
    BY <1>6, <2>1, <2>3, <2>5, <2>6
  <2>9. QED
    BY <2>4, <2>5, <2>7, <2>8 DEF Typing, Checked
<1>13. CASE kind(n) = "function_def"
  <2>1. VisitCalls(n, t)
          = <<Call("not_duplicated", n, t), Call("returns", n, t)>> \o Calls("visit", nd.body, t)
    BY <1>13, Zenon DEF VisitCalls
  <2>2. PICK a, z : a = <<Call("not_duplicated", n, t), Call("returns", n, t)>> /\ z = Calls("visit", nd.body, t)
    OBVIOUS
  <2>3. a \in Seq(C) /\ z \in Seq(C)
    BY <1>3, <1>4, <1>5, <1>7, <2>2
  <2>4. \A c \in Members(a) : c.do \in {"not_duplicated", "returns"}
    BY <1>1, <2>2, TupleMembers
  <2>5. \A c \in Members(z) : c.do = "visit"
    BY <1>2, <2>2
  <2>6. Members(VisitCalls(n, t)) = Members(a) \cup Members(z)
    BY <1>6, <2>1, <2>2, <2>3
  <2>7. QED
    BY <2>4, <2>5, <2>6 DEF Typing
<1>14. CASE kind(n) = "assignment"
  <2>1. VisitCalls(n, t)
          = Calls("assign", nd.args, t) \o Calls("support", nd.args, t) \o <<Call("check_assignment", n, t)>>
    BY <1>14, Zenon DEF VisitCalls
  <2>2. PICK a, y, z : a = Calls("assign", nd.args, t) /\ y = Calls("support", nd.args, t)
                       /\ z = <<Call("check_assignment", n, t)>>
    OBVIOUS
  <2>3. a \in Seq(C) /\ y \in Seq(C)
    BY <1>3, <1>4, <1>7, <2>2
  <2>4. z \in Seq(C)
    BY <1>7, <2>2 DEF Call, C
  <2>5. a \o y \in Seq(C) /\ Members(a \o y) = Members(a) \cup Members(y)
    BY <1>6, <2>3, Joined
  <2>6. Members((a \o y) \o z) = Members(a) \cup Members(y) \cup Members(z)
    BY <1>6, <2>4, <2>5
  <2>7. VisitCalls(n, t) = (a \o y) \o z
    BY <2>1, <2>2
  <2>8. \A c \in Members(z) : c.do = "check_assignment"
    BY <1>1, <2>2, TupleMembers
  <2>9. \A c \in Members(a) \cup Members(y) : c.do \in {"assign", "support"} /\ kind(c.n) \in ValueKinds
    BY <1>2, <1>9, <1>14, <2>2
  <2>10. QED
    BY <2>6, <2>7, <2>8, <2>9 DEF Typing, Checked
<1>15. CASE kind(n) \notin {"variable_decl", "variable_def", "if", "while", "function_decl",
                            "function_def", "assignment", "function_call"}
  <2>1. VisitCalls(n, t) = <<>>
    BY <1>15, Zenon DEF VisitCalls
  <2>2. QED
    BY <2>1, TupleMembers
<1>16. QED
  BY <1>10, <1>11, <1>12, <1>13, <1>14, <1>15

(* The call at hand is replaced by these.                                  *)
Successors(cs) ==
    \/ cs = <<>>
    \/ \E d \in {"assign", "visit"}, t \in live : task.do = Entering(d) /\ cs = <<Call(d, task.n, t)>>
    \/ task.do = "assign" /\ cs = AssignCalls(task.n, task.t)
    \/ task.do = "assign" /\ kind(task.n) = "function_decl" /\ cs = Calls("assign", ast.node[task.n].args, task.t)
    \/ task.do = "type_call" /\ cs = Calls("assign", ast.node[task.n].args, task.t)
    \/ task.do = "visit" /\ cs = VisitCalls(task.n, task.t)

LEMMA HandlerReplaces ==
    ASSUME TypeInv, Handler
    PROVE  /\ Running /\ task \in ToCheck /\ task.n \in Nodes /\ task.t \in live /\ task.do # "collect"
           /\ agenda \in Seq(ToCheck) /\ agenda # <<>> /\ ast \in Programs
           /\ \E cs \in Seq(ToCheck) : agenda' = cs \o Tail(agenda) /\ Successors(cs)
<1>1. /\ Running /\ task \in ToCheck /\ task.n \in Nodes /\ task.t \in live /\ ast \in Programs /\ agenda # <<>>
      /\ task.do # "collect" /\ agenda \in Seq(ToCheck)
  BY TaskIs, NodesAre, HandlerStep DEF Running
<1>2. CASE Enter
  <2>1. PICK d \in {"assign", "visit"} : Doing(Entering(d)) /\ Then(<<Call(d, task.n, answers[1])>>)
    BY <1>2 DEF Enter
  <2>2. task.do = Entering(d) /\ Answered /\ task.do \in {"enter_assign", "enter_visit"}
    BY <2>1 DEF Doing, Entering
  <2>3. answers[1] \in live
    <3>1. LookUps(task) = <<Look("find", Root)>>
      BY <2>2, LookUpsAre
    <3>2. Len(answers) = 1
      BY <2>2, <3>1 DEF Answered
    <3>3. answers[1] # Null
      BY <1>1, <2>2, <3>2, AnswerIs DEF TypeInv, AnswersOK
    <3>4. QED
      BY <3>2, <3>3, AnswerIs
  <2>4. <<Call(d, task.n, answers[1])>> \in Seq(ToCheck)
    BY <1>1, <2>3, CallFits
  <2>5. QED
    BY <1>1, <2>1, <2>2, <2>3, <2>4 DEF Then, Successors
<1>3. <<>> \in Seq(ToCheck)
  OBVIOUS
<1>4. AssignCalls(task.n, task.t) \in Seq(ToCheck) /\ VisitCalls(task.n, task.t) \in Seq(ToCheck)
  BY <1>1, AssignCallsFit, VisitCallsFit
<1>5. Calls("assign", ast.node[task.n].args, task.t) \in Seq(ToCheck)
  <2>1. ast.node[task.n].args \in Seq(Nodes)
    BY <1>1, ListsGoUp DEF NodeLists
  <2>2. QED
    BY <1>1, <2>1, CallsFit
<1>6. CASE AssignNode
  <2>1. task.do = "assign" /\ agenda' = AssignCalls(task.n, task.t) \o Tail(agenda)
    BY <1>6 DEF AssignNode, Doing, Then
  <2>2. QED
    BY <1>1, <1>4, <2>1 DEF Successors
<1>7. CASE VisitNode
  <2>1. task.do = "visit" /\ agenda' = VisitCalls(task.n, task.t) \o Tail(agenda)
    BY <1>7 DEF VisitNode, Doing, Then
  <2>2. QED
    BY <1>1, <1>4, <2>1 DEF Successors
<1>8. CASE AssignFunctionDecl
  <2>1. task.do = "assign" /\ kind(task.n) = "function_decl"
        /\ agenda' = Calls("assign", ast.node[task.n].args, task.t) \o Tail(agenda)
    BY <1>8 DEF AssignFunctionDecl, At, Doing, Then
  <2>2. QED
    BY <1>1, <1>5, <2>1 DEF Successors
<1>9. CASE TypeCall
  <2>1. task.do = "type_call"
        /\ (agenda' = <<>> \o Tail(agenda) \/ agenda' = Calls("assign", ast.node[task.n].args, task.t) \o Tail(agenda))
    BY <1>9 DEF TypeCall, Doing, Then
  <2>2. QED
    BY <1>1, <1>3, <1>5, <2>1 DEF Successors
<1>10. CASE ~(Enter \/ AssignNode \/ VisitNode \/ AssignFunctionDecl \/ TypeCall)
  <2>1. agenda' = <<>> \o Tail(agenda)
    BY <1>10 DEF Handler, Derive, AssignLeaf, Resolve, Support, Decide, PushType, Report, Condition, CheckCall, Then
  <2>2. QED
    BY <1>1, <1>3, <2>1 DEF Successors
<1>11. QED
  BY <1>2, <1>6, <1>7, <1>8, <1>9, <1>10

-----------------------------------------------------------------------------
(* What is due below a return of a function is followed by its push_type.  *)
PushesLast ==
    \A i \in DOMAIN agenda : \A m \in ReturnsIn(agenda[i].n) :
        \E j \in DOMAIN agenda : j > i /\ agenda[j].n = m /\ agenda[j].do = "push_type"

LEMMA PushesAfter ==
    ASSUME ast \in Programs, ast' = ast, PushesLast,
           NEW S, \A s \in S : s.n \in Nodes, agenda \in Seq(S), agenda # <<>>,
           NEW cs \in Seq(S), agenda' = cs \o Tail(agenda),
           \A i \in DOMAIN cs : \A m \in ReturnsIn(cs[i].n) :
             \/ m \in ReturnsIn(task.n)
             \/ \E j \in DOMAIN cs : j > i /\ cs[j].n = m /\ cs[j].do = "push_type"
    PROVE  PushesLast'
<1>1. PICK rest_ : rest_ = Tail(agenda)
  OBVIOUS
<1>2. PICK new : new = cs \o rest_
  OBVIOUS
<1>3. /\ rest_ \in Seq(S) /\ Len(agenda) \in Nat /\ DOMAIN agenda = 1..Len(agenda)
      /\ Len(agenda) > 0 /\ Len(rest_) = Len(agenda) - 1 /\ DOMAIN rest_ = 1..Len(rest_)
      /\ \A i \in 1..Len(rest_) : rest_[i] = agenda[i + 1]
      /\ task = agenda[1]
  BY <1>1 DEF task
<1>4. /\ Len(cs) \in Nat /\ DOMAIN cs = 1..Len(cs) /\ DOMAIN new = 1..(Len(cs) + Len(rest_))
      /\ \A i \in 1..Len(cs) : new[i] = cs[i]
      /\ \A i \in 1..Len(rest_) : new[Len(cs) + i] = rest_[i]
      /\ new \in Seq(S)
  BY <1>2, <1>3
<1>5. \A j \in 2..Len(agenda) : Len(cs) + (j - 1) \in DOMAIN new /\ new[Len(cs) + (j - 1)] = agenda[j]
  <2>1. ASSUME NEW j \in 2..Len(agenda)
        PROVE  Len(cs) + (j - 1) \in DOMAIN new /\ new[Len(cs) + (j - 1)] = agenda[j]
    <3>1. j - 1 \in 1..Len(rest_) /\ (j - 1) + 1 = j
      BY <1>3
    <3>2. rest_[j - 1] = agenda[j]
      BY <1>3, <3>1
    <3>3. PICK h : h = j - 1
      OBVIOUS
    <3>4. h \in 1..Len(rest_) /\ rest_[h] = agenda[j]
      BY <3>1, <3>2, <3>3
    <3>5. Len(cs) + h \in DOMAIN new /\ new[Len(cs) + h] = rest_[h]
      BY <1>3, <1>4, <3>4
    <3>6. QED
      BY <3>3, <3>4, <3>5
  <2>2. QED
    BY <2>1
<1>6. ASSUME NEW i \in DOMAIN new, NEW m \in ReturnsIn(new[i].n)
      PROVE  \E j \in DOMAIN new : j > i /\ new[j].n = m /\ new[j].do = "push_type"
  <2>1. CASE i \in 1..Len(cs)
    <3>1. new[i] = cs[i] /\ i \in DOMAIN cs
      BY <1>4, <2>1
    <3>2. m \in ReturnsIn(cs[i].n)
      BY <1>6, <3>1
    <3>3. CASE m \in ReturnsIn(task.n)
      <4>1. 1 \in DOMAIN agenda /\ m \in ReturnsIn(agenda[1].n)
        BY <1>3, <3>3
      <4>2. PICK j \in DOMAIN agenda : j > 1 /\ agenda[j].n = m /\ agenda[j].do = "push_type"
        BY <4>1 DEF PushesLast
      <4>3. j \in 2..Len(agenda) /\ Len(cs) + (j - 1) > i
        BY <1>3, <1>4, <2>1, <4>2
      <4>4. QED
        BY <1>5, <4>2, <4>3
    <3>4. CASE \E j \in DOMAIN cs : j > i /\ cs[j].n = m /\ cs[j].do = "push_type"
      <4>1. PICK j \in DOMAIN cs : j > i /\ cs[j].n = m /\ cs[j].do = "push_type"
        BY <3>4
      <4>2. j \in DOMAIN new /\ new[j] = cs[j]
        BY <1>3, <1>4
      <4>3. QED
        BY <4>1, <4>2
    <3>5. QED
      BY <3>1, <3>2, <3>3, <3>4
  <2>2. CASE i \notin 1..Len(cs)
    <3>1. (i - Len(cs)) + 1 \in 2..Len(agenda) /\ Len(cs) + (((i - Len(cs)) + 1) - 1) = i
      BY <1>3, <1>4, <2>2
    <3>2. PICK h : h = (i - Len(cs)) + 1
      OBVIOUS
    <3>3. h \in DOMAIN agenda /\ new[i] = agenda[h] /\ h \in 2..Len(agenda)
      BY <1>3, <1>5, <3>1, <3>2
    <3>4. m \in ReturnsIn(agenda[h].n)
      BY <1>6, <3>3
    <3>5. PICK j \in DOMAIN agenda : j > h /\ agenda[j].n = m /\ agenda[j].do = "push_type"
      BY <3>3, <3>4 DEF PushesLast
    <3>6. j \in 2..Len(agenda) /\ Len(cs) + (j - 1) > i
      BY <1>3, <1>4, <3>2, <3>3, <3>5
    <3>7. QED
      BY <1>5, <3>5, <3>6
  <2>3. QED
    BY <2>1, <2>2
<1>7. agenda' = new
  BY <1>1, <1>2
<1>8. \A n \in Nodes : ReturnsIn(n)' = ReturnsIn(n)
  BY ReturnsSame
<1>9. \A i \in DOMAIN new : new[i].n \in Nodes
  BY <1>4
<1>10. \A i \in DOMAIN agenda' : ReturnsIn(agenda[i].n)' = ReturnsIn(new[i].n)
  BY <1>7, <1>8, <1>9 DEF ReturnsIn, Around, Functions, Holders, HoldersIn, Nodes, kind
<1>11. \A i \in DOMAIN agenda' : \A m \in ReturnsIn(agenda[i].n)' :
         \E j \in DOMAIN agenda' : j > i /\ agenda'[j].n = m /\ agenda'[j].do = "push_type"
  <2>1. ASSUME NEW i \in DOMAIN agenda', NEW m \in ReturnsIn(agenda[i].n)'
        PROVE  \E j \in DOMAIN agenda' : j > i /\ agenda'[j].n = m /\ agenda'[j].do = "push_type"
    <3>1. i \in DOMAIN new /\ m \in ReturnsIn(new[i].n)
      BY <1>7, <1>10, <2>1
    <3>2. PICK j \in DOMAIN new : j > i /\ new[j].n = m /\ new[j].do = "push_type"
      BY <1>6, <3>1
    <3>3. QED
      BY <1>7, <3>2
  <2>2. QED
    BY <2>1
<1>12. QED
  BY <1>11 DEF PushesLast

LEMMA PushesKept ==
    ASSUME TypeInv, Outside, PushesLast, [Next]_vars
    PROVE  PushesLast'
<1>1. ast \in Programs /\ ast' = ast /\ (\A n \in Nodes : ReturnsIn(n)' = ReturnsIn(n))
  BY NodesAre, OtherSteps, CollectStep, ReturnsSame
<1>2. \A i \in DOMAIN agenda : agenda[i].n \in Nodes
  BY DEF TypeInv, AgendaOK, ToCollect, ToCheck
<1>3. CASE agenda' = agenda
  BY <1>1, <1>2, <1>3 DEF PushesLast
<1>4. CASE Collect
  <2> DEFINE S == [do : {"collect"}, n : Nodes, t : live']
  <2>1. Running /\ task.do = "collect" /\ live \subseteq live' /\ task.n \in Nodes
    BY <1>4, TaskIs, CollectStep
  <2>2. agenda \in Seq(S) /\ agenda # <<>>
    <3>1. agenda \in Seq(ToCollect) /\ ToCollect \subseteq S
      BY <2>1, TaskIs DEF ToCollect
    <3>2. QED
      BY <2>1, <3>1, SeqsGrow DEF Running
  <2>3. PICK ns \in {<<>>, Below(ast.node[task.n])}, t \in live' :
          agenda' = Calls("collect", ns, t) \o Tail(agenda)
    BY <1>4, CollectCalls
  <2>4. ns \in Seq(Nodes)
    <3>1. <<>> \in Seq(Nodes)
      OBVIOUS
    <3>2. QED
      BY <1>1, <2>1, <2>3, <3>1, BelowIs
  <2>5. Calls("collect", ns, t) \in Seq(S)
    <3>1. \A i \in DOMAIN ns : Call("collect", ns[i], t) \in S
      BY <2>3, <2>4 DEF Call
    <3>2. QED
      BY <2>4, <3>1, CallsAre
  <2>6. ASSUME NEW i \in DOMAIN Calls("collect", ns, t), NEW m \in ReturnsIn(Calls("collect", ns, t)[i].n)
        PROVE  m \in ReturnsIn(task.n)
    <3>1. i \in DOMAIN ns /\ Calls("collect", ns, t)[i].n = ns[i]
      BY DEF Calls, Call
    <3>2. kind(task.n) # "return"
      <4>1. ns # <<>>
        BY <3>1
      <4>2. kind(task.n) = "return" => Below(ast.node[task.n]) = <<>>
        BY Zenon DEF Below, kind
      <4>3. QED
        BY <2>3, <4>1, <4>2
    <3>3. ns[i] \in Held(task.n)
      <4>1. Below(ast.node[task.n]) \in Seq(Held(task.n))
        BY <1>1, <2>1, HeldLists
      <4>2. QED
        BY <2>3, <3>1, <4>1
    <3>4. QED
      BY <1>1, <2>1, <2>6, <3>1, <3>2, <3>3, ReturnsHeld
  <2>7. QED
    <3> HIDE DEF S
    <3>1. \A s \in S : s.n \in Nodes
      BY DEF S
    <3>2. QED
      BY <1>1, <2>2, <2>3, <2>5, <2>6, <3>1, PushesAfter
<1>5. CASE Handler
  <2>1. /\ task.n \in Nodes /\ task.do # "collect" /\ agenda \in Seq(ToCheck) /\ agenda # <<>>
        /\ task \in ToCheck
    BY <1>5, HandlerReplaces
  <2>2. PICK cs \in Seq(ToCheck) : agenda' = cs \o Tail(agenda) /\ Successors(cs)
    BY <1>5, HandlerReplaces
  <2>3. PICK n, u : n = task.n /\ u = task.t
    OBVIOUS
  <2>4. ASSUME kind(n) # "return"
        PROVE  \A i \in DOMAIN cs : cs[i].n \in {n} \cup Held(n)
    <3>1. /\ AssignCalls(n, u) \in Seq(CallsOn(n, u)) /\ VisitCalls(n, u) \in Seq(CallsOn(n, u))
          /\ ast.node[n].args \in Seq(Held(n))
      BY <1>1, <2>1, <2>3, AssignStaysWithin, VisitStaysWithin, HeldLists
    <3>2. \A s \in Seq(CallsOn(n, u)) : \A i \in DOMAIN s : s[i].n \in {n} \cup Held(n)
      <4>1. \A s \in Seq(CallsOn(n, u)) : \A i \in DOMAIN s : s[i] \in CallsOn(n, u)
        OBVIOUS
      <4>2. \A c \in CallsOn(n, u) : c.n \in {n} \cup Held(n)
        BY DEF CallsOn
      <4>3. QED
        BY <4>1, <4>2
    <3>3. \A i \in DOMAIN Calls("assign", ast.node[n].args, u) :
             Calls("assign", ast.node[n].args, u)[i].n \in Held(n)
      BY <3>1 DEF Calls, Call
    <3>4. ASSUME NEW d, NEW t, cs = <<Call(d, n, t)>> PROVE \A i \in DOMAIN cs : cs[i].n = n
      BY <3>4 DEF Call
    <3>5. QED
      BY <2>2, <2>3, <3>1, <3>2, <3>3, <3>4 DEF Successors
  <2>5. ASSUME kind(n) = "return", NEW i \in DOMAIN cs, NEW m \in ReturnsIn(cs[i].n)
        PROVE  m \in ReturnsIn(n) \/ \E j \in DOMAIN cs : j > i /\ cs[j].n = m /\ cs[j].do = "push_type"
    <3>1. task.do \notin {"enter_assign", "enter_visit", "type_call"}
      BY <2>1, <2>3, <2>5 DEF ToCheck, Fits
    <3>2. VisitCalls(n, u) = <<>>
      BY <2>5, Zenon DEF VisitCalls
    <3>3. AssignCalls(n, u)
            = <<Call("support", kids(n)[1], u), Call("assign", kids(n)[1], u), Call("push_type", n, u)>>
      BY <2>5, Zenon DEF AssignCalls
    <3>4. cs = AssignCalls(n, u)
      BY <2>2, <2>3, <2>5, <3>1, <3>2 DEF Successors, Entering
    <3>5. i \in 1..3 /\ 3 \in DOMAIN cs /\ cs[3].n = n /\ cs[3].do = "push_type"
          /\ (i < 3 => cs[i].n = kids(n)[1])
      BY <3>3, <3>4 DEF Call
    <3>6. 1 \in DOMAIN kids(n)
      BY <1>1, <2>1, <2>3, <2>5, Shapes DEF WithOperand
    <3>7. ReturnsIn(kids(n)[1]) \subseteq ReturnsIn(n) \cup {n}
      BY <1>1, <2>1, <2>3, <3>6, ReturnsKid
    <3>8. CASE i < 3
      <4>1. m \in ReturnsIn(n) \cup {n}
        BY <2>5, <3>5, <3>7, <3>8
      <4>2. QED
        BY <3>5, <3>8, <4>1
    <3>9. CASE i = 3
      BY <2>5, <3>5, <3>9
    <3>10. QED
      BY <3>5, <3>8, <3>9
  <2>6. ASSUME kind(n) # "return", NEW i \in DOMAIN cs, NEW m \in ReturnsIn(cs[i].n)
        PROVE  m \in ReturnsIn(n)
    <3>1. cs[i].n \in {n} \cup Held(n)
      BY <2>4, <2>6
    <3>2. cs[i].n \in Held(n) => ReturnsIn(cs[i].n) = ReturnsIn(n)
      BY <1>1, <2>1, <2>3, <2>6, ReturnsHeld
    <3>3. QED
      BY <2>6, <3>1, <3>2
  <2>7. \A s \in ToCheck : s.n \in Nodes
    BY DEF ToCheck
  <2>8. \A i \in DOMAIN cs : \A m \in ReturnsIn(cs[i].n) :
          \/ m \in ReturnsIn(task.n)
          \/ \E j \in DOMAIN cs : j > i /\ cs[j].n = m /\ cs[j].do = "push_type"
    BY <2>3, <2>5, <2>6
  <2>9. QED
    BY <1>1, <2>1, <2>2, <2>7, <2>8, PushesAfter
<1>6. CASE PopAssign \/ PopVisit
  <2>1. PICK n \in Nodes : (n \in Members(stack_assign) \/ n \in Members(stack_visit)) /\ \A c \in Due' : c.n = n
    BY <1>6, PopMakes
  <2>2. ReturnsIn(n) = {}
    BY <1>1, <2>1, ReturnsInFunctions DEF Outside
  <2>3. ReturnsIn(n)' = {}
    BY <1>1, <2>2
  <2>4. \A i \in DOMAIN agenda' : agenda'[i].n = n
    BY <2>1 DEF Due, Members
  <2>5. \A i \in DOMAIN agenda' : ReturnsIn(agenda[i].n)' = {}
    BY <2>3, <2>4
  <2>6. QED
    BY <2>5 DEF PushesLast
<1>7. CASE Ask \/ Finish \/ Quiet
  <2>1. agenda' = agenda
    BY <1>7, AskStep, QuietKeeps DEF Finish
  <2>2. QED
    BY <1>3, <2>1
<1>8. QED
  BY <1>4, <1>5, <1>6, <1>7, Steps


-----------------------------------------------------------------------------
(* What gives a node a type, and what keeps the type of an operand.        *)
Supports == \A c \in Due : c.do = "support" => kind(c.n) \in Checked

LEMMA TypesMove ==
    ASSUME TypeInv, Supports, [Next]_vars, NEW x \in Nodes, real_type'[x] # real_type[x]
    PROVE  Handler /\ ~PushType /\ ReturnsIn(x) \subseteq ReturnsIn(task.n)
<1>1. Handler
  <2>1. ~Handler => real_type' = real_type
    BY Steps DEF Handler, Collect, EnterSymbol, EnterFunction, EnterBlock, Ask, PopAssign, PopVisit, Finish, Quiet, typing
  <2>2. QED
    BY <2>1
<1>2. /\ task.n \in Nodes /\ task \in ToCheck /\ task \in Due /\ ast \in Programs
      /\ real_type \in [Nodes -> Kinds]
  BY <1>1, HandlerReplaces, HandlerStep, NodesAre
<1>3. ~PushType
  BY DEF PushType
<1>4. CASE Support
  <2>1. real_type' = Supported(task.n) /\ kind(task.n) \in Checked
    BY <1>2, <1>4 DEF Support, Doing, Supports
  <2>2. x \in Subtree(task.n)
    <3>1. x \notin Subtree(task.n) => Supported(task.n)[x] = real_type[x]
      BY DEF Supported
    <3>2. QED
      BY <2>1, <3>1
  <2>3. kind(task.n) # "return"
    BY <2>1 DEF Checked, ValueKinds
  <2>4. QED
    BY <1>1, <1>2, <1>3, <2>2, <2>3, ReturnsSubtree
<1>5. CASE Condition
  <2>1. GetsType(kids(task.n)[1], "BOOL") /\ kind(task.n) \in {"if", "while"}
    BY <1>2, <1>5 DEF Condition, Doing, ToCheck, Fits
  <2>2. 1 \in DOMAIN kids(task.n)
    BY <1>2, <2>1, Shapes DEF WithOperand
  <2>3. x = kids(task.n)[1]
    BY <1>2, <2>1 DEF GetsType
  <2>4. ReturnsIn(x) = ReturnsIn(task.n)
    BY <1>2, <2>1, <2>2, <2>3, ReturnsKid
  <2>5. QED
    BY <1>1, <1>3, <2>4
<1>6. CASE ~Support /\ ~Condition
  <2>1. real_type' = real_type \/ \E k : GetsType(task.n, k)
    BY <1>1, <1>6 DEF Handler, Enter, Derive, AssignLeaf, AssignNode, AssignFunctionDecl, Resolve, Decide,
         PushType, TypeCall, VisitNode, Report, CheckCall, typing
  <2>2. x = task.n
    BY <1>2, <2>1 DEF GetsType
  <2>3. QED
    BY <1>1, <1>3, <2>2
<1>7. QED
  BY <1>4, <1>5, <1>6

LEMMA PushesOnly ==
    ASSUME TypeInv, [Next]_vars
    PROVE  /\ ~PushType => types' = types
           /\ PushType =>
                /\ task.do = "push_type" /\ task.n \in Nodes /\ kind(task.n) = "return"
                /\ real_type' = real_type /\ error_count' = error_count
                /\ types' = [types EXCEPT ![task.n] = Append(@, type_expr(kids(task.n)[1], real_type))]
<1>1. ~PushType => types' = types
  <2>1. CASE Handler
    BY <2>1 DEF Handler, Enter, Derive, AssignLeaf, AssignNode, AssignFunctionDecl, Resolve, Support, Decide,
         TypeCall, VisitNode, Report, Condition, CheckCall, typing
  <2>2. CASE ~Handler
    BY <2>2, Steps DEF Collect, EnterSymbol, EnterFunction, EnterBlock, Ask, PopAssign, PopVisit, Finish, Quiet, typing
  <2>3. QED
    BY <2>1, <2>2
<1>2. ASSUME PushType
      PROVE  /\ task.do = "push_type" /\ task.n \in Nodes /\ kind(task.n) = "return"
             /\ real_type' = real_type /\ error_count' = error_count
             /\ types' = [types EXCEPT ![task.n] = Append(@, type_expr(kids(task.n)[1], real_type))]
  <2>1. task \in ToCheck /\ task.n \in Nodes
    BY <1>2, HandlerReplaces DEF Handler
  <2>2. QED
    BY <1>2, <2>1 DEF PushType, Doing, ToCheck, Fits
<1>3. QED
  BY <1>1, <1>2

FirstIs(n) ==
    Plain(n) # {} => \E i \in Plain(n) : (\A j \in Plain(n) : i <= j) /\ FirstPlain(n) = kids(n)[i]

LEMMA FirstPlainAt == ast \in Programs => \A n \in Nodes : FirstIs(n)
<1> SUFFICES ASSUME ast \in Programs, NEW n \in Nodes, Plain(n) # {}
             PROVE  \E i \in Plain(n) : (\A j \in Plain(n) : i <= j) /\ FirstPlain(n) = kids(n)[i]
  BY DEF FirstIs
<1>1. Plain(n) \subseteq Nat
  BY KidsGoUp DEF Plain
<1>2. \E i \in Plain(n) : \A j \in Plain(n) : i <= j
  BY <1>1, LeastNatural
<1>3. QED
  BY <1>2 DEF FirstPlain

LEMMA TypeExprSame ==
    ASSUME ast \in Programs, ast' = ast, NEW k \in Nodes, kind(k) # "return",
           \A x \in Nodes : ReturnsIn(x) = ReturnsIn(k) => real_type'[x] = real_type[x]
    PROVE  type_expr(k, real_type)' = type_expr(k, real_type)
<1>1. /\ Nodes' = Nodes /\ kind(k)' = kind(k) /\ kids(k)' = kids(k) /\ Plain(k)' = Plain(k)
  BY DEF Nodes, kind, kids, Plain
<1>2. Plain(k) # {} => FirstPlain(k) \in Nodes /\ ReturnsIn(FirstPlain(k)) = ReturnsIn(k) /\ FirstPlain(k)' = FirstPlain(k)
  <2>1. ASSUME Plain(k) # {}
        PROVE  FirstPlain(k) \in Nodes /\ ReturnsIn(FirstPlain(k)) = ReturnsIn(k) /\ FirstPlain(k)' = FirstPlain(k)
    <3>1. PICK i \in Plain(k) : (\A j \in Plain(k) : i <= j) /\ FirstPlain(k) = kids(k)[i]
      BY <2>1, FirstPlainAt DEF FirstIs
    <3>2. (\A n \in Nodes : FirstIs(n))'
      <4>1. (ast \in Programs => \A n \in Nodes : FirstIs(n))'
        BY FirstPlainAt, PTL
      <4>2. QED
        BY <4>1
    <3>3. FirstIs(k)'
      BY <1>1, <3>2
    <3>4. PICK j \in Plain(k) : (\A h \in Plain(k) : j <= h) /\ FirstPlain(k)' = kids(k)[j]
      BY <1>1, <2>1, <3>3 DEF FirstIs
    <3>5. i \in Nat /\ j \in Nat
      BY KidsGoUp DEF Plain
    <3>6. i = j
      BY <3>1, <3>4, <3>5
    <3>7. i \in DOMAIN kids(k)
      BY DEF Plain
    <3>8. QED
      BY <3>1, <3>4, <3>6, <3>7, ReturnsKid
  <2>2. QED
    BY <2>1
<1>3. QED
  BY <1>1, <1>2 DEF type_expr

Pushing(m) == \E c \in Due : c.n = m /\ c.do = "push_type"

(* What a return pushed, once, is the type its operand still has.          *)
ReturnsTyped ==
    \A m \in Named({"return"}) :
        (Functions(m) # {} /\ Len(types[m]) = 1 /\ ~Pushing(m)) =>
            \A k \in Nodes : k = kids(m)[1] => types[m][1] = type_expr(k, real_type)

LEMMA ReturnsTypedKept ==
    ASSUME TypeInv, Supports, PushesLast, ReturnsTyped, [Next]_vars
    PROVE  ReturnsTyped'
<1>1. /\ ast \in Programs /\ ast' = ast /\ types \in [Nodes -> Seq(Kinds)]
      /\ (\A n \in Nodes : Functions(n)' = Functions(n))
  BY NodesAre, OtherSteps, CollectStep, FunctionsSame
<1>2. Named({"return"})' = Named({"return"}) /\ Nodes' = Nodes /\ (\A n : kids(n)' = kids(n))
  BY <1>1 DEF Named, Nodes, kind, kids
<1>3. SUFFICES ASSUME NEW m \in Named({"return"}), Functions(m) # {}, Len(types'[m]) = 1, ~Pushing(m)',
                      NEW k \in Nodes, k = kids(m)[1]
               PROVE  types'[m][1] = type_expr(k, real_type)'
  BY <1>1, <1>2 DEF ReturnsTyped, Named
<1>4. m \in Nodes /\ kind(m) = "return" /\ 1 \in DOMAIN kids(m)
  BY <1>1, <1>3, Shapes DEF Named, WithOperand
<1>5. kind(k) # "return" /\ m \in ReturnsIn(k)
  BY <1>1, <1>3, <1>4, ReturnsKid
<1>6. CASE PushType /\ task.n = m
  <2>1. types' = [types EXCEPT ![m] = Append(@, type_expr(k, real_type))] /\ real_type' = real_type
    BY <1>3, <1>6, PushesOnly
  <2>2. types'[m] = Append(types[m], type_expr(k, real_type))
    BY <1>1, <1>4, <2>1
  <2>3. types[m] \in Seq(Kinds)
    BY <1>1, <1>4
  <2>4. types'[m][1] = type_expr(k, real_type)
    <3>1. \A s \in Seq(Kinds) : \A v : Len(Append(s, v)) = 1 => Append(s, v)[1] = v
      OBVIOUS
    <3>2. QED
      BY <1>3, <2>2, <2>3, <3>1
  <2>5. type_expr(k, real_type)' = type_expr(k, real_type)
    BY <1>1, <1>5, <2>1, TypeExprSame
  <2>6. QED
    BY <2>4, <2>5
<1>7. CASE ~(PushType /\ task.n = m)
  <2>1. types'[m] = types[m]
    BY <1>1, <1>4, <1>7, PushesOnly
  <2>2. ~Pushing(m)
    <3>1. ASSUME NEW c \in Due, c.n = m, c.do = "push_type" PROVE FALSE
      <4>1. c = task /\ Handler
        BY <1>3, <3>1, DueStays DEF Pushing
      <4>2. PushType
        BY <3>1, <4>1 DEF Handler, Enter, Derive, AssignLeaf, AssignNode, AssignFunctionDecl, Resolve, Support,
             Decide, TypeCall, VisitNode, Report, Condition, CheckCall, At, Doing, Entering
      <4>3. QED
        BY <1>7, <3>1, <4>1, <4>2
    <3>2. QED
      BY <3>1 DEF Pushing
  <2>3. ASSUME NEW x \in Nodes, ReturnsIn(x) = ReturnsIn(k) PROVE real_type'[x] = real_type[x]
    <3>1. SUFFICES ASSUME real_type'[x] # real_type[x] PROVE FALSE
      OBVIOUS
    <3>2. Handler /\ ReturnsIn(x) \subseteq ReturnsIn(task.n)
      BY <3>1, TypesMove
    <3>3. m \in ReturnsIn(task.n)
      BY <1>5, <2>3, <3>2
    <3>4. agenda \in Seq(ToCheck) /\ agenda # <<>>
      BY <3>2, HandlerReplaces
    <3>5. 1 \in DOMAIN agenda /\ task = agenda[1]
      BY <3>4 DEF task
    <3>6. PICK j \in DOMAIN agenda : agenda[j].n = m /\ agenda[j].do = "push_type"
      BY <3>3, <3>5 DEF PushesLast
    <3>7. Pushing(m)
      BY <3>6 DEF Pushing, Due, Members
    <3>8. QED
      BY <2>2, <3>7
  <2>4. type_expr(k, real_type)' = type_expr(k, real_type)
    BY <1>1, <1>5, <2>3, TypeExprSame
  <2>5. types[m][1] = type_expr(k, real_type)
    BY <1>3, <2>1, <2>2 DEF ReturnsTyped
  <2>6. QED
    BY <2>1, <2>4, <2>5
<1>8. QED
  BY <1>6, <1>7


-----------------------------------------------------------------------------
(* The visit comes last: once it has begun nothing is assigned but values, *)
(* and no return pushes its type any more.                                 *)
VisitPhase == Len(stack_visit) < Len(ast.top)
VisitsOnly ==
    /\ Len(stack_visit) <= Len(ast.top)
    /\ (\E c \in Due : c.do \in ToReturn) => VisitPhase
    /\ VisitPhase =>
         /\ stack_assign = <<>>
         /\ \A c \in Due : c.do \in Typing => c.do = "assign" /\ kind(c.n) \in ValueKinds

(* The calls a handler makes due, by what the call it handles is.          *)
LEMMA HandlerSpawns ==
    ASSUME TypeInv, Handler, NEW c \in Due', c \notin Due
    PROVE  /\ c.do \in ToReturn => task.do \in ToReturn
           /\ c.do = "support" => kind(c.n) \in Checked
           /\ (task.do \in Typing => task.do = "assign" /\ kind(task.n) \in ValueKinds) =>
                (c.do \in Typing => c.do = "assign" /\ kind(c.n) \in ValueKinds)
<1>1. /\ task.n \in Nodes /\ agenda \in Seq(ToCheck) /\ agenda # <<>> /\ task \in ToCheck /\ ast \in Programs
  BY HandlerReplaces
<1>2. PICK cs \in Seq(ToCheck) : agenda' = cs \o Tail(agenda) /\ Successors(cs)
  BY HandlerReplaces
<1>3. c \in Members(cs)
  BY <1>1, <1>2, DueAfter
<1>4. PICK n, u : n = task.n /\ u = task.t
  OBVIOUS
<1>5. cs # <<>>
  BY <1>3, TupleMembers
<1>6. CASE \E d \in {"assign", "visit"}, t \in live : task.do = Entering(d) /\ cs = <<Call(d, n, t)>>
  <2>1. PICK d \in {"assign", "visit"}, t \in live : task.do = Entering(d) /\ cs = <<Call(d, n, t)>>
    BY <1>6
  <2>2. c.do = d
    BY <1>3, <2>1, TupleMembers DEF Call
  <2>3. QED
    BY <2>1, <2>2 DEF Entering, ToReturn, Typing
<1>7. CASE task.do = "assign" /\ cs = AssignCalls(n, u)
  BY <1>1, <1>3, <1>4, <1>7, AssignSpawns DEF ToReturn, Typing, Checked
<1>8. CASE task.do = "assign" /\ kind(n) = "function_decl" /\ cs = Calls("assign", ast.node[n].args, u)
  <2>1. c.do = "assign"
    BY <1>3, <1>8, CallsDo
  <2>2. QED
    BY <1>4, <1>8, <2>1 DEF ToReturn, Typing, ValueKinds
<1>9. CASE task.do = "type_call" /\ cs = Calls("assign", ast.node[n].args, u)
  <2>1. c.do = "assign" /\ c.n \in Members(ast.node[n].args)
    BY <1>3, <1>9, CallsDo
  <2>2. kind(n) = "function_call"
    BY <1>1, <1>4, <1>9 DEF ToCheck, Fits
  <2>3. kind(c.n) \in ValueKinds
    BY <1>1, <1>4, <2>1, <2>2, Whole DEF IsProgram, kind, Nodes
  <2>4. QED
    BY <2>1, <2>3 DEF ToReturn, Typing
<1>10. CASE task.do = "visit" /\ cs = VisitCalls(n, u)
  BY <1>1, <1>3, <1>4, <1>10, VisitSpawns DEF ToReturn, Typing
<1>11. QED
  BY <1>2, <1>4, <1>5, <1>6, <1>7, <1>8, <1>9, <1>10 DEF Successors

(* What a loop of evaluate starts with, seen from the phases.              *)
LEMMA PopSpawns ==
    ASSUME TypeInv, PopAssign \/ PopVisit
    PROVE  \A c \in Due' :
             /\ c.do # "support"
             /\ PopAssign => c.do \notin ToReturn
             /\ PopVisit => c.do \notin Typing /\ c.do \in ToReturn
<1>1. CASE PopAssign
  <2>1. ~PopVisit /\ \A c \in Due' : c.do \in {"enter_assign", "assign", "derive"}
    BY <1>1, PopMakes DEF PopAssign, PopVisit
  <2>2. QED
    BY <1>1, <2>1 DEF ToReturn
<1>2. CASE PopVisit
  <2>1. PICK n : agenda' = Entry("visit", n) /\ ~PopAssign
    BY <1>2 DEF PopVisit, PopAssign
  <2>2. PICK c : agenda' = <<c>> /\ c.do \in {"enter_visit", "visit"}
    BY <2>1 DEF Entry, Entering, Call
  <2>3. \A x \in Due' : x = c
    BY <2>2 DEF Due, Members
  <2>4. QED
    BY <1>2, <2>1, <2>2, <2>3 DEF ToReturn, Typing
<1>3. QED
  BY <1>1, <1>2

LEMMA SupportsKept == TypeInv /\ Supports /\ [Next]_vars => Supports'
<1> SUFFICES ASSUME TypeInv, Supports, [Next]_vars PROVE Supports'
  OBVIOUS
<1>1. \A n : kind(n)' = kind(n)
  BY OtherSteps, CollectStep DEF kind
<1>2. ASSUME NEW c \in Due', c.do = "support" PROVE kind(c.n) \in Checked
  <2>1. CASE Collect
    BY <1>2, <2>1, CollectStep
  <2>2. CASE Handler
    BY <1>2, <2>2, HandlerSpawns DEF Supports
  <2>3. CASE PopAssign \/ PopVisit
    BY <1>2, <2>3, PopSpawns
  <2>4. CASE Ask \/ Finish \/ Quiet
    <3>1. agenda' = agenda
      BY <2>4, AskStep, QuietKeeps DEF Finish
    <3>2. Due' = Due
      BY <3>1 DEF Due, Members
    <3>3. QED
      BY <1>2, <3>2 DEF Supports
  <2>5. QED
    BY <2>1, <2>2, <2>3, <2>4, Steps
<1>3. QED
  BY <1>1, <1>2 DEF Supports

LEMMA LengthsAre ==
    ASSUME TypeInv
    PROVE  Len(stack_visit) \in Nat /\ Len(ast.top) \in Nat /\ stack_visit \in Seq(Stacked)
<1>1. stack_visit \in Seq(Stacked) /\ ast.top \in Seq(Nodes)
  BY Numbered DEF TypeInv, StacksOK
<1>2. QED
  BY <1>1

LEMMA VisitsOnlyKept == TypeInv /\ PhasesInv /\ VisitsOnly /\ [Next]_vars => VisitsOnly'
<1> SUFFICES ASSUME TypeInv, PhasesInv, VisitsOnly, [Next]_vars PROVE VisitsOnly'
  OBVIOUS
<1>1. ast' = ast /\ \A n : kind(n)' = kind(n)
  BY OtherSteps, CollectStep DEF kind
<1>2. Len(stack_visit) \in Nat /\ Len(ast.top) \in Nat /\ stack_visit \in Seq(Stacked)
  BY LengthsAre
<1>3. ASSUME stack_visit' = stack_visit,
             \A c \in Due' : c.do \in ToReturn => VisitPhase,
             VisitPhase =>
               /\ stack_assign' = <<>>
               /\ \A c \in Due' : c.do \in Typing => c.do = "assign" /\ kind(c.n) \in ValueKinds
      PROVE  VisitsOnly'
  <2>1. VisitPhase' <=> VisitPhase
    BY <1>1, <1>3 DEF VisitPhase
  <2>2. QED
    BY <1>1, <1>3, <2>1 DEF VisitsOnly
<1>4. CASE Collect
  <2>1. UNCHANGED <<stack_assign, stack_visit>> /\ (\A c \in Due' : c.do = "collect") /\ ~VisitPhase
    BY <1>2, <1>4, CollectStep DEF PhasesInv, VisitPhase
  <2>2. QED
    BY <1>3, <2>1 DEF ToReturn
<1>5. CASE Handler
  <2>1. stack_visit' = stack_visit /\ task \in Due
    BY <1>5, HandlerStep
  <2>2. Derive \/ stack_assign' = stack_assign
    BY <1>5 DEF Handler, Enter, AssignLeaf, AssignNode, AssignFunctionDecl, Resolve, Support, Decide,
         PushType, TypeCall, VisitNode, Report, Condition, CheckCall, rest, stacks
  <2>3. VisitPhase => (task.do \in Typing => task.do = "assign" /\ kind(task.n) \in ValueKinds)
    BY <2>1 DEF VisitsOnly
  <2>4. VisitPhase => stack_assign' = <<>>
    BY <2>2, <2>3 DEF VisitsOnly, Derive, Doing, Typing
  <2>5. ASSUME NEW c \in Due', c.do \in ToReturn PROVE VisitPhase
    BY <1>5, <2>1, <2>5, HandlerSpawns DEF VisitsOnly
  <2>6. ASSUME VisitPhase, NEW c \in Due', c.do \in Typing PROVE c.do = "assign" /\ kind(c.n) \in ValueKinds
    <3>1. CASE c \in Due
      BY <2>6, <3>1 DEF VisitsOnly
    <3>2. CASE c \notin Due
      BY <1>5, <2>3, <2>6, <3>2, HandlerSpawns
    <3>3. QED
      BY <3>1, <3>2
  <2>7. QED
    BY <1>3, <2>1, <2>4, <2>5, <2>6
<1>6. CASE PopAssign
  <2>1. stack_visit' = stack_visit /\ ~VisitPhase
    BY <1>6 DEF PopAssign, VisitsOnly
  <2>2. QED
    BY <1>3, <1>6, <2>1, PopSpawns
<1>7. CASE PopVisit
  <2>1. stack_visit # <<>> /\ stack_visit' = Tail(stack_visit) /\ stack_assign = <<>> /\ stack_assign' = stack_assign
    BY <1>7 DEF PopVisit
  <2>2. Len(stack_visit') = Len(stack_visit) - 1
    BY <1>2, <2>1
  <2>3. Len(stack_visit') < Len(ast.top)
    BY <1>2, <2>2 DEF VisitsOnly
  <2>4. VisitPhase'
    BY <1>1, <2>3 DEF VisitPhase
  <2>5. \A c \in Due' : c.do \notin Typing
    BY <1>7, PopSpawns
  <2>6. Len(stack_visit') <= Len(ast.top)
    BY <1>2, <2>2 DEF VisitsOnly
  <2>7. QED
    BY <1>1, <2>1, <2>4, <2>5, <2>6 DEF VisitsOnly
<1>8. CASE Ask \/ Finish \/ Quiet
  <2>1. agenda' = agenda /\ UNCHANGED <<stack_assign, stack_visit>>
    BY <1>8, AskStep, QuietKeeps DEF Finish, stacks
  <2>2. Due' = Due
    BY <2>1 DEF Due, Members
  <2>3. QED
    BY <1>3, <2>1, <2>2 DEF VisitsOnly
<1>9. QED
  BY <1>4, <1>5, <1>6, <1>7, <1>8, Steps


-----------------------------------------------------------------------------
(* The check of every function, and what it has seen when it is made.      *)
ToBeChecked(f) == \E c \in Due : c.n = f /\ c.do \in ToReturn
ReturnsChecked ==
    \A f \in Members(ast.top) :
        kind(f) = "function_def" =>
            \/ f \in Members(stack_visit) \/ ToBeChecked(f) \/ error_count > 0
            \/ VisitPhase /\ ReturnErrors(f) = 0

LEMMA ReturnErrorsSame ==
    ASSUME ast' = ast, types' = types
    PROVE  \A f : ReturnErrors(f)' = ReturnErrors(f)
<1> SUFFICES ASSUME NEW f PROVE ReturnErrors(f)' = ReturnErrors(f)
  OBVIOUS
<1>1. Returning(f)' = Returning(f)
  BY DEF Returning, kind
<1>2. Matching(f)' = Matching(f)
  BY <1>1 DEF Matching
<1>3. make_type(ast.node[f].type)' = make_type(ast.node[f].type)
  BY DEF make_type
<1>4. QED
  BY <1>1, <1>2, <1>3 DEF ReturnErrors

LEMMA FunctionVisited ==
    ASSUME ast \in Programs, NEW f \in Nodes, kind(f) = "function_def", NEW t
    PROVE  Call("returns", f, t) \in Members(VisitCalls(f, t))
<1> DEFINE C == [do : Checks, n : Nodes, t : {t}]
<1>1. VisitCalls(f, t)
        = <<Call("not_duplicated", f, t), Call("returns", f, t)>> \o Calls("visit", ast.node[f].body, t)
  BY Zenon DEF VisitCalls
<1>2. PICK a, z : a = <<Call("not_duplicated", f, t), Call("returns", f, t)>> /\ z = Calls("visit", ast.node[f].body, t)
  OBVIOUS
<1>3. a \in Seq(C)
  BY <1>2 DEF Call, Checks
<1>4. z \in Seq(C)
  <2>1. ast.node[f].body \in Seq(Nodes)
    BY ListsGoUp DEF NodeLists
  <2>2. "visit" \in Checks
    BY DEF Checks
  <2>3. QED
    BY <1>2, <2>1, <2>2, CallsAreCalls
<1>5. Call("returns", f, t) \in Members(a)
  BY <1>2, TupleMembers
<1>6. Members(VisitCalls(f, t)) = Members(a) \cup Members(z)
  <2> HIDE DEF C
  <2>1. Members(a \o z) = Members(a) \cup Members(z)
    BY <1>3, <1>4, JoinedMembers
  <2>2. VisitCalls(f, t) = a \o z
    BY <1>1, <1>2
  <2>3. QED
    BY <2>1, <2>2
<1>7. QED
  BY <1>5, <1>6

(* The handlers on the way to the check of the returns of a function.      *)
LEMMA TowardsTheCheck ==
    ASSUME TypeInv, VisitsOnly, Handler, NEW f, f = task.n, task.do \in ToReturn, kind(f) = "function_def"
    PROVE  ToBeChecked(f)' \/ error_count' > 0 \/ (VisitPhase' /\ ReturnErrors(f)' = 0)
<1>1. /\ task.n \in Nodes /\ agenda \in Seq(ToCheck) /\ agenda # <<>> /\ task \in ToCheck /\ ast \in Programs
      /\ task.t \in live
  BY HandlerReplaces
<1>2. task \in Due /\ ast' = ast /\ stack_visit' = stack_visit /\ error_count \in Nat
  BY HandlerStep, NodesAre
<1>3. VisitPhase'
  BY <1>2 DEF VisitsOnly, VisitPhase
<1>4. ASSUME NEW c \in Due', c.n = f, c.do \in ToReturn PROVE ToBeChecked(f)'
  BY <1>4 DEF ToBeChecked
<1>5. CASE task.do = "enter_visit"
  <2>1. Enter
    BY <1>5 DEF Handler, Derive, AssignLeaf, AssignNode, AssignFunctionDecl, Resolve, Support,
         Decide, PushType, TypeCall, VisitNode, Report, Condition, CheckCall, At, Doing
  <2>2. PICK d \in {"assign", "visit"} : Doing(Entering(d)) /\ Then(<<Call(d, task.n, answers[1])>>)
    BY <2>1 DEF Enter
  <2>3. d = "visit" /\ Answered
    BY <1>5, <2>2 DEF Doing, Entering
  <2>4. answers[1] \in live
    <3>1. LookUps(task) = <<Look("find", Root)>>
      BY <1>5, LookUpsAre
    <3>2. Len(answers) = 1
      BY <2>3, <3>1 DEF Answered
    <3>3. answers[1] # Null
      BY <1>1, <1>5, <3>2, AnswerIs DEF TypeInv, AnswersOK
    <3>4. QED
      BY <3>2, <3>3, AnswerIs
  <2>5. PICK c : c = Call("visit", f, answers[1])
    OBVIOUS
  <2>6. <<c>> \in Seq(ToCheck) /\ agenda' = <<c>> \o Tail(agenda)
    <3>1. c \in ToCheck
      BY <1>1, <2>4, <2>5, CallFits
    <3>2. agenda' = <<c>> \o Tail(agenda)
      BY <2>2, <2>3, <2>5 DEF Then
    <3>3. <<c>> \in Seq(ToCheck)
      <4>1. \A S : \A x \in S : <<x>> \in Seq(S)
        OBVIOUS
      <4>2. QED
        BY <3>1, <4>1, Zenon
    <3>4. QED
      BY <3>2, <3>3, Zenon
  <2>7. c \in Due'
    <3>1. PICK cs : cs = <<c>>
      OBVIOUS
    <3>2. cs \in Seq(ToCheck) /\ agenda' = cs \o Tail(agenda)
      BY <2>6, <3>1
    <3>3. Members(cs) \subseteq Due'
      BY <1>1, <3>2, DueAfter
    <3>4. Members(cs) = {c}
      BY <3>1, TupleMembers
    <3>5. QED
      BY <3>3, <3>4
  <2>8. c.n = f /\ c.do = "visit"
    BY <2>5 DEF Call
  <2>9. QED
    BY <1>4, <2>7, <2>8 DEF ToReturn
<1>6. CASE task.do = "visit"
  <2>1. VisitNode
    BY <1>6 DEF Handler, Enter, Derive, AssignLeaf, AssignNode, AssignFunctionDecl, Resolve, Support,
         Decide, PushType, TypeCall, Report, Condition, CheckCall, At, Doing, Entering
  <2>2. PICK u : u = task.t
    OBVIOUS
  <2>3. agenda' = VisitCalls(f, u) \o Tail(agenda)
    BY <2>1, <2>2 DEF VisitNode, Then
  <2>4. VisitCalls(f, u) \in Seq(ToCheck)
    BY <1>1, <2>2, VisitCallsFit
  <2>5. Call("returns", f, u) \in Due'
    BY <1>1, <2>3, <2>4, DueAfter, FunctionVisited
  <2>6. QED
    BY <1>4, <2>5 DEF ToReturn, Call
<1>7. CASE task.do = "returns"
  <2>1. Report
    BY <1>7 DEF Handler, Enter, Derive, AssignLeaf, AssignNode, AssignFunctionDecl, Resolve, Support,
         Decide, PushType, TypeCall, VisitNode, Condition, CheckCall, At, Doing, Entering
  <2>2. error_count' = error_count + ReturnErrors(f) /\ types' = types
    BY <1>7, <2>1 DEF Report, Doing
  <2>3. ReturnErrors(f) \in Nat /\ ReturnErrors(f)' = ReturnErrors(f)
    BY <1>1, <1>2, <2>2, ReturnErrorsCount, ReturnErrorsSame
  <2>4. QED
    BY <1>2, <1>3, <2>2, <2>3
<1>8. QED
  BY <1>5, <1>6, <1>7 DEF ToReturn

LEMMA ReturnsCheckedKept ==
    TypeInv /\ PhasesInv /\ VisitsOnly /\ ReturnsChecked /\ [Next]_vars => ReturnsChecked'
<1> SUFFICES ASSUME TypeInv, PhasesInv, VisitsOnly, ReturnsChecked, [Next]_vars PROVE ReturnsChecked'
  OBVIOUS
<1>1. ast' = ast /\ (\A n : kind(n)' = kind(n)) /\ ast \in Programs
  BY OtherSteps, CollectStep, NodesAre DEF kind
<1>2. error_count \in Nat /\ error_count' \in Nat /\ error_count' >= error_count
  BY ErrorsStay, NodesAre
<1>3. Len(stack_visit) \in Nat /\ Len(ast.top) \in Nat /\ stack_visit \in Seq(Stacked)
  BY LengthsAre
<1>4. CASE Collect
  <2>1. stack_visit' = ast.top
    BY <1>4, CollectStep DEF PhasesInv
  <2>2. QED
    BY <1>1, <2>1 DEF ReturnsChecked
<1>5. ASSUME VisitPhase => VisitPhase' /\ types' = types,
             \A f \in Members(ast.top) :
                kind(f) = "function_def" /\ (f \in Members(stack_visit) \/ ToBeChecked(f)) =>
                  \/ f \in Members(stack_visit') \/ ToBeChecked(f)' \/ error_count' > 0
                  \/ VisitPhase' /\ ReturnErrors(f)' = 0
      PROVE  ReturnsChecked'
  <2>1. VisitPhase => \A f : ReturnErrors(f)' = ReturnErrors(f)
    BY <1>1, <1>5, ReturnErrorsSame
  <2>2. QED
    BY <1>1, <1>2, <1>5, <2>1 DEF ReturnsChecked
<1>6. CASE Handler
  <2>1. stack_visit' = stack_visit /\ task \in Due /\ Due \subseteq {task} \cup Due'
    BY <1>6, HandlerStep
  <2>2. VisitPhase => VisitPhase' /\ types' = types
    <3>1. VisitPhase => ~PushType
      <4>1. PushType => task.do = "push_type"
        BY PushesOnly
      <4>2. QED
        BY <2>1, <4>1 DEF VisitsOnly, Typing
    <3>2. VisitPhase => VisitPhase'
      BY <1>1, <2>1 DEF VisitPhase
    <3>3. QED
      BY <3>1, <3>2, PushesOnly
  <2>3. ASSUME NEW f \in Members(ast.top), kind(f) = "function_def", ToBeChecked(f)
        PROVE  ToBeChecked(f)' \/ error_count' > 0 \/ (VisitPhase' /\ ReturnErrors(f)' = 0)
    <3>1. PICK c \in Due : c.n = f /\ c.do \in ToReturn
      BY <2>3 DEF ToBeChecked
    <3>2. CASE c = task
      BY <1>6, <2>3, <3>1, <3>2, TowardsTheCheck
    <3>3. CASE c # task
      BY <2>1, <3>1, <3>3 DEF ToBeChecked
    <3>4. QED
      BY <3>2, <3>3
  <2>4. QED
    BY <1>5, <2>1, <2>2, <2>3
<1>7. CASE PopVisit
  <2>1. Due = {} /\ types' = types
    BY <1>7, PopStep DEF PopVisit, typing
  <2>2. stack_visit # <<>> /\ stack_visit' = Tail(stack_visit) /\ agenda' = Entry("visit", Head(stack_visit))
    BY <1>7 DEF PopVisit
  <2>3. PICK s : s = stack_visit
    OBVIOUS
  <2>4. Len(Tail(s)) = Len(s) - 1
    BY <1>3, <2>2, <2>3
  <2>5. VisitPhase => VisitPhase'
    BY <1>1, <1>3, <2>2, <2>3, <2>4 DEF VisitPhase
  <2>6. ASSUME NEW f \in Members(stack_visit), kind(f) = "function_def"
        PROVE  f \in Members(stack_visit') \/ ToBeChecked(f)'
    <3>1. PICK i \in DOMAIN s : s[i] = f
      BY <2>3, <2>6 DEF Members
    <3>2. i = 1 \/ (i - 1 \in DOMAIN Tail(s) /\ Tail(s)[i - 1] = f)
      BY <1>3, <2>2, <2>3, <3>1
    <3>3. CASE i = 1
      <4>1. Head(s) = f
        BY <1>3, <2>2, <2>3, <3>1, <3>3
      <4>2. PICK c : agenda' = <<c>> /\ c.n = f /\ c.do = "enter_visit"
        BY <2>2, <2>3, <2>6, <4>1 DEF Entry, Entering, Call
      <4>3. c \in Due'
        BY <4>2, TupleMembers DEF Due
      <4>4. QED
        BY <4>2, <4>3 DEF ToBeChecked, ToReturn
    <3>4. CASE i - 1 \in DOMAIN Tail(s) /\ Tail(s)[i - 1] = f
      BY <2>2, <2>3, <3>4 DEF Members
    <3>5. QED
      BY <3>2, <3>3, <3>4
  <2>7. \A f : ~ToBeChecked(f)
    BY <2>1 DEF ToBeChecked
  <2>8. QED
    BY <1>5, <2>1, <2>5, <2>6, <2>7
<1>8. CASE PopAssign
  <2>1. Due = {} /\ types' = types /\ stack_visit' = stack_visit
    BY <1>8, PopStep DEF PopAssign, typing
  <2>2. \A f : ~ToBeChecked(f)
    BY <2>1 DEF ToBeChecked
  <2>3. VisitPhase => VisitPhase'
    BY <1>1, <2>1 DEF VisitPhase
  <2>4. QED
    BY <1>5, <2>1, <2>2, <2>3
<1>9. CASE Ask \/ Finish \/ Quiet
  <2>1. agenda' = agenda /\ stack_visit' = stack_visit
    BY <1>9, AskStep, QuietKeeps DEF Finish, stacks
  <2>2. types' = types
    BY <1>9 DEF Ask, Finish, Quiet, typing
  <2>3. Due' = Due
    BY <2>1 DEF Due, Members
  <2>4. VisitPhase => VisitPhase'
    BY <1>1, <2>1 DEF VisitPhase
  <2>5. \A f : ToBeChecked(f)' <=> ToBeChecked(f)
    BY <2>3 DEF ToBeChecked
  <2>6. QED
    BY <1>5, <2>1, <2>2, <2>4, <2>5
<1>10. QED
  BY <1>4, <1>6, <1>7, <1>8, <1>9, Steps

-----------------------------------------------------------------------------
ReturnsInv ==
    Outside /\ PhasesInv /\ PushesLast /\ Supports /\ ReturnsTyped /\ VisitsOnly /\ ReturnsChecked

LEMMA InitReturns == Init => ReturnsInv
<1> SUFFICES ASSUME Init PROVE ReturnsInv
  OBVIOUS
<1>1. /\ ast \in Programs /\ agenda = Calls("collect", ast.top, Root) /\ stack_visit = ast.top
      /\ types = [n \in Nodes |-> <<>>] /\ ast.top \in Seq(Nodes) /\ TypeInv
  BY Numbered, InitTypes DEF Init
<1>2. Outside /\ PhasesInv
  BY InitLex, InitPhases DEF LexInv
<1>3. \A c \in Due : c.do = "collect"
  BY <1>1, CallsDo DEF Due
<1>4. PushesLast
  <2>1. ASSUME NEW i \in DOMAIN agenda PROVE ReturnsIn(agenda[i].n) = {}
    <3>1. i \in DOMAIN ast.top /\ agenda[i].n = ast.top[i]
      BY <1>1, <2>1 DEF Calls, Call
    <3>2. PICK n : n = ast.top[i]
      OBVIOUS
    <3>3. n \in Nodes /\ TopLevel(n)
      BY <1>1, <3>1, <3>2 DEF TopLevel, Members
    <3>4. ReturnsIn(n) = {}
      BY <1>1, <3>3, FunctionsAre, ReturnsInFunctions
    <3>5. QED
      BY <3>1, <3>2, <3>4
  <2>2. QED
    BY <2>1 DEF PushesLast
<1>5. Supports
  BY <1>3 DEF Supports
<1>6. ReturnsTyped
  <2>1. Len(<<>>) = 0
    OBVIOUS
  <2>2. \A m \in Nodes : Len(types[m]) # 1
    BY <1>1, <2>1
  <2>3. QED
    BY <2>2 DEF ReturnsTyped, Named
<1>7. VisitsOnly
  <2>1. Len(stack_visit) \in Nat /\ Len(ast.top) = Len(stack_visit)
    BY <1>1, LengthsAre
  <2>2. ~VisitPhase
    BY <2>1 DEF VisitPhase
  <2>3. QED
    BY <1>3, <2>1, <2>2 DEF VisitsOnly, ToReturn
<1>8. ReturnsChecked
  BY <1>1 DEF ReturnsChecked
<1>9. QED
  BY <1>2, <1>4, <1>5, <1>6, <1>7, <1>8 DEF ReturnsInv

LEMMA ReturnsInvKept == TypeInv /\ ReturnsInv /\ [Next]_vars => ReturnsInv'
BY OutsideKept, PhasesKept, PushesKept, SupportsKept, ReturnsTypedKept, VisitsOnlyKept, ReturnsCheckedKept
   DEF ReturnsInv

LEMMA ReturnsInInv == TypeInv /\ ReturnsInv => AcceptedFunctionsReturn
<1> SUFFICES ASSUME TypeInv, ReturnsInv, outcome = "accepted",
                    NEW f \in Named({"function_def"}), TopLevel(f), make_type(ast.node[f].type) # "VOID"
             PROVE  \E m \in Named({"return"}) :
                      /\ f \in Around(m)
                      /\ Compatible(type_expr(kids(m)[1], real_type), make_type(ast.node[f].type))
  BY DEF AcceptedFunctionsReturn
<1>1. ast \in Programs /\ f \in Nodes /\ kind(f) = "function_def"
  BY NodesAre DEF Named
<1>2. Due = {} /\ Members(stack_visit) = {} /\ error_count = 0
  <2>1. agenda = <<>> /\ stack_visit = <<>> /\ error_count = 0
    BY DEF ReturnsInv, PhasesInv
  <2>2. QED
    BY <2>1, TupleMembers DEF Due
<1>3. ReturnErrors(f) = 0
  BY <1>1, <1>2 DEF ReturnsInv, ReturnsChecked, ToBeChecked, TopLevel
<1>4. PICK m \in Matching(f) : TRUE
  BY <1>3 DEF ReturnErrors
<1>5. m \in Returning(f) /\ kind(m) = "return" /\ Len(types[m]) = 1
      /\ Compatible(types[m][1], make_type(ast.node[f].type))
  BY DEF Matching, Returning
<1>6. m \in Nodes /\ f \in Around(m)
  <2>1. \A n \in Nodes : \A l \in NodeLists(ast.node[n]) \cup {Below(ast.node[n])} : \A i \in DOMAIN l :
           l[i] \in Nodes /\ n \in Holders(l[i])
    BY <1>1, BelowIs
  <2>2. \A n \in Nodes : \A l \in NodeLists(ast.node[n]) \cup {Below(ast.node[n])} : \A x \in Members(l) :
           x \in Nodes /\ n \in Holders(x)
    BY <2>1 DEF Members
  <2>3. CASE m \in Members(ast.node[f].body)
    <3>1. m \in Nodes /\ f \in Holders(m)
      BY <1>1, <2>2, <2>3 DEF NodeLists
    <3>2. QED
      BY <1>1, <3>1, AroundIs
  <2>4. CASE \E b \in Members(ast.node[f].body) : m \in Members(Below(ast.node[b]))
    <3>1. PICK b \in Members(ast.node[f].body) : m \in Members(Below(ast.node[b]))
      BY <2>4
    <3>2. b \in Nodes /\ f \in Holders(b)
      BY <1>1, <2>2, <3>1 DEF NodeLists
    <3>3. m \in Nodes /\ b \in Holders(m)
      BY <2>2, <3>1, <3>2
    <3>4. f \in Around(b)
      BY <1>1, <3>2, AroundIs
    <3>5. QED
      BY <1>1, <3>3, <3>4, AroundIs
  <2>5. QED
    BY <1>5, <2>3, <2>4 DEF Returning
<1>7. m \in Named({"return"}) /\ Functions(m) # {} /\ ~Pushing(m)
  BY <1>1, <1>2, <1>5, <1>6 DEF Named, Functions, Pushing
<1>8. kids(m)[1] \in Nodes
  <2>1. 1 \in DOMAIN kids(m)
    BY <1>1, <1>5, <1>6, Shapes DEF WithOperand
  <2>2. QED
    BY <1>1, <1>6, <2>1, KidsGoUp
<1>9. types[m][1] = type_expr(kids(m)[1], real_type)
  BY <1>5, <1>7, <1>8 DEF ReturnsInv, ReturnsTyped
<1>10. QED
  BY <1>5, <1>6, <1>7, <1>9

(* A function of an accepted program that is not void has a return in it   *)
(* whose operand is of its type, however often the nodes are typed after   *)
(* the return told the check its type.                                     *)
THEOREM FunctionsAlwaysReturn == Spec => []AcceptedFunctionsReturn
<1>1. Init => ReturnsInv
  BY InitReturns
<1>2. TypeInv /\ ReturnsInv /\ [Next]_vars => ReturnsInv'
  BY ReturnsInvKept
<1>3. TypeInv /\ ReturnsInv => AcceptedFunctionsReturn
  BY ReturnsInInv
<1>4. QED
  BY <1>1, <1>2, <1>3, SemaInvariance, PTL DEF Spec
==============================================================================
