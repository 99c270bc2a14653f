--------------------------- MODULE SymTableProofs ---------------------------
(***************************************************************************)
(* For any number of tables, names and symbols: the state of the symbol    *)
(* tables keeps its type, links lead out of the functions they start in,   *)
(* and look-ups only ever move them further out; the loops over `parent'   *)
(* end, at one table; while no look-up has moved a link on the way out,    *)
(* get is lexical scoping; a get neither hides a global nor changes its    *)
(* own answer; and the tables implement module Scopes.                     *)
(*                                                                         *)
(* LinksLeadOut is not inductive alone.  A climb follows links that other  *)
(* look-ups have moved, so one needs to know of them all that they lead    *)
(* out, and that "around" is transitive: what is around a table around t   *)
(* is around t.  TreeOK says that of the tables' history of creation.      *)
(*                                                                         *)
(* The rest is reasoning about loops that follow links which the loops     *)
(* themselves rewrite.  The links form a forest: each leads strictly       *)
(* outwards, and a table has finitely many tables around it because its    *)
(* qualified name is longer than theirs.  So every non-empty set of tables *)
(* has an outermost member (lemma Outermost), and what holds of a table    *)
(* when it holds of the table its link leads to holds of all: that is the  *)
(* induction every loop is reasoned about with.  The second part does this *)
(* for any links f, so that it can be cited for the links before a step    *)
(* and for those after it.                                                 *)
(***************************************************************************)
EXTENDS SymTable, TLAPS, Least

TreeOK ==
    \A t \in live :
        /\ t \notin encl[t]
        /\ \A u \in encl[t] : encl[u] \subseteq encl[t]

IInv == TypeOK /\ TreeOK /\ LinksLeadOut

-----------------------------------------------------------------------------
(* A climb that starts on a link of t ends around t, or off the tree: the  *)
(* tables around t are closed under following links.                       *)
LEMMA ClimbEndsOutside ==
    ASSUME IInv, NEW t \in live, NEW stops, Null \in stops,
           NEW p \in StopsAt(parent[t], stops)
    PROVE  p \in encl[t] \cup {Null}
<1> DEFINE S == encl[t] \cup {Null}
<1>1. S \in SUBSET (live \cup {Null})
  BY DEF IInv, TypeOK
<1>2. parent[t] \in S
  BY DEF IInv, LinksLeadOut
<1>3. \A y \in S \ stops : parent[y] \in S
  BY DEF IInv, TypeOK, TreeOK, LinksLeadOut
<1>4. QED
  BY <1>1, <1>2, <1>3 DEF StopsAt

(* The same climb never goes back below the table the link led to.         *)
LEMMA ClimbGoesUp ==
    ASSUME IInv, NEW t \in live, NEW stops, Null \in stops,
           NEW p \in StopsAt(parent[t], stops), p # parent[t]
    PROVE  parent[t] # Null /\ p \in encl[parent[t]] \cup {Null}
<1>1. CASE parent[t] = Null
  <2> DEFINE S == {Null}
  <2>1. S \in SUBSET (live \cup {Null}) /\ parent[t] \in S /\ S \ stops = {}
    BY <1>1
  <2>2. p \in S
    BY <2>1 DEF StopsAt
  <2>3. QED
    BY <1>1, <2>2
<1>2. CASE parent[t] # Null
  <2> DEFINE S == {parent[t]} \cup encl[parent[t]] \cup {Null}
  <2>1. parent[t] \in live
    BY <1>2 DEF IInv, TypeOK
  <2>2. S \in SUBSET (live \cup {Null}) /\ parent[t] \in S
    BY <2>1 DEF IInv, TypeOK
  <2>3. \A y \in S \ stops : parent[y] \in S
    BY <2>1 DEF IInv, TypeOK, TreeOK, LinksLeadOut
  <2>4. p \in S
    BY <2>2, <2>3 DEF StopsAt
  <2>5. QED
    BY <1>2, <2>4
<1>3. QED
  BY <1>1, <1>2

(* What every look-up does to the links: it moves the link of the one      *)
(* table t it is asked of, to where a climb from it ends, or none.         *)
Moves(t) ==
    \/ parent' = parent
    \/ \E stops : \E p \in StopsAt(parent[t], stops) :
         Null \in stops /\ parent' = [parent EXCEPT ![t] = p]

LEMMA LookupMoves ==
    ASSUME Lookup
    PROVE  /\ UNCHANGED <<live, qa, children, underlying, encl>>
           /\ \E t \in live : Moves(t)
<1>1. ASSUME NEW t \in live, NEW n \in Names, get(t, n)
      PROVE  UNCHANGED <<tree, underlying>> /\ Moves(t)
  <2>1. Null \in GetStops(n)
    BY DEF GetStops
  <2>2. QED
    BY <1>1, <2>1 DEF get, Moves
<1>2. ASSUME NEW t \in live, NEW n \in Names, get_sym_table_from_unqualified(t, n)
      PROVE  UNCHANGED <<tree, underlying>> /\ Moves(t)
  <2> DEFINE stops == {Null} \cup {x \in live : ScanFinds(x, n) \/ ScanCrashes(x, n)}
  <2>1. \/ parent' = parent
        \/ \E p \in StopsAt(parent[t], stops) : parent' = [parent EXCEPT ![t] = p]
    BY <1>2 DEF get_sym_table_from_unqualified
  <2>2. Null \in stops
    OBVIOUS
  <2>3. UNCHANGED <<tree, underlying>>
    BY <1>2 DEF get_sym_table_from_unqualified
  <2> HIDE DEF stops
  <2>4. QED
    BY <2>1, <2>2, <2>3 DEF Moves
<1>3. ASSUME NEW t \in live, NEW q, get_sym_table(t, q)
      PROVE  UNCHANGED <<tree, underlying>> /\ Moves(t)
  <2> DEFINE stops == {Null} \cup {x \in live : qa[x] = q}
  <2>1. \/ parent' = parent
        \/ \E p \in StopsAt(parent[t], stops) : parent' = [parent EXCEPT ![t] = p]
    BY <1>3 DEF get_sym_table
  <2>2. Null \in stops
    OBVIOUS
  <2>3. UNCHANGED <<tree, underlying>>
    BY <1>3 DEF get_sym_table
  <2> HIDE DEF stops
  <2>4. QED
    BY <2>1, <2>2, <2>3 DEF Moves
<1>4. QED
  BY <1>1, <1>2, <1>3 DEF Lookup, tree

LEMMA UpdateKeepsLinks ==
    ASSUME TypeOK, Update
    PROVE  \/ UNCHANGED <<live, parent, encl>>
           \/ \E t \in live, c \in Tables \ live :
                /\ live' = live \cup {c}
                /\ parent' = [parent EXCEPT ![c] = t]
                /\ encl' = [encl EXCEPT ![c] = encl[t] \cup {t}]
<1>1. ASSUME NEW t \in live, NEW n \in Names, add_sym_table(t, n)
      PROVE  \E c \in Tables \ live :
                /\ live' = live \cup {c}
                /\ parent' = [parent EXCEPT ![c] = t]
                /\ encl' = [encl EXCEPT ![c] = encl[t] \cup {t}]
  <2> DEFINE c == CHOOSE c \in Tables : c \notin live
  <2>1. c \in Tables \ live
    BY <1>1 DEF add_sym_table, TypeOK
  <2>2. QED
    BY <1>1, <2>1 DEF add_sym_table, NewParent
<1>2. QED
  BY <1>1 DEF Update, add, add_symbol, setInst, setSym, tree
-----------------------------------------------------------------------------
(* The two kinds of step, on the links.                                    *)
LEMMA LookupKeepsLinksOut ==
    ASSUME IInv, live' = live, encl' = encl, NEW t \in live, Moves(t)
    PROVE  (TreeOK /\ LinksLeadOut)' /\ parent' \in [Tables -> live' \cup {Null}]
<1>1. CASE parent' = parent
  BY <1>1 DEF IInv, TypeOK, TreeOK, LinksLeadOut
<1>2. ASSUME NEW stops, NEW p \in StopsAt(parent[t], stops), Null \in stops,
             parent' = [parent EXCEPT ![t] = p]
      PROVE  (TreeOK /\ LinksLeadOut)' /\ parent' \in [Tables -> live' \cup {Null}]
  <2>1. p \in encl[t] \cup {Null}
    BY <1>2, ClimbEndsOutside
  <2>2. p \in live \cup {Null}
    BY <2>1 DEF IInv, TypeOK
  <2>3. QED
    BY <1>2, <2>1, <2>2 DEF IInv, TypeOK, TreeOK, LinksLeadOut
<1>3. QED
  BY <1>1, <1>2 DEF Moves

LEMMA NewTableKeepsLinksOut ==
    ASSUME IInv, NEW t \in live, NEW c \in Tables \ live,
           live' = live \cup {c},
           parent' = [parent EXCEPT ![c] = t],
           encl' = [encl EXCEPT ![c] = encl[t] \cup {t}]
    PROVE  (TreeOK /\ LinksLeadOut)'
<1>1. encl[t] \in SUBSET live /\ c \notin encl[t] \cup {t}
  BY DEF IInv, TypeOK
<1>2. encl'[c] = encl[t] \cup {t} /\ parent'[c] = t
  BY DEF IInv, TypeOK
<1>3. \A u \in live : encl'[u] = encl[u] /\ parent'[u] = parent[u]
  BY DEF IInv, TypeOK
<1>4. TreeOK'
  <2>1. \A u \in live : u \notin encl'[u] /\ \A v \in encl'[u] : encl'[v] \subseteq encl'[u]
    BY <1>3 DEF IInv, TypeOK, TreeOK
  <2>2. c \notin encl'[c] /\ \A v \in encl'[c] : encl'[v] \subseteq encl'[c]
    BY <1>1, <1>2, <1>3 DEF IInv, TypeOK, TreeOK
  <2>3. QED
    BY <2>1, <2>2 DEF TreeOK
<1>5. LinksLeadOut'
  BY <1>2, <1>3 DEF IInv, LinksLeadOut
<1>6. QED
  BY <1>4, <1>5

-----------------------------------------------------------------------------
(* Types.  The key of a symbol and the name of a table are sequences of    *)
(* names because create_qualified_name appends a name to one.              *)
LEMMA QualifiedNameType ==
    ASSUME TypeOK, NEW t \in live, NEW n \in Names
    PROVE  create_qualified_name(t, n) \in QaName
BY DEF TypeOK, QaName, create_qualified_name

LEMMA AddKeepsType ==
    ASSUME TypeOK, NEW t \in live, NEW n \in Names, add(t, n)
    PROVE  TypeOK'
<1>1. PICK m \in ModValues :
        underlying' = [underlying EXCEPT ![t] = Append(@,
            [key |-> create_qualified_name(t, n), mod |-> m, inst |-> Null])]
  BY DEF add
<1> DEFINE s == [key |-> create_qualified_name(t, n), mod |-> m, inst |-> Null]
<1>2. s \in Sym
  BY QualifiedNameType DEF Sym
<1>3. t \in Tables /\ underlying[t] \in Seq(Sym)
  BY DEF TypeOK
<1>4. Append(underlying[t], s) \in Seq(Sym)
  BY <1>2, <1>3
<1>5. underlying' \in [Tables -> Seq(Sym)]
  BY <1>1, <1>3, <1>4 DEF TypeOK
<1>6. QED
  BY <1>5 DEF TypeOK, add, tree

(* setInst and setSym rewrite one table's symbols in place.                *)
LEMMA WriteKeepsType ==
    ASSUME TypeOK, NEW t \in live, NEW W,
           W \in [DOMAIN underlying[t] -> Sym],
           underlying' = [underlying EXCEPT ![t] = W],
           UNCHANGED <<tree, parent, crashed>>
    PROVE  TypeOK'
<1>1. t \in Tables /\ underlying[t] \in Seq(Sym)
  BY DEF TypeOK
<1>2. W \in Seq(Sym)
  BY <1>1
<1>3. underlying' \in [Tables -> Seq(Sym)]
  BY <1>2 DEF TypeOK
<1>4. QED
  BY <1>3 DEF TypeOK, tree

LEMMA SetInstKeepsType ==
    ASSUME TypeOK, NEW t \in live, NEW n \in Names, NEW v \in Values, setInst(t, n, v)
    PROVE  TypeOK'
<1> DEFINE old == underlying[t]
           W   == [i \in DOMAIN old |->
                     IF i \in Matches(t, n) THEN [old[i] EXCEPT !.inst = v] ELSE old[i]]
<1>1. \A i \in DOMAIN old : old[i] \in Sym
  BY DEF TypeOK
<1>2. \A i \in DOMAIN old : [old[i] EXCEPT !.inst = v] \in Sym
  BY <1>1 DEF Sym
<1>3. W \in [DOMAIN old -> Sym]
  BY <1>1, <1>2
<1>4. underlying' = [underlying EXCEPT ![t] = W] /\ UNCHANGED <<tree, parent, crashed>>
  BY DEF setInst, TypeOK
<1>5. QED
  BY <1>3, <1>4, WriteKeepsType

LEMMA SetSymKeepsType ==
    ASSUME TypeOK, NEW t \in live, NEW q, NEW s \in Sym, setSym(t, q, s)
    PROVE  TypeOK'
<1> DEFINE old == underlying[t]
           W   == [i \in DOMAIN old |-> IF old[i].key = q THEN s ELSE old[i]]
<1>1. \A i \in DOMAIN old : old[i] \in Sym
  BY DEF TypeOK
<1>2. W \in [DOMAIN old -> Sym]
  BY <1>1
<1>3. underlying' = [underlying EXCEPT ![t] = W] /\ UNCHANGED <<tree, parent, crashed>>
  BY DEF setSym, TypeOK
<1>4. QED
  BY <1>2, <1>3, WriteKeepsType

LEMMA NewTableKeepsType ==
    ASSUME TypeOK, NEW t \in live, NEW n \in Names, add_sym_table(t, n)
    PROVE  TypeOK'
<1> DEFINE c == CHOOSE c \in Tables : c \notin live
<1>1. c \in Tables \ live
  BY DEF add_sym_table, TypeOK
<1> HIDE DEF c
<1>2. /\ live' = live \cup {c}
      /\ qa' = [qa EXCEPT ![c] = create_qualified_name(t, n)]
      /\ parent' = [parent EXCEPT ![c] = t]
      /\ children' = [children EXCEPT ![t] = Append(@, c)]
      /\ encl' = [encl EXCEPT ![c] = encl[t] \cup {t}]
      /\ UNCHANGED <<underlying, crashed>>
  BY DEF add_sym_table, NewParent, c
<1>3. live' \in SUBSET Tables /\ Root \in live' /\ t \in live' /\ c \in live'
  BY <1>1, <1>2 DEF TypeOK
<1>4. qa' \in [Tables -> QaName]
  BY <1>1, <1>2, QualifiedNameType DEF TypeOK
<1>5. parent' \in [Tables -> live' \cup {Null}]
  BY <1>1, <1>2, <1>3 DEF TypeOK
<1>6. children' \in [Tables -> Seq(live')]
  <2>1. \A u \in Tables : children[u] \in Seq(live')
    BY <1>2 DEF TypeOK
  <2>2. Append(children[t], c) \in Seq(live')
    BY <1>3, <2>1 DEF TypeOK
  <2>3. QED
    BY <1>2, <2>1, <2>2 DEF TypeOK
<1>7. encl' \in [Tables -> SUBSET live']
  BY <1>1, <1>2, <1>3 DEF TypeOK
<1>8. QED
  BY <1>2, <1>3, <1>4, <1>5, <1>6, <1>7 DEF TypeOK

(* The one component of the state a look-up changes beside the links.      *)
LEMMA LookupCrashedType ==
    ASSUME TypeOK, Lookup
    PROVE  crashed' \in BOOLEAN
<1>1. ASSUME NEW t \in live, NEW n \in Names, get_sym_table_from_unqualified(t, n)
      PROVE  crashed' \in BOOLEAN
  <2>1. \/ crashed' = crashed
        \/ crashed' = TRUE
        \/ \E p : crashed' = (p # Null /\ ScanCrashes(p, n))
    BY <1>1 DEF get_sym_table_from_unqualified
  <2>2. ASSUME NEW p PROVE (p # Null /\ ScanCrashes(p, n)) \in BOOLEAN
    OBVIOUS
  <2>3. QED
    BY <2>1, <2>2 DEF TypeOK
<1>2. QED
  BY <1>1 DEF Lookup, get, get_sym_table, TypeOK

-----------------------------------------------------------------------------
(* IInv is an inductive invariant.                                         *)
LEMMA InitEstablishes == Init => IInv
<1> SUFFICES ASSUME Init PROVE IInv
  OBVIOUS
<1>1. TypeOK
  <2>1. <<GlobalName>> \in QaName
    BY NameAssumption DEF QaName
  <2>2. <<>> \in Seq(Sym) /\ <<>> \in Seq(live)
    OBVIOUS
  <2>3. QED
    BY <2>1, <2>2, HandleAssumption DEF Init, TypeOK
<1>2. TreeOK /\ LinksLeadOut
  BY HandleAssumption DEF Init, TreeOK, LinksLeadOut
<1>3. QED
  BY <1>1, <1>2 DEF IInv

LEMMA LookupPreserves == IInv /\ Lookup => IInv'
<1> SUFFICES ASSUME IInv, Lookup PROVE IInv'
  OBVIOUS
<1>1. PICK t \in live : Moves(t)
  BY LookupMoves
<1>2. UNCHANGED <<live, qa, children, underlying, encl>>
  BY LookupMoves
<1>3. (TreeOK /\ LinksLeadOut)' /\ parent' \in [Tables -> live' \cup {Null}]
  BY <1>1, <1>2, LookupKeepsLinksOut
<1>4. crashed' \in BOOLEAN
  BY LookupCrashedType DEF IInv
<1>5. QED
  BY <1>2, <1>3, <1>4 DEF IInv, TypeOK

LEMMA UpdatePreserves == IInv /\ Update => IInv'
<1> SUFFICES ASSUME IInv, Update PROVE IInv'
  OBVIOUS
<1>1. TypeOK'
  <2>1. ASSUME NEW u \in live, NEW i \in DOMAIN underlying[u]
        PROVE  underlying[u][i] \in Sym
    BY DEF IInv, TypeOK
  <2>2. QED
    BY <2>1, AddKeepsType, NewTableKeepsType, SetInstKeepsType, SetSymKeepsType
       DEF IInv, Update, add_symbol
<1>2. (TreeOK /\ LinksLeadOut)'
  <2>1. CASE UNCHANGED <<live, parent, encl>>
    BY <2>1 DEF IInv, TreeOK, LinksLeadOut
  <2>2. CASE ~UNCHANGED <<live, parent, encl>>
    BY <2>2, UpdateKeepsLinks, NewTableKeepsLinksOut DEF IInv
  <2>3. QED
    BY <2>1, <2>2
<1>3. QED
  BY <1>1, <1>2 DEF IInv

THEOREM Invariance == Spec => []IInv
<1>1. IInv /\ [Next]_vars => IInv'
  <2>1. IInv /\ UNCHANGED vars => IInv'
    BY DEF IInv, TypeOK, TreeOK, LinksLeadOut, vars
  <2>2. QED
    BY <2>1, LookupPreserves, UpdatePreserves DEF Next
<1>2. QED
  BY <1>1, InitEstablishes, PTL DEF Spec

(* The state of the tables keeps its type (TypeOK): in particular every    *)
(* link and every child is a table that was allocated.                     *)
THEOREM TypeCorrect == Spec => []TypeOK
BY Invariance, PTL DEF IInv

(* However many look-ups have rewired the tree, a link leads to a table    *)
(* its owner was created inside of, or is cut (the loops of get,           *)
(* get_sym_table and get_sym_table_from_unqualified).                      *)
THEOREM LinksAlwaysLeadOut == Spec => []LinksLeadOut
BY Invariance, PTL DEF IInv

(* A step moves a link of an existing table only further out, and never    *)
(* restores one that was cut.                                              *)
THEOREM LinksClimb == Spec => LinksOnlyClimb
<1> DEFINE Climbs == \A t \in live : parent'[t] # parent[t] =>
                       /\ parent[t] # Null
                       /\ parent'[t] \in encl[parent[t]] \cup {Null}
<1>1. IInv /\ [Next]_vars => [Climbs]_parent
  <2> SUFFICES ASSUME IInv, Next PROVE [Climbs]_parent
    BY DEF vars
  <2>1. CASE Lookup
    <3>1. PICK t \in live : Moves(t)
      BY <2>1, LookupMoves
    <3>2. ASSUME NEW stops, NEW p \in StopsAt(parent[t], stops), Null \in stops,
                 parent' = [parent EXCEPT ![t] = p]
          PROVE  Climbs
      BY <3>2, ClimbGoesUp DEF IInv, TypeOK
    <3>3. QED
      BY <3>1, <3>2 DEF Moves
  <2>2. CASE Update
    <3>1. CASE UNCHANGED <<live, parent, encl>>
      BY <3>1
    <3>2. ASSUME NEW t \in live, NEW c \in Tables \ live,
                 parent' = [parent EXCEPT ![c] = t]
          PROVE  Climbs
      BY <3>2 DEF IInv, TypeOK
    <3>3. QED
      BY <2>2, <3>1, <3>2, UpdateKeepsLinks DEF IInv
  <2>3. QED
    BY <2>1, <2>2 DEF Next
<1>2. QED
  BY <1>1, Invariance, PTL DEF Spec, LinksOnlyClimb

-----------------------------------------------------------------------------
(* The forest of links.                                                    *)

(* Of the tables lv: the links f lead out of them or nowhere, e[t] are the *)
(* tables around t, and there is no infinite way out.                      *)
Forest(f, e, lv) ==
    /\ Null \notin lv
    /\ \A t \in lv : /\ f[t] \in e[t] \cup {Null}
                     /\ e[t] \subseteq lv
                     /\ t \notin e[t]
                     /\ \A u \in e[t] : e[u] \subseteq e[t]
    /\ \E depth \in [lv -> Nat] : \A t \in lv : \A u \in e[t] : depth[u] < depth[t]

(* StopsAt of module SymTable, of any links f over the tables lv; and the  *)
(* one table a climb ends at.                                              *)
Climb(f, lv, p, stops) ==
    {x \in stops : \A S \in SUBSET (lv \cup {Null}) :
        (p \in S /\ \A y \in S \ stops : f[y] \in S) => x \in S}

End(f, lv, p, stops) == CHOOSE q : Climb(f, lv, p, stops) = {q}

(* Every non-empty set of tables has a member that no other one is around. *)
LEMMA Outermost ==
    ASSUME NEW f, NEW e, NEW lv, Forest(f, e, lv), NEW B, B \subseteq lv, B # {}
    PROVE  \E x \in B : e[x] \cap B = {}
<1>1. PICK depth \in [lv -> Nat] : \A t \in lv : \A u \in e[t] : depth[u] < depth[t]
  BY DEF Forest
<1> DEFINE T == {depth[x] : x \in B}
<1>2. T \subseteq Nat /\ T # {}
  OBVIOUS
<1>3. PICK m \in T : \A k \in T : m <= k
  BY <1>2, LeastNatural
<1>4. PICK x \in B : depth[x] = m
  OBVIOUS
<1>5. \A y \in B : depth[x] <= depth[y]
  BY <1>3, <1>4
<1>6. \A y \in e[x] \cap B : depth[y] < depth[x] /\ depth[y] \in Nat /\ depth[x] \in Nat
  BY <1>1
<1>7. QED
  BY <1>5, <1>6

(* A climb that starts where it stops goes nowhere.                        *)
LEMMA ClimbAtStop ==
    ASSUME NEW f, NEW lv, NEW stops, stops \subseteq lv \cup {Null}, NEW p \in stops
    PROVE  Climb(f, lv, p, stops) = {p}
<1>1. p \in Climb(f, lv, p, stops)
  BY DEF Climb
<1>2. ASSUME NEW x \in Climb(f, lv, p, stops) PROVE x = p
  <2> DEFINE S == {p}
  <2>1. S \in SUBSET (lv \cup {Null}) /\ p \in S /\ \A y \in S \ stops : f[y] \in S
    OBVIOUS
  <2>2. x \in S
    BY <1>2, <2>1 DEF Climb
  <2>3. QED
    BY <2>2
<1>3. QED
  BY <1>1, <1>2

(* A climb passes a table it does not stop at, along its link.             *)
LEMMA ClimbPast ==
    ASSUME NEW f, NEW e, NEW lv, Forest(f, e, lv), NEW stops, NEW p \in lv \ stops
    PROVE  Climb(f, lv, p, stops) = Climb(f, lv, f[p], stops)
<1>1. ASSUME NEW x \in Climb(f, lv, p, stops), NEW S \in SUBSET (lv \cup {Null}),
             f[p] \in S, \A y \in S \ stops : f[y] \in S
      PROVE  x \in S
  <2> DEFINE P == S \cup {p}
  <2>1. P \in SUBSET (lv \cup {Null}) /\ p \in P /\ \A y \in P \ stops : f[y] \in P
    BY <1>1
  <2>2. x \in P /\ x \in stops
    BY <1>1, <2>1 DEF Climb
  <2>3. QED
    BY <2>2
<1>2. ASSUME NEW x \in Climb(f, lv, f[p], stops), NEW S \in SUBSET (lv \cup {Null}),
             p \in S, \A y \in S \ stops : f[y] \in S
      PROVE  x \in S
  <2>1. f[p] \in S
    BY <1>2
  <2>2. QED
    BY <1>2, <2>1 DEF Climb
<1>3. QED
  BY <1>1, <1>2 DEF Climb

(* A climb ends, and at one place: the loops over `parent' terminate.      *)
LEMMA ClimbEnds ==
    ASSUME NEW f, NEW e, NEW lv, Forest(f, e, lv),
           NEW stops, stops \subseteq lv \cup {Null}, Null \in stops,
           NEW p \in lv \cup {Null}
    PROVE  \E q \in stops : Climb(f, lv, p, stops) = {q}
<1> DEFINE B == {x \in lv : ~ \E q \in stops : Climb(f, lv, x, stops) = {q}}
<1>1. B \subseteq lv
  OBVIOUS
<1> HIDE DEF B
<1>2. ASSUME B # {} PROVE FALSE
  <2>1. PICK x \in B : e[x] \cap B = {}
    BY <1>2, <1>1, Outermost
  <2>2. x \in lv /\ ~ \E q \in stops : Climb(f, lv, x, stops) = {q}
    BY DEF B
  <2>3. Climb(f, lv, x, stops) = Climb(f, lv, f[x], stops)
    <3>1. x \notin stops
      BY <2>2, ClimbAtStop
    <3>2. QED
      BY <2>2, <3>1, ClimbPast
  <2>4. \E q \in stops : Climb(f, lv, f[x], stops) = {q}
    <3>1. CASE f[x] = Null
      BY <3>1, ClimbAtStop
    <3>2. CASE f[x] # Null
      <4>1. f[x] \in e[x] /\ e[x] \subseteq lv
        BY <2>2, <3>2 DEF Forest
      <4>2. QED
        BY <2>1, <4>1 DEF B
    <3>3. QED
      BY <3>1, <3>2
  <2>5. QED
    BY <2>2, <2>3, <2>4
<1>3. CASE p = Null
  BY <1>3, ClimbAtStop
<1>4. CASE p \in lv
  BY <1>2, <1>4 DEF B
<1>5. QED
  BY <1>3, <1>4

(* The equations of the loop: stop here, or go on from the link.           *)
LEMMA EndOfClimb ==
    ASSUME NEW f, NEW e, NEW lv, Forest(f, e, lv),
           NEW stops, stops \subseteq lv \cup {Null}, Null \in stops,
           NEW p \in lv \cup {Null}
    PROVE  /\ Climb(f, lv, p, stops) = {End(f, lv, p, stops)}
           /\ End(f, lv, p, stops) \in stops
           /\ p \in stops => End(f, lv, p, stops) = p
           /\ p \notin stops => /\ p \in lv /\ f[p] \in lv \cup {Null}
                                /\ End(f, lv, p, stops) = End(f, lv, f[p], stops)
<1>1. \E q \in stops : Climb(f, lv, p, stops) = {q}
  BY ClimbEnds
<1>2. Climb(f, lv, p, stops) = {End(f, lv, p, stops)}
  BY <1>1 DEF End
<1>3. End(f, lv, p, stops) \in stops
  BY <1>1, <1>2
<1>4. p \in stops => End(f, lv, p, stops) = p
  BY <1>2, ClimbAtStop
<1>5. p \notin stops => p \in lv /\ f[p] \in lv \cup {Null}
  BY DEF Forest
<1>6. ASSUME p \notin stops PROVE End(f, lv, p, stops) = End(f, lv, f[p], stops)
  BY <1>5, <1>6, ClimbPast DEF End
<1>7. QED
  BY <1>2, <1>3, <1>4, <1>5, <1>6

-----------------------------------------------------------------------------
(* What ForestInv adds to IInv.  A table's qualified name is longer than   *)
(* those of the tables around it; a handle that has not been handed out    *)
(* has neither link nor symbols; nothing is around the global table.       *)
DeeperInside == \A t \in live : \A u \in encl[t] : Len(qa[u]) < Len(qa[t])

UnusedAreBlank == \A t \in Tables \ live : parent[t] = Null /\ underlying[t] = <<>>

RootIsOutermost == encl[Root] = {}

ForestInv == IInv /\ DeeperInside /\ UnusedAreBlank /\ RootIsOutermost

(* ForestInv is an inductive invariant: it holds initially, ...            *)
LEMMA InitEstablishesForest == Init => ForestInv
<1> SUFFICES ASSUME Init PROVE ForestInv
  OBVIOUS
<1>1. IInv
  BY InitEstablishes
<1>2. DeeperInside /\ UnusedAreBlank /\ RootIsOutermost
  BY HandleAssumption DEF Init, DeeperInside, UnusedAreBlank, RootIsOutermost
<1>3. QED
  BY <1>1, <1>2 DEF ForestInv

(* ... of a new table, which is deeper than the one it is added to, ...    *)
LEMMA NewTableKeepsForest ==
    ASSUME ForestInv, NEW t \in live, NEW n \in Names, add_sym_table(t, n)
    PROVE  (DeeperInside /\ UnusedAreBlank /\ RootIsOutermost)'
<1> DEFINE c == CHOOSE c \in Tables : c \notin live
<1>1. c \in Tables \ live
  BY DEF add_sym_table, ForestInv, IInv, TypeOK
<1> HIDE DEF c
<1>2. /\ live' = live \cup {c}
      /\ qa' = [qa EXCEPT ![c] = create_qualified_name(t, n)]
      /\ parent' = [parent EXCEPT ![c] = t]
      /\ encl' = [encl EXCEPT ![c] = encl[t] \cup {t}]
      /\ underlying' = underlying
  BY DEF add_sym_table, NewParent, c
<1>3. Len(qa'[c]) = Len(qa[t]) + 1 /\ Len(qa[t]) \in Nat
  <2>1. qa[t] \in Seq(Names) /\ <<n>> \in Seq(Names) /\ c \in DOMAIN qa
    BY <1>1 DEF ForestInv, IInv, TypeOK, QaName
  <2>2. QED
    BY <1>2, <2>1 DEF create_qualified_name
<1>4. \A u \in live : qa'[u] = qa[u] /\ encl'[u] = encl[u] /\ encl[u] \subseteq live
  BY <1>1, <1>2 DEF ForestInv, IInv, TypeOK
<1>5. DeeperInside'
  <2>1. ASSUME NEW x \in live, NEW u \in encl'[x] PROVE Len(qa'[u]) < Len(qa'[x])
    BY <1>4, <2>1 DEF ForestInv, DeeperInside
  <2>2. ASSUME NEW u \in encl'[c] PROVE Len(qa'[u]) < Len(qa'[c])
    <3>1. encl'[c] = encl[t] \cup {t}
      BY <1>1, <1>2 DEF ForestInv, IInv, TypeOK
    <3>2. u \in live /\ qa'[u] = qa[u] /\ Len(qa[u]) \in Nat
      BY <1>4, <3>1 DEF ForestInv, IInv, TypeOK, QaName
    <3>3. Len(qa[u]) <= Len(qa[t])
      BY <1>3, <3>1, <3>2 DEF ForestInv, DeeperInside
    <3>4. QED
      BY <1>3, <3>2, <3>3
  <2>3. QED
    BY <1>2, <2>1, <2>2 DEF DeeperInside
<1>6. UnusedAreBlank'
  BY <1>1, <1>2 DEF ForestInv, IInv, TypeOK, UnusedAreBlank
<1>7. RootIsOutermost'
  BY <1>4 DEF ForestInv, IInv, TypeOK, RootIsOutermost
<1>8. QED
  BY <1>5, <1>6, <1>7

(* ... of the updates that only write symbols of one table, ...            *)
LEMMA WritesKeepTree ==
    ASSUME TypeOK, NEW t \in live, NEW n \in Names,
           \/ add(t, n) \/ add_symbol(t, n) \/ \E v \in Values : setInst(t, n, v)
           \/ \E q, s : setSym(t, q, s)
    PROVE  UNCHANGED <<live, qa, parent, encl>> /\ \A x \in Tables \ {t} : underlying'[x] = underlying[x]
BY DEF TypeOK, add, add_symbol, setInst, setSym, tree

(* ... and after every step.                                               *)
LEMMA NextKeepsForest == ForestInv /\ [Next]_vars => ForestInv'
<1> SUFFICES ASSUME ForestInv, [Next]_vars PROVE ForestInv'
  OBVIOUS
<1>1. IInv'
  <2>1. CASE UNCHANGED vars
    BY <2>1 DEF ForestInv, IInv, TypeOK, TreeOK, LinksLeadOut, vars
  <2>2. QED
    BY <2>1, LookupPreserves, UpdatePreserves DEF Next, ForestInv
<1>2. (DeeperInside /\ UnusedAreBlank /\ RootIsOutermost)'
  <2>1. CASE UNCHANGED vars
    BY <2>1 DEF ForestInv, DeeperInside, UnusedAreBlank, RootIsOutermost, vars
  <2>2. CASE Lookup
    <3>1. PICK t \in live : Moves(t)
      BY <2>2, LookupMoves
    <3>2. UNCHANGED <<live, qa, underlying, encl>>
      BY <2>2, LookupMoves
    <3>3. \A x \in Tables \ live : parent'[x] = parent[x]
      BY <3>1 DEF Moves, ForestInv, IInv, TypeOK
    <3>4. QED
      BY <3>2, <3>3 DEF ForestInv, DeeperInside, UnusedAreBlank, RootIsOutermost
  <2>3. CASE Update
    <3>1. ASSUME NEW t \in live, NEW n \in Names, add_sym_table(t, n)
          PROVE  (DeeperInside /\ UnusedAreBlank /\ RootIsOutermost)'
      BY <3>1, NewTableKeepsForest
    <3>2. ASSUME NEW t \in live, UNCHANGED <<live, qa, parent, encl>>,
                 \A x \in Tables \ {t} : underlying'[x] = underlying[x]
          PROVE  (DeeperInside /\ UnusedAreBlank /\ RootIsOutermost)'
      BY <3>2 DEF ForestInv, DeeperInside, UnusedAreBlank, RootIsOutermost
    <3>3. QED
      BY <2>3, <3>1, <3>2, WritesKeepTree DEF Update, ForestInv, IInv
  <2>4. QED
    BY <2>1, <2>2, <2>3 DEF Next
<1>3. QED
  BY <1>1, <1>2 DEF ForestInv

(* In every reachable state the links of the tables are a forest over the  *)
(* enclosing functions (add_sym_table, and the loops that move links).     *)
THEOREM ForestInvariance == Spec => []ForestInv
BY InitEstablishesForest, NextKeepsForest, PTL DEF Spec

-----------------------------------------------------------------------------
(* What the first part asks of links holds of the tables'.                 *)
LEMMA TablesAreAForest == ForestInv => Forest(parent, encl, live)
<1> SUFFICES ASSUME ForestInv PROVE Forest(parent, encl, live)
  OBVIOUS
<1>1. Null \notin live
  BY HandleAssumption DEF ForestInv, IInv, TypeOK
<1>2. \A t \in live : /\ parent[t] \in encl[t] \cup {Null}
                      /\ encl[t] \subseteq live
                      /\ t \notin encl[t]
                      /\ \A u \in encl[t] : encl[u] \subseteq encl[t]
  BY DEF ForestInv, IInv, TypeOK, TreeOK, LinksLeadOut
<1> DEFINE depth == [t \in live |-> Len(qa[t])]
<1>3. depth \in [live -> Nat]
  BY DEF ForestInv, IInv, TypeOK, QaName
<1>4. \A t \in live : \A u \in encl[t] : depth[u] < depth[t]
  BY <1>2 DEF ForestInv, DeeperInside
<1>5. QED
  BY <1>1, <1>2, <1>3, <1>4 DEF Forest

Seen(n) == {x \in live : Visible(x, n)}

(* The recursive definition of what get answers computes where the loop    *)
(* over the links ends, for every table; asked of an unused handle it is   *)
(* Null.                                                                   *)
LEMMA AnswerIsEnd ==
    ForestInv => \A n \in Names :
              /\ \A t \in live : GetAnswer(t, n) = End(parent, live, t, {Null} \cup Seen(n))
              /\ \A t \in Tables \ live : GetAnswer(t, n) = Null
<1> SUFFICES ASSUME ForestInv, NEW n \in Names
             PROVE  /\ \A t \in live : GetAnswer(t, n) = End(parent, live, t, {Null} \cup Seen(n))
                    /\ \A t \in Tables \ live : GetAnswer(t, n) = Null
  OBVIOUS
<1> DEFINE Climbs(g) == g = [x \in Handles |-> IF x = Null THEN Null
                                               ELSE IF Visible(x, n) THEN x ELSE g[parent[x]]]
           climb == CHOOSE g : Climbs(g)
           stops == {Null} \cup Seen(n)
           answer == [x \in Handles |-> IF x \in live THEN End(parent, live, x, stops) ELSE Null]
<1>1. Forest(parent, encl, live)
  BY TablesAreAForest
<1>2. stops \subseteq live \cup {Null} /\ Null \in stops
  BY DEF Seen
<1>3. /\ Null \notin Tables /\ live \subseteq Tables
      /\ \A x \in live : parent[x] \in live \cup {Null}
      /\ \A x \in Tables \ live : parent[x] = Null /\ ~Visible(x, n)
  <2>1. \A x \in Tables \ live : ~Visible(x, n)
    BY DEF ForestInv, UnusedAreBlank, Visible, Matches
  <2>2. QED
    BY <2>1, HandleAssumption DEF ForestInv, IInv, TypeOK, UnusedAreBlank
<1>4. \A x \in live : x \in stops <=> Visible(x, n)
  BY <1>3 DEF Seen
<1> HIDE DEF stops
<1>5. End(parent, live, Null, stops) = Null
  BY <1>1, <1>2, EndOfClimb
<1>6. \A x \in live : End(parent, live, x, stops) =
                        IF Visible(x, n) THEN x ELSE End(parent, live, parent[x], stops)
  BY <1>1, <1>2, <1>4, EndOfClimb
<1>7. Climbs(answer)
  <2>1. ASSUME NEW x \in Handles
        PROVE  answer[x] = IF x = Null THEN Null
                           ELSE IF Visible(x, n) THEN x ELSE answer[parent[x]]
    <3>1. CASE x \in live
      BY <1>3, <1>5, <1>6, <3>1 DEF Handles
    <3>2. CASE x \notin live
      BY <1>3, <3>2 DEF Handles
    <3>3. QED
      BY <3>1, <3>2
  <2>2. QED
    BY <2>1, Zenon
<1>8. Climbs(climb)
  BY <1>7, Zenon
<1>9. \A t : GetAnswer(t, n) = climb[t]
  BY DEF GetAnswer
<1> HIDE DEF climb
<1>10. \A x \in Handles : climb[x] = IF x = Null THEN Null
                                     ELSE IF Visible(x, n) THEN x ELSE climb[parent[x]]
  BY <1>8
<1> DEFINE B == {x \in live : climb[x] # End(parent, live, x, stops)}
<1>11. B = {}
  <2>1. ASSUME B # {} PROVE FALSE
    <3>1. PICK x \in B : encl[x] \cap B = {}
      BY <1>1, <2>1, Outermost
    <3>2. ~Visible(x, n) /\ climb[x] = climb[parent[x]]
      BY <1>3, <1>6, <1>10 DEF Handles
    <3>3. climb[parent[x]] = End(parent, live, parent[x], stops)
      BY <1>1, <1>3, <1>5, <1>10, <3>1 DEF Handles, Forest
    <3>4. QED
      BY <1>6, <3>2, <3>3
  <2>2. QED
    BY <2>1
<1>12. \A t \in Tables \ live : climb[t] = Null
  BY <1>3, <1>10 DEF Handles
<1>13. QED
  BY <1>9, <1>11, <1>12 DEF stops

-----------------------------------------------------------------------------
(* Of the two loops the property names: they end, at one table.            *)
LEMMA LoopsEndInForest == ForestInv => LoopsEnd
<1> SUFFICES ASSUME ForestInv, NEW t \in live
             PROVE  /\ StopsAt(parent[t], {Null}) = {Null}
                    /\ \A n \in Names : \E p \in live \cup {Null} :
                         StopsAt(parent[t], GetStops(n)) = {p}
  BY DEF LoopsEnd
<1>1. Forest(parent, encl, live)
  BY TablesAreAForest
<1>2. parent[t] \in live \cup {Null}
  BY DEF ForestInv, IInv, TypeOK
<1>3. \A stops : StopsAt(parent[t], stops) = Climb(parent, live, parent[t], stops)
  BY DEF StopsAt, Climb
<1>4. \E q \in {Null} : Climb(parent, live, parent[t], {Null}) = {q}
  BY <1>1, <1>2, ClimbEnds
<1>5. ASSUME NEW n \in Names
      PROVE  \E p \in live \cup {Null} : StopsAt(parent[t], GetStops(n)) = {p}
  <2> DEFINE stops == GetStops(n)
  <2>1. stops \subseteq live \cup {Null} /\ Null \in stops
    BY DEF GetStops
  <2> HIDE DEF stops
  <2>2. \E p \in stops : Climb(parent, live, parent[t], stops) = {p}
    BY <1>1, <1>2, <2>1, ClimbEnds
  <2>3. QED
    BY <1>3, <2>1, <2>2 DEF stops
<1>6. QED
  BY <1>3, <1>4, <1>5

(* No sequence of look-ups and declarations closes a cycle of links: the   *)
(* loop of get, and the one that climbs to the end, terminate (LoopsEnd).  *)
THEOREM LoopsAlwaysEnd == Spec => []LoopsEnd
BY ForestInvariance, LoopsEndInForest, PTL

(* A climb from p ends at p, around it, or off the tree.                   *)
LEMMA EndAround ==
    ASSUME NEW f, NEW e, NEW lv, Forest(f, e, lv),
           NEW stops, stops \subseteq lv \cup {Null}, Null \in stops, NEW p \in lv
    PROVE  End(f, lv, p, stops) \in {p} \cup e[p] \cup {Null}
<1> DEFINE B == {x \in lv : End(f, lv, x, stops) \notin {x} \cup e[x] \cup {Null}}
<1>1. ASSUME B # {} PROVE FALSE
  <2>1. PICK x \in B : e[x] \cap B = {}
    BY <1>1, Outermost
  <2>2. x \notin stops /\ End(f, lv, x, stops) = End(f, lv, f[x], stops)
    BY EndOfClimb
  <2>3. End(f, lv, f[x], stops) \in {f[x]} \cup e[f[x]] \cup {Null} \/ f[x] = Null
    BY <2>1 DEF Forest
  <2>4. f[x] # Null
    BY <2>2, EndOfClimb
  <2>5. e[f[x]] \subseteq e[x] /\ f[x] \in e[x]
    BY <2>4 DEF Forest
  <2>6. QED
    BY <2>2, <2>3, <2>4, <2>5
<1>2. QED
  BY <1>1

(* What get answers is a table around the one that asks, and shows the     *)
(* name.                                                                   *)
LEMMA AnswersAround ==
    ASSUME ForestInv, NEW t \in live, NEW n \in Names
    PROVE  /\ GetAnswer(t, n) \in {t} \cup encl[t] \cup {Null}
           /\ GetAnswer(t, n) # Null => GetAnswer(t, n) \in Seen(n)
<1>1. Forest(parent, encl, live)
  BY TablesAreAForest
<1> DEFINE stops == {Null} \cup Seen(n)
<1>2. stops \subseteq live \cup {Null} /\ Null \in stops
  BY DEF Seen
<1>3. GetAnswer(t, n) = End(parent, live, t, stops)
  BY AnswerIsEnd
<1> HIDE DEF stops
<1>4. End(parent, live, t, stops) \in {t} \cup encl[t] \cup {Null}
  BY <1>1, <1>2, EndAround
<1>5. End(parent, live, t, stops) \in stops
  BY <1>1, <1>2, EndOfClimb
<1>6. QED
  BY <1>3, <1>4, <1>5 DEF stops

(* The abstract property AnswersAreDeclared, of the tables.                *)
LEMMA DeclaredInForest == ForestInv => AnswersAreDeclared
<1> SUFFICES ASSUME ForestInv PROVE AnswersAreDeclared
  OBVIOUS
<1>1. ASSUME NEW t \in live, NEW n \in Names, GetAnswer(t, n) # Null
      PROVE  GetAnswer(t, n) \in {t} \cup encl[t] /\ Matches(GetAnswer(t, n), n) # {}
  <2>1. GetAnswer(t, n) \in {t} \cup encl[t] /\ GetAnswer(t, n) \in Seen(n)
    BY <1>1, AnswersAround
  <2>2. QED
    BY <2>1 DEF Seen, Visible
<1>2. \A t \in live : t \in Tables /\ encl[t] \subseteq Tables
  BY DEF ForestInv, IInv, TypeOK
<1>3. QED
  BY <1>1, <1>2 DEF AnswersAreDeclared, Scope!AnswersAreDeclared, Scope!Around

(* A symbol get returns belongs to a table around the one asked, in which  *)
(* the name was declared: never to a sibling's or an inner function's      *)
(* (AnswersAreDeclared).                                                   *)
THEOREM AnswersAlwaysDeclared == Spec => []AnswersAreDeclared
BY ForestInvariance, DeclaredInForest, PTL

(* Along links that lead to the next table out, the loop is lexical        *)
(* scoping.                                                                *)
LEMMA LexicalInForest == ForestInv => LexicalWhileLinked
<1> SUFFICES ASSUME ForestInv, NEW n \in Names
             PROVE  \A t \in live : (\A u \in {t} \cup encl[t] : Linked(u)) =>
                                       GetAnswer(t, n) = Lexical(t, n)
  BY DEF LexicalWhileLinked
<1> DEFINE B == {t \in live : /\ \A u \in {t} \cup encl[t] : Linked(u)
                              /\ GetAnswer(t, n) # Lexical(t, n)}
           stops == {Null} \cup Seen(n)
<1>1. Forest(parent, encl, live)
  BY TablesAreAForest
<1>2. stops \subseteq live \cup {Null} /\ Null \in stops
  BY DEF Seen
<1>3. \A t \in live : GetAnswer(t, n) = End(parent, live, t, stops)
  BY AnswerIsEnd
<1>4. \A t \in live : t \in stops <=> Visible(t, n)
  BY <1>1 DEF Seen, Forest
<1>5. \A t \in live : Shows(t, n) \subseteq live
  BY DEF Shows, ForestInv, IInv, TypeOK
<1> HIDE DEF stops
<1>6. ASSUME B # {} PROVE FALSE
  <2>1. PICK t \in B : encl[t] \cap B = {}
    BY <1>1, <1>6, Outermost
  <2>2. CASE Visible(t, n)
    <3>1. GetAnswer(t, n) = t
      BY <1>1, <1>2, <1>3, <1>4, <2>2, EndOfClimb
    <3>2. t \in Shows(t, n) /\ \A y \in Shows(t, n) : y \in {t} \cup encl[t]
      BY <2>2 DEF Shows
    <3>3. \A x \in Shows(t, n) : t \in {x} \cup encl[x] => x = t
      BY <3>2 DEF ForestInv, IInv, TreeOK
    <3>4. Lexical(t, n) = t
      BY <3>2, <3>3 DEF Lexical
    <3>5. QED
      BY <3>1, <3>4
  <2>3. CASE ~Visible(t, n) /\ parent[t] = Null
    <3>1. GetAnswer(t, n) = Null
      BY <1>1, <1>2, <1>3, <1>4, <2>3, EndOfClimb
    <3>2. t = Root
      BY <2>1, <2>3 DEF Linked
    <3>3. Shows(t, n) = {}
      BY <2>3, <3>2 DEF Shows, ForestInv, RootIsOutermost
    <3>4. QED
      BY <3>1, <3>3 DEF Lexical
  <2>4. CASE ~Visible(t, n) /\ parent[t] # Null
    <3>1. t # Root /\ encl[t] = {parent[t]} \cup encl[parent[t]]
      <4>1. t # Root
        BY <1>1, <2>4 DEF ForestInv, RootIsOutermost, Forest
      <4>2. QED
        BY <2>1, <4>1 DEF Linked
    <3>2. parent[t] \in live
      BY <3>1 DEF ForestInv, IInv, TypeOK
    <3>3. GetAnswer(t, n) = GetAnswer(parent[t], n)
      BY <1>1, <1>2, <1>3, <1>4, <2>4, <3>2, EndOfClimb
    <3>4. Shows(t, n) = Shows(parent[t], n)
      BY <2>4, <3>1 DEF Shows
    <3>5. Lexical(t, n) = Lexical(parent[t], n)
      BY <3>4 DEF Lexical
    <3>6. parent[t] \notin B
      BY <2>1, <3>1
    <3>7. \A u \in {parent[t]} \cup encl[parent[t]] : Linked(u)
      BY <2>1, <3>1
    <3>8. GetAnswer(parent[t], n) = Lexical(parent[t], n)
      BY <3>2, <3>6, <3>7
    <3>9. QED
      BY <3>3, <3>5, <3>8
  <2>5. QED
    BY <2>2, <2>3, <2>4
<1>7. QED
  BY <1>6

(* While no look-up has moved a link on the way out, get answers with the  *)
(* innermost enclosing declaration, from every depth (LexicalWhileLinked). *)
THEOREM LexicalAsLongAsLinked == Spec => []LexicalWhileLinked
BY ForestInvariance, LexicalInForest, PTL

-----------------------------------------------------------------------------
(* Climbs that see the same links and stops end at the same place.  (Over  *)
(* a set A of tables closed under the links; lv and lw may differ.)        *)
LEMMA SameEnds ==
    ASSUME NEW f, NEW e, NEW lv, Forest(f, e, lv),
           NEW g, NEW d, NEW lw, Forest(g, d, lw),
           NEW stops, stops \subseteq lv \cup {Null}, Null \in stops,
           NEW halts, halts \subseteq lw \cup {Null}, Null \in halts,
           NEW A, A \subseteq lv \cap lw,
           \A x \in A : /\ g[x] = f[x]
                        /\ f[x] \in A \cup {Null}
                        /\ x \in halts <=> x \in stops
    PROVE  \A x \in A : End(g, lw, x, halts) = End(f, lv, x, stops)
<1> DEFINE B == {x \in A : End(g, lw, x, halts) # End(f, lv, x, stops)}
<1>1. ASSUME B # {} PROVE FALSE
  <2>1. PICK x \in B : e[x] \cap B = {}
    <3>1. B \subseteq lv
      OBVIOUS
    <3> HIDE DEF B
    <3>2. QED
      BY <1>1, <3>1, Outermost
  <2>2. x \notin stops /\ x \notin halts
    BY EndOfClimb
  <2>3. /\ End(f, lv, x, stops) = End(f, lv, f[x], stops)
        /\ End(g, lw, x, halts) = End(g, lw, f[x], halts)
    BY <2>2, EndOfClimb
  <2>4. f[x] # Null
    BY <2>3, EndOfClimb
  <2>5. f[x] \in e[x] /\ f[x] \in A
    BY <2>4 DEF Forest
  <2>6. QED
    BY <2>1, <2>3, <2>5
<1>2. QED
  BY <1>1

(* A climb started further up ends where it would have ended, or further   *)
(* up.                                                                     *)
LEMMA EndFromFurther ==
    ASSUME NEW f, NEW e, NEW lv, Forest(f, e, lv),
           NEW stops, stops \subseteq lv \cup {Null}, Null \in stops,
           NEW halts, halts \subseteq lv \cup {Null}, Null \in halts,
           NEW x \in lv \cup {Null}
    PROVE  LET before == End(f, lv, x, stops)
               after  == End(f, lv, End(f, lv, x, halts), stops)
           IN  \/ after = before
               \/ before \in lv /\ after \in e[before] \cup {Null}
<1> DEFINE Before(y) == End(f, lv, y, stops)
           After(y)  == End(f, lv, End(f, lv, y, halts), stops)
           Good(y)   == \/ After(y) = Before(y)
                        \/ Before(y) \in lv /\ After(y) \in e[Before(y)] \cup {Null}
           B == {y \in lv : ~Good(y)}
<1>1. ASSUME B # {} PROVE FALSE
  <2>1. PICK y \in B : e[y] \cap B = {}
    BY <1>1, Outermost
  <2>2. y \notin halts
    BY EndOfClimb
  <2>3. End(f, lv, y, halts) = End(f, lv, f[y], halts)
    BY <2>2, EndOfClimb
  <2>4. CASE y \in stops
    <3>1. Before(y) = y
      BY <2>4, EndOfClimb
    <3>2. End(f, lv, f[y], halts) \in e[y] \cup {Null}
      <4>1. CASE f[y] = Null
        BY <4>1, EndOfClimb
      <4>2. CASE f[y] # Null
        <5>1. f[y] \in lv /\ f[y] \in e[y] /\ e[f[y]] \subseteq e[y]
          BY <4>2 DEF Forest
        <5>2. QED
          BY <5>1, EndAround
      <4>3. QED
        BY <4>1, <4>2
    <3>3. After(y) \in e[y] \cup {Null}
      <4>1. CASE End(f, lv, f[y], halts) = Null
        BY <2>3, <4>1, EndOfClimb
      <4>2. CASE End(f, lv, f[y], halts) \in e[y]
        <5> DEFINE p == End(f, lv, f[y], halts)
        <5>1. p \in lv /\ e[p] \subseteq e[y]
          BY <4>2 DEF Forest
        <5>2. End(f, lv, p, stops) \in {p} \cup e[p] \cup {Null}
          BY <5>1, EndAround
        <5>3. QED
          BY <2>3, <4>2, <5>1, <5>2
      <4>3. QED
        BY <3>2, <4>1, <4>2
    <3>4. QED
      BY <3>1, <3>3
  <2>5. CASE y \notin stops
    <3>1. Before(y) = Before(f[y]) /\ After(y) = After(f[y])
      BY <2>3, <2>5, EndOfClimb
    <3>2. CASE f[y] = Null
      BY <3>1, <3>2, EndOfClimb
    <3>3. CASE f[y] # Null
      BY <2>1, <3>1, <3>3 DEF Forest
    <3>4. QED
      BY <3>2, <3>3
  <2>6. QED
    BY <2>4, <2>5
<1>2. Good(Null)
  BY EndOfClimb
<1>3. QED
  BY <1>1, <1>2

(* It ends where it would have ended if that is itself among the places    *)
(* the first climb stops at: the first climb did not pass it.              *)
LEMMA EndThroughStop ==
    ASSUME NEW f, NEW e, NEW lv, Forest(f, e, lv),
           NEW stops, stops \subseteq lv \cup {Null}, Null \in stops,
           NEW halts, halts \subseteq lv \cup {Null}, Null \in halts,
           NEW x \in lv \cup {Null}, End(f, lv, x, stops) \in halts
    PROVE  End(f, lv, End(f, lv, x, halts), stops) = End(f, lv, x, stops)
<1> DEFINE B == {y \in lv : /\ End(f, lv, y, stops) \in halts
                            /\ End(f, lv, End(f, lv, y, halts), stops) # End(f, lv, y, stops)}
<1>1. ASSUME B # {} PROVE FALSE
  <2>1. PICK y \in B : e[y] \cap B = {}
    <3>1. B \subseteq lv
      OBVIOUS
    <3> HIDE DEF B
    <3>2. QED
      BY <1>1, <3>1, Outermost
  <2>2. y \notin halts /\ y \notin stops
    BY EndOfClimb
  <2>3. /\ End(f, lv, y, halts) = End(f, lv, f[y], halts)
        /\ End(f, lv, y, stops) = End(f, lv, f[y], stops)
    BY <2>2, EndOfClimb
  <2>4. f[y] # Null
    BY <2>3, EndOfClimb
  <2>5. f[y] \in e[y] /\ f[y] \in lv
    BY <2>4 DEF Forest
  <2>6. QED
    BY <2>1, <2>3, <2>5
<1>2. QED
  BY <1>1, EndOfClimb

(* A link moved to the end of a climb: the climbs that change are those    *)
(* from inside t, and they end further up than they did, past a table that *)
(* is not among the places the link was moved towards.                     *)
LEMMA Relinked ==
    ASSUME NEW f, NEW e, NEW lv, Forest(f, e, lv), NEW g, Forest(g, e, lv),
           NEW stops, stops \subseteq lv \cup {Null}, Null \in stops,
           NEW halts, halts \subseteq lv \cup {Null}, Null \in halts,
           NEW t \in lv, g[t] = End(f, lv, f[t], halts), \A x \in lv \ {t} : g[x] = f[x],
           NEW u \in lv
    PROVE  LET before == End(f, lv, u, stops)
               after  == End(g, lv, u, stops)
           IN  \/ after = before
               \/ /\ t \in {u} \cup e[u]
                  /\ before \in lv
                  /\ after \in e[before] \cup {Null}
                  /\ before \notin halts
<1> DEFINE Before(y) == End(f, lv, y, stops)
           After(y)  == End(g, lv, y, stops)
           Good(y)   == \/ After(y) = Before(y)
                        \/ /\ t \in {y} \cup e[y]
                           /\ Before(y) \in lv
                           /\ After(y) \in e[Before(y)] \cup {Null}
                           /\ Before(y) \notin halts
           B == {y \in lv : ~Good(y)}
           A == {y \in lv : t \notin {y} \cup e[y]}
<1>1. \A y \in A : After(y) = Before(y)
  <2>1. \A y \in A : g[y] = f[y] /\ f[y] \in A \cup {Null}
    BY DEF Forest
  <2>2. A \subseteq lv \cap lv
    OBVIOUS
  <2> HIDE DEF A
  <2>3. QED
    BY <2>1, <2>2, SameEnds
<1>2. ASSUME B # {} PROVE FALSE
  <2>1. PICK y \in B : e[y] \cap B = {}
    BY <1>2, Outermost
  <2>2. y \notin stops
    BY EndOfClimb
  <2>3. Before(y) = Before(f[y]) /\ After(y) = After(g[y])
    BY <2>2, EndOfClimb
  <2>4. CASE y = t
    <3>1. g[t] \in lv => g[t] \in A
      BY DEF Forest
    <3>2. g[t] \in lv \cup {Null} /\ f[t] \in lv \cup {Null}
      BY DEF Forest
    <3>3. After(g[t]) = Before(g[t])
      BY <1>1, <3>1, <3>2, EndOfClimb
    <3>4. \/ Before(g[t]) = Before(f[t])
          \/ Before(f[t]) \in lv /\ Before(g[t]) \in e[Before(f[t])] \cup {Null}
      BY <3>2, EndFromFurther
    <3>5. Before(f[t]) \in halts => Before(g[t]) = Before(f[t])
      BY <3>2, EndThroughStop
    <3>6. QED
      BY <2>3, <2>4, <3>3, <3>4, <3>5
  <2>5. CASE y # t
    <3>1. g[y] = f[y]
      BY <2>5
    <3>2. CASE f[y] = Null
      BY <2>3, <3>1, <3>2, EndOfClimb
    <3>3. CASE f[y] # Null
      <4>1. f[y] \in e[y] /\ f[y] \in lv /\ e[f[y]] \subseteq e[y]
        BY <3>3 DEF Forest
      <4>2. Good(f[y])
        BY <2>1, <4>1
      <4>3. QED
        BY <2>3, <3>1, <4>1, <4>2
    <3>4. QED
      BY <3>2, <3>3
  <2>6. QED
    BY <2>4, <2>5
<1>3. QED
  BY <1>2

(* A place to stop at gained or lost at t: the climbs that change are those*)
(* from inside t, and they end at t or around it.                          *)
LEMMA Redeclared ==
    ASSUME NEW f, NEW e, NEW lv, Forest(f, e, lv),
           NEW stops, stops \subseteq lv \cup {Null}, Null \in stops,
           NEW halts, halts \subseteq lv \cup {Null}, Null \in halts,
           NEW t \in lv, \A x \in lv \ {t} : x \in halts <=> x \in stops,
           NEW u \in lv
    PROVE  LET before == End(f, lv, u, stops)
               after  == End(f, lv, u, halts)
           IN  \/ after = before
               \/ t \in {u} \cup e[u] /\ after \in {t} \cup e[t] \cup {Null}
<1> DEFINE Before(y) == End(f, lv, y, stops)
           After(y)  == End(f, lv, y, halts)
           Good(y)   == \/ After(y) = Before(y)
                        \/ t \in {y} \cup e[y] /\ After(y) \in {t} \cup e[t] \cup {Null}
           B == {y \in lv : ~Good(y)}
<1>1. ASSUME B # {} PROVE FALSE
  <2>1. PICK y \in B : e[y] \cap B = {}
    <3>1. B \subseteq lv
      OBVIOUS
    <3> HIDE DEF B
    <3>2. QED
      BY <1>1, <3>1, Outermost
  <2>2. y # t
    BY EndAround
  <2>3. y \notin stops /\ y \notin halts
    BY <2>2, EndOfClimb
  <2>4. Before(y) = Before(f[y]) /\ After(y) = After(f[y])
    BY <2>3, EndOfClimb
  <2>5. f[y] # Null
    BY <2>4, EndOfClimb
  <2>6. f[y] \in e[y] /\ f[y] \in lv /\ e[f[y]] \subseteq e[y]
    BY <2>5 DEF Forest
  <2>7. Good(f[y])
    BY <2>1, <2>6
  <2>8. QED
    BY <2>4, <2>6, <2>7
<1>2. QED
  BY <1>1

-----------------------------------------------------------------------------
(* The same three facts after a step.                                      *)
LEMMA AnswerIsEndAfter ==
    ForestInv' => \A n \in Names :
               /\ \A t \in live' : GetAnswer(t, n)' = End(parent', live', t, {Null} \cup Seen(n)')
               /\ \A t \in Tables \ live' : GetAnswer(t, n)' = Null
<1>1. (ForestInv => \A n \in Names :
                 /\ \A t \in live : GetAnswer(t, n) = End(parent, live, t, {Null} \cup Seen(n))
                 /\ \A t \in Tables \ live : GetAnswer(t, n) = Null)'
  BY AnswerIsEnd, PTL
<1>2. QED
  BY <1>1

LEMMA ForestAfter == ForestInv' => Forest(parent', encl', live')
<1>1. (ForestInv => Forest(parent, encl, live))'
  BY TablesAreAForest, PTL
<1>2. QED
  BY <1>1

LEMMA AnswersExist ==
    ForestInv => \A t \in Tables, n \in Names : GetAnswer(t, n) \in Tables \cup {Null}
<1> SUFFICES ASSUME ForestInv, NEW t \in Tables, NEW n \in Names
             PROVE  GetAnswer(t, n) \in Tables \cup {Null}
  OBVIOUS
<1>1. CASE t \in live
  BY <1>1, AnswersAround DEF ForestInv, IInv, TypeOK
<1>2. CASE t \notin live
  BY <1>2, AnswerIsEnd
<1>3. QED
  BY <1>1, <1>2

LEMMA AnswersExistAfter ==
    ForestInv' => \A t \in Tables, n \in Names : GetAnswer(t, n)' \in Tables \cup {Null}
<1>1. (ForestInv => \A t \in Tables, n \in Names : GetAnswer(t, n) \in Tables \cup {Null})'
  BY AnswersExist, PTL
<1>2. QED
  BY <1>1

(* What a look-up does to the links, as a climb: StopsAt of SymTable does  *)
(* not depend on stops that are no tables.                                 *)
LEMMA MoveRelinks ==
    ASSUME ForestInv, NEW t \in live, Moves(t)
    PROVE  \/ parent' = parent
           \/ \E halts \in SUBSET (live \cup {Null}) :
                /\ Null \in halts
                /\ parent'[t] = End(parent, live, parent[t], halts)
                /\ \A x \in live \ {t} : parent'[x] = parent[x]
<1> SUFFICES ASSUME NEW stops, NEW p \in StopsAt(parent[t], stops), Null \in stops,
                    parent' = [parent EXCEPT ![t] = p]
             PROVE  \E halts \in SUBSET (live \cup {Null}) :
                      /\ Null \in halts
                      /\ parent'[t] = End(parent, live, parent[t], halts)
                      /\ \A x \in live \ {t} : parent'[x] = parent[x]
  BY DEF Moves
<1> DEFINE all   == live \cup {Null}
           halts == stops \cap all
<1>1. Forest(parent, encl, live)
  BY TablesAreAForest
<1>2. parent[t] \in all /\ \A y \in all \ stops : parent[y] \in all
  BY DEF ForestInv, IInv, TypeOK
<1>3. p \in all
  BY <1>2 DEF StopsAt
<1>4. p \in Climb(parent, live, parent[t], halts)
  <2>1. ASSUME NEW S \in SUBSET all, parent[t] \in S, \A y \in S \ halts : parent[y] \in S
        PROVE  p \in S
    <3>1. \A y \in S \ stops : parent[y] \in S
      BY <2>1
    <3>2. QED
      BY <2>1, <3>1 DEF StopsAt
  <2>2. p \in halts
    BY <1>3 DEF StopsAt
  <2>3. QED
    BY <2>1, <2>2 DEF Climb
<1>5. Climb(parent, live, parent[t], halts) = {End(parent, live, parent[t], halts)}
  BY <1>1, <1>2, EndOfClimb
<1>6. parent'[t] = p /\ \A x \in live \ {t} : parent'[x] = parent[x]
  BY DEF ForestInv, IInv, TypeOK
<1>7. QED
  BY <1>4, <1>5, <1>6

(* The refinement mapping: what module Scopes calls declared and answer.   *)
Declared == [t \in Tables |-> {n \in Names : Matches(t, n) # {}}]
Answer   == [t \in Tables |-> [n \in Names |-> GetAnswer(t, n)]]

(* Every look-up is a look-up of module Scopes.                            *)
LEMMA LookupRefines ==
    ASSUME ForestInv, ForestInv', Lookup
    PROVE  \E t \in live : Scope!Lookup(t)
<1>1. UNCHANGED <<live, qa, underlying, encl>>
  BY LookupMoves
<1>2. PICK t \in live : Moves(t)
  BY LookupMoves
<1>3. Forest(parent, encl, live) /\ Forest(parent', encl, live)
  BY <1>1, TablesAreAForest, ForestAfter
<1>4. UNCHANGED Declared
  BY <1>1 DEF Declared, Matches, create_qualified_name
<1>5. \A m \in Names : Seen(m)' = Seen(m)
  BY <1>1 DEF Seen, Visible, Matches, create_qualified_name
<1>6. ASSUME NEW u \in live, NEW m \in Names
      PROVE  \/ GetAnswer(u, m)' = GetAnswer(u, m)
             \/ /\ t \in {u} \cup encl[u]
                /\ GetAnswer(u, m) # Null
                /\ GetAnswer(u, m)' \in encl[GetAnswer(u, m)] \cup {Null}
  <2> DEFINE stops == {Null} \cup Seen(m)
  <2>1. stops \subseteq live \cup {Null} /\ Null \in stops
    BY DEF Seen
  <2>2. /\ GetAnswer(u, m) = End(parent, live, u, stops)
        /\ GetAnswer(u, m)' = End(parent', live, u, stops)
    BY <1>1, <1>5, AnswerIsEnd, AnswerIsEndAfter
  <2> HIDE DEF stops
  <2>3. CASE parent' = parent
    BY <2>2, <2>3
  <2>4. ASSUME NEW halts \in SUBSET (live \cup {Null}), Null \in halts,
               parent'[t] = End(parent, live, parent[t], halts),
               \A x \in live \ {t} : parent'[x] = parent[x]
        PROVE  \/ GetAnswer(u, m)' = GetAnswer(u, m)
               \/ /\ t \in {u} \cup encl[u]
                  /\ GetAnswer(u, m) \in live
                  /\ GetAnswer(u, m)' \in encl[GetAnswer(u, m)] \cup {Null}
    BY <1>3, <2>1, <2>2, <2>4, Relinked
  <2>5. QED
    BY <1>2, <1>3, <2>3, <2>4, MoveRelinks DEF Forest
<1>7. \A u \in Tables \ live, m \in Names : GetAnswer(u, m)' = GetAnswer(u, m)
  BY <1>1, AnswerIsEnd, AnswerIsEndAfter
<1>8. Scope!Lookup(t)
  <2>1. live \subseteq Tables
    BY DEF ForestInv, IInv, TypeOK
  <2>2. Answer' \in [Tables -> [Names -> Tables \cup {Null}]]
    BY AnswersExistAfter DEF Answer
  <2>3. \A u \in Tables, m \in Names :
          /\ Answer[u][m] = GetAnswer(u, m)
          /\ Answer'[u][m] = GetAnswer(u, m)'
    BY DEF Answer
  <2>4. \A u \in Tables, m \in Names :
          \/ Answer'[u][m] = Answer[u][m]
          \/ /\ u \in live /\ t \in {u} \cup encl[u]
             /\ Answer[u][m] # Null
             /\ Answer'[u][m] \in encl[Answer[u][m]] \cup {Null}
    BY <1>6, <1>7, <2>3
  <2>5. QED
    <3>1. \A u \in Tables, m \in Names :
            \/ Answer'[u][m] = Answer[u][m]
            \/ /\ u \in Scope!Inside(t) /\ Answer[u][m] # Null
               /\ Answer'[u][m] \in encl[Answer[u][m]] \cup {Null}
      BY <2>1, <2>4 DEF Scope!Inside, Scope!Around
    <3>2. QED
      BY <1>1, <1>4, <2>2, <3>1 DEF Scope!Lookup, Declared, Answer
<1>9. QED
  BY <1>8

(* add_sym_table opens a scope that sees what the one around it sees.      *)
LEMMA OpenRefines ==
    ASSUME ForestInv, ForestInv', NEW t \in live, NEW n \in Names, add_sym_table(t, n)
    PROVE  Scope!Open(t)
<1>1. \E c \in Tables \ live :
        /\ live' = live \cup {c}
        /\ qa' = [qa EXCEPT ![c] = create_qualified_name(t, n)]
        /\ parent' = [parent EXCEPT ![c] = t]
        /\ encl' = [encl EXCEPT ![c] = encl[t] \cup {t}]
        /\ underlying' = underlying
  <2> DEFINE c == CHOOSE c \in Tables : c \notin live
  <2>1. c \in Tables \ live
    <3>1. \E x \in Tables : x \notin live
      BY DEF add_sym_table, ForestInv, IInv, TypeOK
    <3>2. QED
      BY <3>1
  <2>2. /\ live' = live \cup {c}
        /\ qa' = [qa EXCEPT ![c] = create_qualified_name(t, n)]
        /\ parent' = [parent EXCEPT ![c] = t]
        /\ encl' = [encl EXCEPT ![c] = encl[t] \cup {t}]
        /\ underlying' = underlying
    BY DEF add_sym_table, NewParent
  <2> HIDE DEF c
  <2>3. QED
    BY <2>1, <2>2
<1>2. PICK c \in Tables \ live :
        /\ live' = live \cup {c}
        /\ qa' = [qa EXCEPT ![c] = create_qualified_name(t, n)]
        /\ parent' = [parent EXCEPT ![c] = t]
        /\ encl' = [encl EXCEPT ![c] = encl[t] \cup {t}]
        /\ underlying' = underlying
  BY <1>1
<1>3. Forest(parent, encl, live) /\ Forest(parent', encl', live')
  BY TablesAreAForest, ForestAfter
<1>4. \A x \in Tables \ {c} : qa'[x] = qa[x] /\ parent'[x] = parent[x]
  BY <1>2 DEF ForestInv, IInv, TypeOK
<1>5. underlying[c] = <<>> /\ parent'[c] = t
  BY <1>2 DEF ForestInv, IInv, TypeOK, UnusedAreBlank
<1>6. \A x \in Tables, m \in Names : Matches(x, m)' = Matches(x, m)
  <2>1. \A m \in Names : Matches(c, m)' = {} /\ Matches(c, m) = {}
    BY <1>2, <1>5 DEF Matches
  <2>2. \A x \in Tables \ {c}, m \in Names : Matches(x, m)' = Matches(x, m)
    BY <1>2, <1>4 DEF Matches, create_qualified_name
  <2>3. QED
    BY <2>1, <2>2
<1>7. \A m \in Names : Seen(m)' = Seen(m)
  <2>1. \A x \in Tables, m \in Names : Visible(x, m)' <=> Visible(x, m)
    BY <1>2, <1>6 DEF Visible
  <2>2. \A m \in Names : ~Visible(c, m)
    BY <1>5 DEF Visible, Matches
  <2>3. live \subseteq Tables
    BY DEF ForestInv, IInv, TypeOK
  <2>4. QED
    BY <1>2, <2>1, <2>2, <2>3 DEF Seen
<1>8. ASSUME NEW m \in Names
      PROVE  /\ \A u \in live : GetAnswer(u, m)' = GetAnswer(u, m)
             /\ GetAnswer(c, m)' = GetAnswer(t, m)
  <2> DEFINE stops == {Null} \cup Seen(m)
  <2>1. stops \subseteq live \cup {Null} /\ Null \in stops /\ stops \subseteq live' \cup {Null}
    BY <1>2 DEF Seen
  <2>2. c \notin stops
    BY HandleAssumption DEF Seen
  <2>3. /\ \A u \in live : GetAnswer(u, m) = End(parent, live, u, stops)
        /\ \A u \in live' : GetAnswer(u, m)' = End(parent', live', u, stops)
    BY <1>7, AnswerIsEnd, AnswerIsEndAfter
  <2> HIDE DEF stops
  <2>4. \A u \in live : parent'[u] = parent[u] /\ parent[u] \in live \cup {Null}
    BY <1>4 DEF ForestInv, IInv, TypeOK
  <2>5. live \subseteq live \cap live'
    BY <1>2
  <2>6. \A u \in live : End(parent', live', u, stops) = End(parent, live, u, stops)
    BY <1>3, <2>1, <2>4, <2>5, SameEnds
  <2>7. c \in live' /\ live \subseteq live'
    BY <1>2
  <2>8. End(parent', live', c, stops) = End(parent', live', t, stops)
    BY <1>3, <1>5, <2>1, <2>2, <2>7, EndOfClimb
  <2>9. QED
    BY <2>3, <2>6, <2>7, <2>8
<1>9. ASSUME NEW u \in Tables \ (live \cup {c}), NEW m \in Names
      PROVE  GetAnswer(u, m)' = GetAnswer(u, m)
  BY <1>2, AnswerIsEnd, AnswerIsEndAfter
<1>10. Answer' = [Answer EXCEPT ![c] = Answer[t]]
  <2>1. \A u \in Tables \ {c} : [m \in Names |-> GetAnswer(u, m)'] = [m \in Names |-> GetAnswer(u, m)]
    BY <1>8, <1>9
  <2>2. [m \in Names |-> GetAnswer(c, m)'] = [m \in Names |-> GetAnswer(t, m)]
    BY <1>8
  <2>3. t \in Tables
    BY DEF ForestInv, IInv, TypeOK
  <2>4. QED
    BY <2>1, <2>2, <2>3 DEF Answer
<1>11. UNCHANGED Declared
  BY <1>6 DEF Declared
<1>12. QED
  BY <1>2, <1>10, <1>11 DEF Scope!Open, Scope!Around, Declared, Answer

(* Writing symbols of t so that at most what is shown under the name n     *)
(* changes is a declaration of n, or nothing that module Scopes can see.   *)
LEMMA WriteRefines ==
    ASSUME ForestInv, ForestInv', NEW t \in live, NEW n \in Names,
           UNCHANGED <<live, qa, parent, encl>>,
           \A x \in Tables \ {t} : underlying'[x] = underlying[x],
           \A m \in Names \ {n} : /\ Visible(t, m)' <=> Visible(t, m)
                                  /\ Matches(t, m)' = {} <=> Matches(t, m) = {},
           \/ Matches(t, n)' # {}
           \/ /\ Visible(t, n)' <=> Visible(t, n)
              /\ Matches(t, n)' = {} <=> Matches(t, n) = {}
    PROVE  Scope!Declare(t, n) \/ UNCHANGED <<live, encl, Declared, Answer>>
<1>1. Forest(parent, encl, live)
  BY TablesAreAForest
<1>2. t \in Tables /\ live \subseteq Tables
  BY DEF ForestInv, IInv, TypeOK
<1>3. ASSUME NEW x \in Tables \ {t}, NEW m \in Names
      PROVE  Matches(x, m)' = Matches(x, m) /\ (Visible(x, m)' <=> Visible(x, m))
  <2>1. Matches(x, m)' = Matches(x, m)
    BY DEF Matches, create_qualified_name
  <2>2. QED
    BY <2>1 DEF Visible
<1>4. \A m \in Names, x \in live \ {t} : x \in Seen(m)' <=> x \in Seen(m)
  BY <1>2, <1>3 DEF Seen
<1>5. \A m \in Names : (Visible(t, m)' <=> Visible(t, m)) => Seen(m)' = Seen(m)
  BY <1>2, <1>3 DEF Seen
<1>6. ASSUME NEW u \in Tables, NEW m \in Names
      PROVE  \/ GetAnswer(u, m)' = GetAnswer(u, m)
             \/ /\ m = n /\ u \in live /\ t \in {u} \cup encl[u]
                /\ ~(Visible(t, n)' <=> Visible(t, n))
                /\ GetAnswer(u, m)' \in {t} \cup encl[t] \cup {Null}
  <2> DEFINE stops == {Null} \cup Seen(m)
             halts == {Null} \cup Seen(m)'
  <2>1. /\ stops \subseteq live \cup {Null} /\ Null \in stops
        /\ halts \subseteq live \cup {Null} /\ Null \in halts
    BY DEF Seen
  <2>2. \A x \in live \ {t} : x \in halts <=> x \in stops
    BY <1>4
  <2>3. u \in live => /\ GetAnswer(u, m) = End(parent, live, u, stops)
                      /\ GetAnswer(u, m)' = End(parent, live, u, halts)
    BY AnswerIsEnd, AnswerIsEndAfter
  <2>4. CASE u \notin live
    BY <2>4, AnswerIsEnd, AnswerIsEndAfter
  <2>5. CASE Visible(t, m)' <=> Visible(t, m)
    BY <1>5, <2>3, <2>4, <2>5
  <2> HIDE DEF stops, halts
  <2>6. CASE u \in live /\ ~(Visible(t, m)' <=> Visible(t, m))
    <3>1. m = n
      BY <2>6
    <3>2. \/ End(parent, live, u, halts) = End(parent, live, u, stops)
          \/ /\ t \in {u} \cup encl[u]
             /\ End(parent, live, u, halts) \in {t} \cup encl[t] \cup {Null}
      BY <1>1, <2>1, <2>2, <2>6, Redeclared
    <3>3. QED
      BY <2>3, <2>6, <3>1, <3>2
  <2>7. QED
    BY <2>4, <2>5, <2>6
<1>7. \A u \in Tables, m \in Names : /\ Answer[u][m] = GetAnswer(u, m)
                                     /\ Answer'[u][m] = GetAnswer(u, m)'
  BY DEF Answer
<1>8. CASE Matches(t, n)' # {}
  <2>1. Declared' = [Declared EXCEPT ![t] = @ \cup {n}]
    <3>1. \A x \in Tables \ {t} : {m \in Names : Matches(x, m)' # {}} = {m \in Names : Matches(x, m) # {}}
      BY <1>3
    <3>2. {m \in Names : Matches(t, m)' # {}} = {m \in Names : Matches(t, m) # {}} \cup {n}
      BY <1>8
    <3>3. QED
      BY <1>2, <3>1, <3>2 DEF Declared
  <2>2. Answer' \in [Tables -> [Names -> Tables \cup {Null}]]
    BY AnswersExistAfter DEF Answer
  <2>3. \A u \in Tables, m \in Names :
          \/ Answer'[u][m] = Answer[u][m]
          \/ /\ m = n /\ u \in live /\ t \in {u} \cup encl[u]
             /\ Answer'[u][m] \in {t} \cup encl[t] \cup {Null}
    BY <1>6, <1>7
  <2>4. QED
    BY <2>1, <2>2, <2>3 DEF Scope!Declare, Scope!Inside, Scope!Around, Declared, Answer
<1>9. CASE Matches(t, n)' = {}
  <2>1. \A u \in Tables, m \in Names : GetAnswer(u, m)' = GetAnswer(u, m)
    BY <1>6, <1>9
  <2>2. Answer' = Answer
    <3>1. \A u \in Tables : [m \in Names |-> GetAnswer(u, m)'] = [m \in Names |-> GetAnswer(u, m)]
      BY <2>1
    <3>2. QED
      BY <3>1 DEF Answer
  <2>3. Declared' = Declared
    <3>1. \A x \in Tables : {m \in Names : Matches(x, m)' # {}} = {m \in Names : Matches(x, m) # {}}
      BY <1>3, <1>9
    <3>2. QED
      BY <3>1 DEF Declared
  <2>4. QED
    BY <2>2, <2>3
<1>10. QED
  BY <1>8, <1>9

(* Different names have different keys.                                    *)
LEMMA KeysDiffer ==
    ASSUME TypeOK, NEW t \in live, NEW n \in Names, NEW m \in Names,
           create_qualified_name(t, n) = create_qualified_name(t, m)
    PROVE  n = m
<1>1. qa[t] \in Seq(Names) /\ <<n>> \in Seq(Names) /\ <<m>> \in Seq(Names)
  BY DEF TypeOK, QaName
<1>2. (qa[t] \o <<n>>)[Len(qa[t]) + 1] = n /\ (qa[t] \o <<m>>)[Len(qa[t]) + 1] = m
  BY <1>1
<1>3. QED
  BY <1>2 DEF create_qualified_name

(* add appends a symbol; setInst changes no key and no mark; setSym writes *)
(* a symbol over others of its own key.                                    *)
LEMMA AddRefines ==
    ASSUME ForestInv, ForestInv', NEW t \in live, NEW n \in Names, add(t, n)
    PROVE  Scope!Declare(t, n) \/ UNCHANGED <<live, encl, Declared, Answer>>
<1>1. PICK m \in ModValues :
        underlying' = [underlying EXCEPT ![t] = Append(@,
            [key |-> create_qualified_name(t, n), mod |-> m, inst |-> Null])]
  BY DEF add
<1> DEFINE s == [key |-> create_qualified_name(t, n), mod |-> m, inst |-> Null]
           len == Len(underlying[t])
<1>2. UNCHANGED <<live, qa, parent, encl>>
  BY DEF add, tree
<1>3. t \in Tables /\ underlying[t] \in Seq(Sym) /\ len \in Nat
  BY DEF ForestInv, IInv, TypeOK
<1>4. underlying'[t] = Append(underlying[t], s) /\ \A x \in Tables \ {t} : underlying'[x] = underlying[x]
  BY <1>1, <1>3 DEF ForestInv, IInv, TypeOK
<1>5. /\ DOMAIN underlying'[t] = DOMAIN underlying[t] \cup {len + 1}
      /\ \A i \in DOMAIN underlying[t] : underlying'[t][i] = underlying[t][i]
      /\ underlying'[t][len + 1].key = create_qualified_name(t, n)
      /\ len + 1 \notin DOMAIN underlying[t]
  <2> HIDE DEF s
  <2>1. s \in Sym
    BY QualifiedNameType DEF s, Sym, ForestInv, IInv
  <2>2. underlying'[t][len + 1] = s
    BY <1>3, <1>4, <2>1
  <2>3. /\ DOMAIN underlying'[t] = DOMAIN underlying[t] \cup {len + 1}
        /\ \A i \in DOMAIN underlying[t] : underlying'[t][i] = underlying[t][i]
        /\ len + 1 \notin DOMAIN underlying[t]
    BY <1>3, <1>4, <2>1
  <2>4. s.key = create_qualified_name(t, n)
    BY DEF s
  <2>5. QED
    BY <2>2, <2>3, <2>4
<1>6. \A k \in Names : create_qualified_name(t, k)' = create_qualified_name(t, k)
  BY <1>2 DEF create_qualified_name
<1>7. Matches(t, n)' # {}
  BY <1>5, <1>6 DEF Matches
<1>8. \A k \in Names \ {n} : Matches(t, k)' = Matches(t, k)
  BY <1>5, <1>6, KeysDiffer DEF Matches, ForestInv, IInv
<1>9. \A k \in Names \ {n} : Visible(t, k)' <=> Visible(t, k)
  <2>1. \A k \in Names : Matches(t, k) \subseteq DOMAIN underlying[t]
    BY DEF Matches
  <2>2. QED
    BY <1>5, <1>8, <2>1 DEF Visible
<1>10. QED
  BY <1>2, <1>4, <1>7, <1>8, <1>9, WriteRefines

LEMMA SetInstRefines ==
    ASSUME ForestInv, ForestInv', NEW t \in live, NEW n \in Names, NEW v \in Values, setInst(t, n, v)
    PROVE  Scope!Declare(t, n) \/ UNCHANGED <<live, encl, Declared, Answer>>
<1> DEFINE old == underlying[t]
<1>1. UNCHANGED <<live, qa, parent, encl>>
  BY DEF setInst, tree
<1>2. t \in Tables /\ old \in Seq(Sym)
  BY DEF ForestInv, IInv, TypeOK
<1>3. /\ underlying'[t] = [i \in DOMAIN old |-> IF i \in Matches(t, n)
                                               THEN [old[i] EXCEPT !.inst = v] ELSE old[i]]
      /\ \A x \in Tables \ {t} : underlying'[x] = underlying[x]
  BY <1>2 DEF setInst, ForestInv, IInv, TypeOK
<1>4. \A i \in DOMAIN old : LET s == [old[i] EXCEPT !.inst = v]
                            IN  s.key = old[i].key /\ s.mod = old[i].mod
  <2>1. \A i \in DOMAIN old : old[i] \in Sym
    BY <1>2
  <2>2. \A s \in Sym : [s EXCEPT !.inst = v].key = s.key /\ [s EXCEPT !.inst = v].mod = s.mod
    BY DEF Sym
  <2>3. QED
    BY <2>1, <2>2
<1>5. /\ DOMAIN underlying'[t] = DOMAIN old
      /\ \A i \in DOMAIN old : /\ underlying'[t][i].key = old[i].key
                               /\ underlying'[t][i].mod = old[i].mod
  BY <1>3, <1>4
<1>6. \A k \in Names : Matches(t, k)' = Matches(t, k)
  BY <1>1, <1>5 DEF Matches, create_qualified_name
<1>7. \A k \in Names : Visible(t, k)' <=> Visible(t, k)
  <2>1. \A k \in Names : Matches(t, k) \subseteq DOMAIN old
    BY DEF Matches
  <2>2. QED
    BY <1>5, <1>6, <2>1 DEF Visible
<1>8. QED
  BY <1>1, <1>3, <1>6, <1>7, WriteRefines

LEMMA SetSymRefines ==
    ASSUME ForestInv, ForestInv', NEW t \in live, NEW q, NEW s \in Sym, s.key = q, setSym(t, q, s)
    PROVE  \E n \in Names : Scope!Declare(t, n) \/ UNCHANGED <<live, encl, Declared, Answer>>
<1> DEFINE old == underlying[t]
<1>1. UNCHANGED <<live, qa, parent, encl>>
  BY DEF setSym, tree
<1>2. t \in Tables /\ old \in Seq(Sym)
  BY DEF ForestInv, IInv, TypeOK
<1>3. /\ underlying'[t] = [i \in DOMAIN old |-> IF old[i].key = q THEN s ELSE old[i]]
      /\ \A x \in Tables \ {t} : underlying'[x] = underlying[x]
  BY <1>2 DEF setSym, ForestInv, IInv, TypeOK
<1>4. /\ DOMAIN underlying'[t] = DOMAIN old
      /\ \A i \in DOMAIN old : /\ underlying'[t][i].key = old[i].key
                               /\ old[i].key # q => underlying'[t][i] = old[i]
  BY <1>3
<1>5. \A k \in Names : Matches(t, k)' = Matches(t, k)
  BY <1>1, <1>4 DEF Matches, create_qualified_name
<1>6. \A k \in Names : create_qualified_name(t, k) # q => (Visible(t, k)' <=> Visible(t, k))
  <2>1. \A k \in Names : \A i \in Matches(t, k) :
          i \in DOMAIN old /\ old[i].key = create_qualified_name(t, k)
    BY DEF Matches
  <2>2. QED
    BY <1>4, <1>5, <2>1 DEF Visible
<1>7. CASE \E n \in Names : create_qualified_name(t, n) = q
  <2>1. PICK n \in Names : create_qualified_name(t, n) = q
    BY <1>7
  <2>2. \A k \in Names \ {n} : Visible(t, k)' <=> Visible(t, k)
    BY <1>6, <2>1, KeysDiffer DEF ForestInv, IInv
  <2>3. CASE Matches(t, n) # {}
    BY <1>1, <1>3, <1>5, <2>2, <2>3, WriteRefines
  <2>4. CASE Matches(t, n) = {}
    <3>1. Visible(t, n)' <=> Visible(t, n)
      BY <1>5, <2>4 DEF Visible
    <3>2. QED
      BY <1>1, <1>3, <1>5, <2>2, <3>1, WriteRefines
  <2>5. QED
    BY <2>3, <2>4
<1>8. CASE \A n \in Names : create_qualified_name(t, n) # q
  <2>1. GlobalName \in Names
    BY NameAssumption
  <2>2. \A k \in Names : Visible(t, k)' <=> Visible(t, k)
    BY <1>6, <1>8
  <2>3. Scope!Declare(t, GlobalName) \/ UNCHANGED <<live, encl, Declared, Answer>>
    BY <1>1, <1>3, <1>5, <2>1, <2>2, WriteRefines
  <2>4. QED
    BY <2>1, <2>3
<1>9. QED
  BY <1>7, <1>8

(* Every step of the tables is a step of module Scopes, or a stutter.      *)
LEMMA StepRefines == ForestInv /\ ForestInv' /\ [Next]_vars => [Scope!Next]_(Scope!vars)
<1> SUFFICES ASSUME ForestInv, ForestInv', [Next]_vars PROVE [Scope!Next]_(Scope!vars)
  OBVIOUS
<1>1. UNCHANGED <<live, encl, Declared, Answer>> => UNCHANGED Scope!vars
  BY DEF Scope!vars, Declared, Answer
<1>2. CASE UNCHANGED vars
  <2>1. UNCHANGED <<Declared, Answer>>
    BY <1>2 DEF vars, Declared, Answer, Matches, create_qualified_name, GetAnswer, Visible
  <2>2. QED
    BY <1>1, <1>2, <2>1 DEF vars
<1>3. CASE Lookup
  BY <1>3, LookupRefines DEF Scope!Next
<1>4. CASE Update
  <2>1. ASSUME NEW t \in live, NEW n \in Names, add(t, n) \/ add_symbol(t, n)
        PROVE  Scope!Next \/ UNCHANGED Scope!vars
    BY <1>1, <2>1, AddRefines DEF add_symbol, Scope!Next
  <2>2. ASSUME NEW t \in live, NEW n \in Names, add_sym_table(t, n)
        PROVE  Scope!Next
    BY <2>2, OpenRefines DEF Scope!Next
  <2>3. ASSUME NEW t \in live, NEW n \in Names, NEW v \in Values, setInst(t, n, v)
        PROVE  Scope!Next \/ UNCHANGED Scope!vars
    BY <1>1, <2>3, SetInstRefines DEF Scope!Next
  <2>4. ASSUME NEW t \in live, NEW u \in live, NEW i \in DOMAIN underlying[u],
               setSym(t, underlying[u][i].key, underlying[u][i])
        PROVE  Scope!Next \/ UNCHANGED Scope!vars
    <3>1. underlying[u][i] \in Sym
      BY DEF ForestInv, IInv, TypeOK
    <3>2. QED
      BY <1>1, <2>4, <3>1, SetSymRefines DEF Scope!Next
  <2>5. QED
    BY <1>4, <2>1, <2>2, <2>3, <2>4 DEF Update
<1>5. QED
  BY <1>2, <1>3, <1>4 DEF Next

(* The tables start as the scopes do.                                      *)
LEMMA InitRefines == Init => Scope!Init
<1> SUFFICES ASSUME Init PROVE Scope!Init
  OBVIOUS
<1>1. ForestInv
  BY InitEstablishesForest
<1>2. \A t \in Tables, n \in Names : Matches(t, n) = {} /\ ~Visible(t, n)
  BY DEF Init, Matches, Visible
<1>3. \A t \in Tables, n \in Names : GetAnswer(t, n) = Null
  <2>1. \A n \in Names : Seen(n) = {}
    BY <1>1, <1>2 DEF Seen, ForestInv, IInv, TypeOK
  <2>2. ASSUME NEW t \in live, NEW n \in Names PROVE GetAnswer(t, n) = Null
    BY <1>1, <2>1, AnswersAround
  <2>3. QED
    BY <1>1, <2>2, AnswerIsEnd
<1>4. [t \in Tables |-> {n \in Names : Matches(t, n) # {}}] = [t \in Tables |-> {}]
  BY <1>2
<1>5. [t \in Tables |-> [n \in Names |-> GetAnswer(t, n)]] = [t \in Tables |-> [n \in Names |-> Null]]
  BY <1>3
<1>6. QED
  BY <1>4, <1>5 DEF Init, Scope!Init

(* The tables implement module Scopes (ImplementsScopes): whatever the     *)
(* look-ups do to the links, answers change only for the scopes inside the *)
(* one asked, and only outwards; declaring a name changes only what is     *)
(* seen under that name from inside; a new scope sees what the scope       *)
(* around it sees.                                                         *)
THEOREM Refinement == Spec => ImplementsScopes
<1>1. Spec => Scope!Init
  BY InitRefines DEF Spec
<1>2. ForestInv /\ ForestInv' /\ [Next]_vars => [Scope!Next]_(Scope!vars)
  BY StepRefines
<1>3. QED
  BY <1>1, <1>2, ForestInvariance, PTL DEF Spec, ImplementsScopes, Scope!Spec

-----------------------------------------------------------------------------
(* What get does to the links.                                             *)
LEMMA GetRelinks ==
    ASSUME ForestInv, NEW t \in live, NEW n \in Names, get(t, n)
    PROVE  /\ \/ parent' = parent
              \/ /\ ~Visible(t, n)
                 /\ parent'[t] = End(parent, live, parent[t], GetStops(n))
                 /\ \A x \in live \ {t} : parent'[x] = parent[x]
           /\ UNCHANGED <<live, encl>>
           /\ \A m \in Names : Seen(m)' = Seen(m)
<1>1. UNCHANGED <<live, qa, underlying, encl>>
  BY DEF get, tree
<1>2. \A m \in Names : Seen(m)' = Seen(m)
  BY <1>1 DEF Seen, Visible, Matches, create_qualified_name
<1>3. ASSUME ~Visible(t, n), NEW p \in StopsAt(parent[t], GetStops(n)),
             parent' = [parent EXCEPT ![t] = p]
      PROVE  /\ parent'[t] = End(parent, live, parent[t], GetStops(n))
             /\ \A x \in live \ {t} : parent'[x] = parent[x]
  <2> DEFINE stops == GetStops(n)
  <2>1. stops \subseteq live \cup {Null} /\ Null \in stops
    BY DEF GetStops
  <2> HIDE DEF stops
  <2>2. Forest(parent, encl, live) /\ parent[t] \in live \cup {Null}
    BY TablesAreAForest DEF ForestInv, IInv, TypeOK
  <2>3. Climb(parent, live, parent[t], stops) = {End(parent, live, parent[t], stops)}
    BY <2>1, <2>2, EndOfClimb
  <2>4. p = End(parent, live, parent[t], stops)
    BY <1>3, <2>3 DEF Climb, StopsAt, stops
  <2>5. QED
    BY <1>3, <2>4 DEF ForestInv, IInv, TypeOK, stops
<1>4. QED
  BY <1>1, <1>2, <1>3 DEF get

(* A get changes no answer that is among the tables it can stop at.        *)
LEMMA GetChanges ==
    ASSUME ForestInv, ForestInv', NEW t \in live, NEW n \in Names, get(t, n),
           NEW u \in live, NEW m \in Names
    PROVE  \/ GetAnswer(u, m)' = GetAnswer(u, m)
           \/ GetAnswer(u, m) \notin GetStops(n)
<1> DEFINE stops == {Null} \cup Seen(m)
           halts == GetStops(n)
<1>1. /\ stops \subseteq live \cup {Null} /\ Null \in stops
      /\ halts \subseteq live \cup {Null} /\ Null \in halts
  BY DEF Seen, GetStops
<1>2. Forest(parent, encl, live) /\ Forest(parent', encl, live)
  BY GetRelinks, TablesAreAForest, ForestAfter
<1>3. /\ GetAnswer(u, m) = End(parent, live, u, stops)
      /\ GetAnswer(u, m)' = End(parent', live, u, stops)
  BY GetRelinks, AnswerIsEnd, AnswerIsEndAfter
<1>4. \/ parent' = parent
      \/ parent'[t] = End(parent, live, parent[t], halts) /\ \A x \in live \ {t} : parent'[x] = parent[x]
  BY GetRelinks
<1> HIDE DEF stops, halts
<1>5. CASE parent' = parent
  BY <1>3, <1>5
<1>6. CASE parent' # parent
  <2>1. \/ End(parent', live, u, stops) = End(parent, live, u, stops)
        \/ End(parent, live, u, stops) \notin halts
    BY <1>1, <1>2, <1>4, <1>6, Relinked
  <2>2. QED
    BY <1>3, <2>1 DEF halts
<1>7. QED
  BY <1>5, <1>6

(* get never makes a global invisible, for any name and from any table:    *)
(* its loop stops at the last table still linked (GetKeepsGlobals).        *)
THEOREM GetKeepsGlobalsAlways == Spec => GetKeepsGlobals
<1> DEFINE Kept == (\E t \in live, n \in Names : get(t, n)) =>
                      \A u \in live, m \in Names : GetAnswer(u, m) = Root => GetAnswer(u, m)' = Root
<1>1. ForestInv /\ ForestInv' => Kept
  <2> SUFFICES ASSUME ForestInv, ForestInv', NEW t \in live, NEW n \in Names, get(t, n),
                      NEW u \in live, NEW m \in Names, GetAnswer(u, m) = Root
               PROVE  GetAnswer(u, m)' = Root
    OBVIOUS
  <2>1. Root \in GetStops(n)
    BY DEF ForestInv, IInv, TypeOK, LinksLeadOut, RootIsOutermost, GetStops
  <2>2. QED
    BY <2>1, GetChanges
<1>2. ForestInv /\ ForestInv' => [Kept]_parent
  BY <1>1
<1>3. QED
  BY <1>2, ForestInvariance, PTL DEF GetKeepsGlobals

(* Asking a table for the same name twice gives the same answer, though    *)
(* the first get moved its link (GetIsRepeatable).                         *)
THEOREM GetIsAlwaysRepeatable == Spec => GetIsRepeatable
<1> DEFINE Repeats == \A t \in live, n \in Names : get(t, n) => GetAnswer(t, n)' = GetAnswer(t, n)
<1>1. ForestInv /\ ForestInv' => Repeats
  <2> SUFFICES ASSUME ForestInv, ForestInv', NEW t \in live, NEW n \in Names, get(t, n)
               PROVE  GetAnswer(t, n)' = GetAnswer(t, n)
    OBVIOUS
  <2>1. GetAnswer(t, n) \in GetStops(n)
    BY AnswersAround DEF Seen, GetStops
  <2>2. QED
    BY <2>1, GetChanges
<1>2. ForestInv /\ ForestInv' => [Repeats]_parent
  BY <1>1
<1>3. QED
  BY <1>2, ForestInvariance, PTL DEF GetIsRepeatable

-----------------------------------------------------------------------------
(* What the look-ups of tables answer.                                     *)
LEMMA FirstOne ==
    ASSUME NEW X, NEW s \in Seq(X), NEW T, T \subseteq DOMAIN s, T # {}
    PROVE  \E i \in T : \A j \in 1..(i - 1) : j \in DOMAIN s /\ j \notin T
<1>1. T \subseteq Nat /\ DOMAIN s = 1..Len(s) /\ Len(s) \in Nat
  OBVIOUS
<1>2. PICK i \in T : \A k \in T : i <= k
  BY <1>1, LeastNatural
<1>3. i \in Nat /\ i \in 1..Len(s)
  BY <1>1
<1>4. \A j \in 1..(i - 1) : j \in 1..Len(s) /\ ~(i <= j)
  BY <1>1, <1>3
<1>5. QED
  BY <1>1, <1>2, <1>4

(* get_sym_table answers with a table of the name it was given: the one    *)
(* asked, one of its children, or one around it; and with the child that   *)
(* has the name, when there is one.                                        *)
LEMMA FoundTableAround ==
    ASSUME ForestInv, NEW t \in live, NEW q
    PROVE  /\ FoundTable(t, q) \in live \cup {Null}
           /\ FoundTable(t, q) # Null =>
                /\ qa[FoundTable(t, q)] = q
                /\ \/ FoundTable(t, q) \in {t} \cup encl[t]
                   \/ \E i \in DOMAIN children[t] : FoundTable(t, q) = children[t][i]
           /\ NearMatches(t, q) # {} => FoundTable(t, q) # Null
           /\ qa[t] = q => FoundTable(t, q) = t
           /\ qa[t] # q /\ NearMatches(t, q) # {} =>
                \E i \in DOMAIN children[t] : FoundTable(t, q) = children[t][i]
<1>1. /\ t \in Tables /\ children[t] \in Seq(live) /\ Null \notin live
      /\ parent[t] \in encl[t] \cup {Null} /\ encl[t] \subseteq live
  BY HandleAssumption DEF ForestInv, IInv, TypeOK, LinksLeadOut
<1>2. CASE qa[t] = q
  BY <1>1, <1>2 DEF FoundTable
<1>3. CASE qa[t] # q /\ NearMatches(t, q) # {}
  <2>1. FoundTable(t, q) = children[t][CHOOSE i \in DOMAIN children[t] :
            qa[children[t][i]] = q /\ \A j \in 1..(i - 1) : ~(qa[children[t][j]] = q)]
    BY <1>3 DEF FoundTable, First
  <2>2. \E i \in NearMatches(t, q) : \A j \in 1..(i - 1) : j \in DOMAIN children[t] /\ j \notin NearMatches(t, q)
    <3>1. children[t] \in Seq(live) /\ NearMatches(t, q) \subseteq DOMAIN children[t]
      BY <1>1 DEF NearMatches
    <3>2. QED
      BY <1>3, <3>1, FirstOne
  <2>3. \E i \in DOMAIN children[t] :
            qa[children[t][i]] = q /\ \A j \in 1..(i - 1) : ~(qa[children[t][j]] = q)
    BY <2>2 DEF NearMatches
  <2>4. PICK i \in DOMAIN children[t] : qa[children[t][i]] = q /\ FoundTable(t, q) = children[t][i]
    BY <2>1, <2>3
  <2>5. children[t][i] \in live
    BY <1>1
  <2>6. QED
    BY <1>1, <1>3, <2>4, <2>5
<1>4. CASE qa[t] # q /\ NearMatches(t, q) = {}
  <2> DEFINE stops == {Null} \cup {x \in live : qa[x] = q}
  <2>1. FoundTable(t, q) = CHOOSE p \in StopsAt(parent[t], stops) : TRUE
    BY <1>4 DEF FoundTable
  <2>2. Forest(parent, encl, live) /\ stops \subseteq live \cup {Null} /\ Null \in stops
        /\ parent[t] \in live \cup {Null}
    BY <1>1, TablesAreAForest
  <2> HIDE DEF stops
  <2>3. StopsAt(parent[t], stops) = {End(parent, live, parent[t], stops)}
    BY <2>2, EndOfClimb DEF Climb, StopsAt
  <2>4. FoundTable(t, q) = End(parent, live, parent[t], stops) /\ FoundTable(t, q) \in stops
    BY <2>1, <2>2, <2>3, EndOfClimb
  <2>5. FoundTable(t, q) \in encl[t] \cup {Null}
    BY <2>1, <2>2, <2>3, ClimbEndsOutside DEF ForestInv
  <2>6. FoundTable(t, q) # Null => qa[FoundTable(t, q)] = q
    BY <2>4 DEF stops
  <2>7. QED
    BY <1>1, <1>4, <2>5, <2>6
<1>5. QED
  BY <1>2, <1>3, <1>4

(* get_sym_table_from_unqualified answers with a child of a table.         *)
LEMMA FoundUnqualifiedLives ==
    ASSUME ForestInv, NEW t \in live, NEW n
    PROVE  /\ FoundUnqualified(t, n) \in live \cup {Null}
           /\ ScanFinds(t, n) => \E i \in DOMAIN children[t] :
                /\ FoundUnqualified(t, n) = children[t][i] /\ FoundUnqualified(t, n) \in live
                /\ qa[children[t][i]] = create_qualified_name(parent[children[t][i]], n)
<1> DEFINE stops == {Null} \cup {x \in live : ScanFinds(x, n)}
           at == IF ScanFinds(t, n) THEN t ELSE CHOOSE p \in StopsAt(parent[t], stops) : TRUE
           Fits(c) == qa[c] = create_qualified_name(parent[c], n)
           Found(x) == children[x][CHOOSE i \in DOMAIN children[x] :
                         Fits(children[x][i]) /\ \A j \in 1..(i - 1) : ~Fits(children[x][j])]
<1>1. /\ \A x \in live : children[x] \in Seq(live) /\ x \in Tables /\ x # Null
      /\ parent[t] \in live \cup {Null}
  BY HandleAssumption DEF ForestInv, IInv, TypeOK
<1>2. FoundUnqualified(t, n) = IF at = Null THEN Null ELSE Found(at)
  BY DEF FoundUnqualified, First
<1>3. at \in stops \/ (at = t /\ ScanFinds(t, n))
  <2>1. CASE ~ScanFinds(t, n)
    <3>1. Forest(parent, encl, live) /\ stops \subseteq live \cup {Null} /\ Null \in stops
      BY TablesAreAForest
    <3>2. at = CHOOSE p \in StopsAt(parent[t], stops) : TRUE
      BY <2>1
    <3> HIDE DEF stops, at
    <3>3. StopsAt(parent[t], stops) = {End(parent, live, parent[t], stops)}
          /\ End(parent, live, parent[t], stops) \in stops
      BY <1>1, <3>1, EndOfClimb DEF Climb, StopsAt
    <3>4. QED
      BY <3>2, <3>3
  <2>2. QED
    BY <2>1
<1>4. ASSUME NEW x \in live, ScanFinds(x, n)
      PROVE  \E i \in DOMAIN children[x] : Found(x) = children[x][i] /\ Found(x) \in live /\ Fits(children[x][i])
  <2> DEFINE T == {i \in DOMAIN children[x] : Fits(children[x][i])}
  <2>1. T # {}
    BY <1>4 DEF ScanFinds, UnqualifiedMatch
  <2>2. \E i \in T : \A j \in 1..(i - 1) : j \in DOMAIN children[x] /\ j \notin T
    <3>1. children[x] \in Seq(live) /\ T \subseteq DOMAIN children[x]
      BY <1>1
    <3> HIDE DEF T
    <3>2. QED
      BY <2>1, <3>1, FirstOne
  <2>3. \E i \in DOMAIN children[x] :
          Fits(children[x][i]) /\ \A j \in 1..(i - 1) : ~Fits(children[x][j])
    BY <2>2
  <2> HIDE DEF Fits
  <2>4. PICK i \in DOMAIN children[x] : Found(x) = children[x][i] /\ Fits(children[x][i])
    BY <2>3
  <2>5. children[x][i] \in live
    BY <1>1
  <2>6. QED
    BY <2>4, <2>5
<1>5. at # Null => at \in live /\ ScanFinds(at, n)
  BY <1>3
<1> HIDE DEF at, Found
<1>6. FoundUnqualified(t, n) \in live \cup {Null}
  BY <1>2, <1>4, <1>5
<1>7. ASSUME ScanFinds(t, n) PROVE FoundUnqualified(t, n) = Found(t)
  BY <1>1, <1>2, <1>7 DEF at
<1>8. QED
  BY <1>4, <1>6, <1>7

(* One turn of the loop of get.                                            *)
LEMMA AnswerHere ==
    ASSUME ForestInv, NEW t \in live, NEW n \in Names
    PROVE  GetAnswer(t, n) = IF Visible(t, n) THEN t
                             ELSE IF parent[t] = Null THEN Null ELSE GetAnswer(parent[t], n)
<1> DEFINE stops == {Null} \cup Seen(n)
<1>1. /\ Forest(parent, encl, live) /\ stops \subseteq live \cup {Null} /\ Null \in stops
      /\ parent[t] \in live \cup {Null} /\ Null \notin live
  BY TablesAreAForest, HandleAssumption DEF Seen, ForestInv, IInv, TypeOK
<1>2. t \in stops <=> Visible(t, n)
  BY <1>1 DEF Seen
<1>3. \A x \in live : GetAnswer(x, n) = End(parent, live, x, stops)
  BY AnswerIsEnd
<1> HIDE DEF stops
<1>4. End(parent, live, Null, stops) = Null
  BY <1>1, EndOfClimb
<1>5. End(parent, live, t, stops) = IF Visible(t, n) THEN t ELSE End(parent, live, parent[t], stops)
  BY <1>1, <1>2, EndOfClimb
<1>6. QED
  BY <1>1, <1>3, <1>4, <1>5

(* A get of a name changes no answer to that name, from any table.         *)
LEMMA GetKeepsAnswers ==
    ASSUME ForestInv, ForestInv', NEW t \in live, NEW n \in Names, get(t, n), NEW u \in live
    PROVE  GetAnswer(u, n)' = GetAnswer(u, n)
<1>1. GetAnswer(u, n) \in GetStops(n)
  BY AnswersAround DEF Seen, GetStops
<1>2. QED
  BY <1>1, GetChanges

(* Nor does a step that leaves the links and the symbols alone.            *)
LEMMA SameLinksSameAnswers ==
    ASSUME ForestInv, ForestInv', live' = live, qa' = qa, parent' = parent, underlying' = underlying,
           NEW t \in live, NEW n \in Names
    PROVE  GetAnswer(t, n)' = GetAnswer(t, n)
<1>1. Seen(n)' = Seen(n)
  BY DEF Seen, Visible, Matches, create_qualified_name, Absent
<1>2. /\ GetAnswer(t, n)' = End(parent', live', t, {Null} \cup Seen(n)')
      /\ GetAnswer(t, n) = End(parent, live, t, {Null} \cup Seen(n))
  BY AnswerIsEnd, AnswerIsEndAfter
<1>3. QED
  BY <1>1, <1>2
=============================================================================
