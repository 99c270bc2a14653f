------------------------------ MODULE SymTable ------------------------------
(***************************************************************************)
(* The tree of symbol tables of the Donsus compiler                        *)
(* (src/symbol_table.cc, src/Include/symbol_table.h).                      *)
(*                                                                         *)
(* Every function body gets a table of its own, linked to the table of the *)
(* enclosing body by the member `parent'.  The look-ups climb towards the  *)
(* global table by ASSIGNING that member (parent = parent->parent), so a   *)
(* look-up rewires the tree it reads: what the next look-up answers        *)
(* depends on the ones before it.  That is what this module is about.      *)
(*                                                                         *)
(* One action is one call of the public interface, with the whole of its   *)
(* loop.  A qualified name "global.f.x" is the sequence of its short names *)
(* (identifiers contain no dot).                                           *)
(***************************************************************************)
EXTENDS Integers, Sequences, FiniteSets

CONSTANTS
    Tables,       \* the handles add_sym_table can hand out, and Root
    Root,         \* the table of the whole program, sym_global
    Null,         \* the null handle, the null llvm::Value
    Names,        \* short names of identifiers and functions
    GlobalName,   \* the short name of Root: a program may use it as a name too
    ModValues,    \* what the never initialised member sym::mod can hold
    Values,       \* the llvm::Value's setInst stores
    MaxObjects    \* bound: tables and symbols together

Absent == -1      \* the mod by which a look-up says "no such symbol"

ASSUME HandleAssumption == Root \in Tables /\ Null \notin Tables \cup Values
ASSUME NameAssumption   == GlobalName \in Names
ASSUME ModAssumption    == ModValues \subseteq Int /\ ModValues # {}
ASSUME BoundAssumption  == MaxObjects \in Nat

VARIABLES
    live,         \* the tables allocated so far
    qa,           \* qa_sym: the qualified name of each table
    parent,       \* parent: the link the look-ups climb, and cut
    children,     \* sym_table: the tables added under each table, in order
    underlying,   \* underlying: the symbols of each table, in order
    encl,         \* history: the tables each table was created inside of
    crashed       \* a null handle was dereferenced

vars == <<live, qa, parent, children, underlying, encl, crashed>>
tree == <<live, qa, children, encl>>

Handles == Tables \cup {Null}
QaName  == Seq(Names)
Sym     == [key : QaName, mod : ModValues, inst : Values \cup {Null}]

-----------------------------------------------------------------------------
(* Names.                                                                  *)

create_qualified_name(t, n) == qa[t] \o <<n>>

short_name(t) == qa[t][Len(qa[t])]

apply_scope_always(t, n) == create_qualified_name(t, n)   \* a slip: not for its own name
apply_scope(t, n) ==
    IF n = short_name(t) THEN qa[t] ELSE create_qualified_name(t, n)

-----------------------------------------------------------------------------
(* One table.  get_from_qualified_name copies the LAST symbol of that key, *)
(* and its caller takes a symbol whose mod is -1 for no symbol at all.     *)

Matches(t, n) ==
    {i \in DOMAIN underlying[t] : underlying[t][i].key = create_qualified_name(t, n)}

Visible(t, n) ==
    LET found == Matches(t, n)
    IN  \E i \in found : /\ \A j \in found : j <= i
                         /\ underlying[t][i].mod # Absent

(* The flag `duplicated' of the symbol get_from_qualified_name returns.    *)
Duplicated(t, n) == \E i, j \in Matches(t, n) : i # j

-----------------------------------------------------------------------------
(* The loops `while (parent) { if (...) return; parent = parent->parent; }' *)
(* From p they visit the least set of handles that contains p and, with a  *)
(* table the loop does not stop at, its parent.  Where they stop:          *)
(* (A slip: at any table of the program that would do.)                    *)
StopsAt_anywhere(p, stops) == stops
StopsAt(p, stops) ==
    {x \in stops : \A S \in SUBSET (live \cup {Null}) :
        (p \in S /\ \A y \in S \ stops : parent[y] \in S) => x \in S}

(* get stops at a table that shows the name, and never climbs past the last *)
(* table that is still linked to it.  (Slips: it does climb past the last   *)
(* one; it tests the table it has just left.)                              *)
GetStops_no_last(n) == {Null} \cup {p \in live : Visible(p, n)}
GetStops_late(n) ==
    {Null} \cup {p \in live : parent[p] = Null \/ \E c \in live : parent[c] = p /\ Visible(c, n)}
GetStops(n) == {Null} \cup {p \in live : Visible(p, n) \/ parent[p] = Null}

(* get_sym_table looks at the table itself and at its children, in order,  *)
(* before it climbs: whom it returns without touching `parent'.            *)
NearMatches(t, q) == {i \in DOMAIN children[t] : qa[children[t][i]] = q}

(* get_sym_table_from_unqualified reads n->parent->qa_sym of every child n *)
(* up to the first one that matches: a child whose link was cut crashes it. *)
UnqualifiedMatch(t, n, i) ==
    LET c == children[t][i]
    IN  /\ parent[c] # Null
        /\ qa[c] = create_qualified_name(parent[c], n)

ScanCrashes(t, n) ==
    \E i \in DOMAIN children[t] :
        /\ parent[children[t][i]] = Null
        /\ \A j \in 1..(i - 1) : ~UnqualifiedMatch(t, n, j)

ScanFinds(t, n) ==
    \E i \in DOMAIN children[t] :
        /\ \A j \in 1..i : parent[children[t][j]] # Null
        /\ UnqualifiedMatch(t, n, i)

(* What the two look-ups of tables return.                                 *)
First(s, Test(_)) == s[CHOOSE i \in DOMAIN s : Test(s[i]) /\ \A j \in 1..(i - 1) : ~Test(s[j])]

FoundTable(t, q) ==
    IF qa[t] = q THEN t
    ELSE IF NearMatches(t, q) # {} THEN First(children[t], LAMBDA c : qa[c] = q)
    ELSE CHOOSE p \in StopsAt(parent[t], {Null} \cup {x \in live : qa[x] = q}) : TRUE

FoundUnqualified(t, n) ==
    LET at == IF ScanFinds(t, n) THEN t
              ELSE CHOOSE p \in StopsAt(parent[t], {Null} \cup {x \in live : ScanFinds(x, n)}) : TRUE
    IN  IF at = Null THEN Null
        ELSE First(children[at], LAMBDA c : qa[c] = create_qualified_name(parent[c], n))

AllSymbols == UNION {{t} \X DOMAIN underlying[t] : t \in live}

Room == Cardinality(live) + Cardinality(AllSymbols) < MaxObjects

-----------------------------------------------------------------------------
Init ==
    /\ live = {Root}
    /\ qa = [t \in Tables |-> <<GlobalName>>]
    /\ parent = [t \in Tables |-> Null]
    /\ children = [t \in Tables |-> <<>>]
    /\ underlying = [t \in Tables |-> <<>>]
    /\ encl = [t \in Tables |-> {}]
    /\ crashed = FALSE

(* The four overloads of add: the key is made of the table's own name, and *)
(* mod is whatever the new symbol's memory held.                           *)
add(t, n) ==
    /\ Room
    /\ \E m \in ModValues :
         underlying' = [underlying EXCEPT ![t] = Append(@,
             [key |-> create_qualified_name(t, n), mod |-> m, inst |-> Null])]
    /\ UNCHANGED <<tree, parent, crashed>>

(* add_symbol stores a symbol its caller built, whose key is, where it is   *)
(* used, the name qualified by this table, and whose mod no one set either. *)
add_symbol(t, n) == add(t, n)

(* The link of a table c created in t (and what a slip would make of it:   *)
(* the new table, the global one, the sibling before it, a stray pointer). *)
NewParent_self(t, c)    == c
NewParent_global(t, c)  == Root
NewParent_sibling(t, c) == IF children[t] = <<>> THEN t ELSE children[t][1]
NewParent_stray(t, c)   == CHOOSE x \in Tables : x \notin live \cup {c}
NewParent(t, c) == t

(* The handle is a fresh one; which one does not matter.                   *)
add_sym_table(t, n) ==
    /\ Room /\ live # Tables
    /\ LET c == CHOOSE c \in Tables : c \notin live
       IN  /\ live' = live \cup {c}
           /\ qa' = [qa EXCEPT ![c] = create_qualified_name(t, n)]
           /\ parent' = [parent EXCEPT ![c] = NewParent(t, c)]
           /\ children' = [children EXCEPT ![t] = Append(@, c)]
           /\ encl' = [encl EXCEPT ![c] = encl[t] \cup {t}]
    /\ UNCHANGED <<underlying, crashed>>

get(t, n) ==
    /\ \/ /\ Visible(t, n) \/ parent[t] = Null
          /\ UNCHANGED parent
       \/ /\ ~Visible(t, n) /\ parent[t] # Null
          /\ \E p \in StopsAt(parent[t], GetStops(n)) :
               parent' = [parent EXCEPT ![t] = p]
    /\ UNCHANGED <<tree, underlying, crashed>>

get_sym_table(t, q) ==
    /\ \/ /\ qa[t] = q \/ NearMatches(t, q) # {}
          /\ UNCHANGED parent
       \/ /\ qa[t] # q /\ NearMatches(t, q) = {}
          /\ \E p \in StopsAt(parent[t], {Null} \cup {x \in live : qa[x] = q}) :
               parent' = [parent EXCEPT ![t] = p]
    /\ UNCHANGED <<tree, underlying, crashed>>

get_sym_table_from_unqualified(t, n) ==
    /\ \/ /\ ScanFinds(t, n)
          /\ UNCHANGED <<parent, crashed>>
       \/ /\ ScanCrashes(t, n)
          /\ crashed' = TRUE
          /\ UNCHANGED parent
       \/ /\ ~ScanFinds(t, n) /\ ~ScanCrashes(t, n)
          /\ \E p \in StopsAt(parent[t],
                       {Null} \cup {x \in live : ScanFinds(x, n) \/ ScanCrashes(x, n)}) :
               /\ parent' = [parent EXCEPT ![t] = p]
               /\ crashed' = (p # Null /\ ScanCrashes(p, n))
    /\ UNCHANGED <<tree, underlying>>

(* setInst and setSym write every symbol of the key, in this table alone.  *)
setInst(t, n, v) ==
    /\ underlying' = [underlying EXCEPT ![t] =
         [i \in DOMAIN @ |-> IF i \in Matches(t, n) THEN [@[i] EXCEPT !.inst = v] ELSE @[i]]]
    /\ UNCHANGED <<tree, parent, crashed>>

setSym(t, q, s) ==
    /\ underlying' = [underlying EXCEPT ![t] =
         [i \in DOMAIN @ |-> IF @[i].key = q THEN s ELSE @[i]]]
    /\ UNCHANGED <<tree, parent, crashed>>

(* The names the callers build: the scope's own, or one taken from a table. *)
QualifiedNames(t) ==
    {apply_scope(t, n) : n \in Names} \cup {qa[u] : u \in live}

Lookup ==
    \E t \in live :
        \/ \E n \in Names : get(t, n) \/ get_sym_table_from_unqualified(t, n)
        \/ \E q \in QualifiedNames(t) : get_sym_table(t, q)

Update ==
    \E t \in live, n \in Names :
        \/ add(t, n)
        \/ add_sym_table(t, n)
        \/ add_symbol(t, n)
        \/ \E v \in Values : setInst(t, n, v)
        \/ \E u \in live : \E i \in DOMAIN underlying[u] :
             setSym(t, underlying[u][i].key, underlying[u][i])

Next == ~crashed /\ (Lookup \/ Update)

Spec == Init /\ [][Next]_vars

-----------------------------------------------------------------------------
(* What get answers, as a function of the state: the table whose symbol it *)
(* returns, Null when it returns mod = -1.                                 *)
GetAnswer_outermost(t, n) ==
    IF Visible(Root, n) /\ parent[t] # Null THEN Root
    ELSE LET climb[x \in Handles] ==
               IF x = Null THEN Null ELSE IF Visible(x, n) THEN x ELSE climb[parent[x]]
         IN  climb[t]

GetAnswer(t, n) ==
    LET climb[x \in Handles] ==
          IF x = Null THEN Null ELSE IF Visible(x, n) THEN x ELSE climb[parent[x]]
    IN  climb[t]

(* What the scoping rule of the language says it should answer: the        *)
(* innermost enclosing table that shows the name.                          *)
Shows(t, n) == {x \in {t} \cup encl[t] : Visible(x, n)}

Lexical(t, n) ==
    IF Shows(t, n) = {} THEN Null
    ELSE CHOOSE x \in Shows(t, n) : \A y \in Shows(t, n) : y \in {x} \cup encl[x]

Linked(t) ==
    \/ t = Root
    \/ parent[t] # Null /\ encl[t] = {parent[t]} \cup encl[parent[t]]

-----------------------------------------------------------------------------
TypeOK ==
    /\ live \in SUBSET Tables /\ Root \in live
    /\ qa \in [Tables -> QaName]
    /\ parent \in [Tables -> live \cup {Null}]
    /\ children \in [Tables -> Seq(live)]
    /\ underlying \in [Tables -> Seq(Sym)]
    /\ encl \in [Tables -> SUBSET live]
    /\ crashed \in BOOLEAN

(* However the look-ups have rewired the tree, a link leads to a table the *)
(* function was really written inside of, or nowhere: a look-up can never  *)
(* reach the locals of a sibling or of an inner function.                  *)
LinksLeadOut == \A t \in live : parent[t] \in encl[t] \cup {Null}

(* A look-up moves a link only along links: to a table around the one it   *)
(* led to, or off the tree, and a cut link stays cut.                      *)
LinksOnlyClimb ==
    [][\A t \in live : parent'[t] # parent[t] =>
         /\ parent[t] # Null
         /\ parent'[t] \in encl[parent[t]] \cup {Null}]_parent

(* The loops over `parent' end, and at one table: no sequence of look-ups  *)
(* closes a cycle of links.                                                *)
LoopsEnd ==
    \A t \in live :
        /\ StopsAt(parent[t], {Null}) = {Null}
        /\ \A n \in Names : \E p \in live \cup {Null} :
             StopsAt(parent[t], GetStops(n)) = {p}

(* While no look-up has moved a link on the way out, get is the lexical    *)
(* scoping rule: innermost declaration, from every depth.                  *)
LexicalWhileLinked ==
    \A t \in live :
        (\A u \in {t} \cup encl[t] : Linked(u)) =>
            \A n \in Names : GetAnswer(t, n) = Lexical(t, n)

(* get alone never makes a program's global invisible: it moves links past *)
(* tables, never off the tree.  (The look-ups of functions do.)            *)
GetKeepsGlobals ==
    [][(\E t \in live, n \in Names : get(t, n)) =>
         \A u \in live, m \in Names :
            GetAnswer(u, m) = Root => GetAnswer(u, m)' = Root]_parent

(* Asking again gives the same answer: the table a get has linked itself   *)
(* to is the one a second get of the name stops at.                        *)
GetIsRepeatable ==
    [][\A t \in live, n \in Names :
         get(t, n) => GetAnswer(t, n)' = GetAnswer(t, n)]_parent

(* The doc comment of get and get_from_qualified_name: a name not found    *)
(* here is looked for in the tables around this one.  Not what get does    *)
(* once an earlier look-up has moved a link past an enclosing table.       *)
GetIsLexical == \A t \in live, n \in Names : GetAnswer(t, n) = Lexical(t, n)

(* The tables implement the scopes of module Scopes.                       *)
Scope == INSTANCE Scopes WITH
    open     <- live,
    declared <- [t \in Tables |-> {n \in Names : Matches(t, n) # {}}],
    answer   <- [t \in Tables |-> [n \in Names |-> GetAnswer(t, n)]]

ImplementsScopes == Scope!Spec

AnswersAreDeclared == Scope!AnswersAreDeclared
=============================================================================
