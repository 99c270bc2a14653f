------------------------------- MODULE Scopes -------------------------------
(***************************************************************************)
(* What the symbol tables promise to the passes that use them, with no     *)
(* links, no order and no loops: a tree of scopes that only grows, and for *)
(* every scope and name an answer to "which scope's symbol does get give   *)
(* back here?".                                                            *)
(*                                                                         *)
(* The answer is always a scope around the one that asks, and one that     *)
(* declares the name.  It is deliberately not "the innermost such scope":  *)
(* a look-up may forget intermediate scopes.  What it may not do is        *)
(* anything else: it changes answers only for the scopes inside the one it *)
(* is asked of, and only outwards (or to "no such symbol").                *)
(***************************************************************************)
CONSTANTS Tables, Root, Null, Names

VARIABLES
    open,         \* the scopes that exist
    encl,         \* the scopes around each scope
    declared,     \* the names declared in each scope
    answer        \* answer[t][n]: the scope whose n is seen from t, or Null

vars == <<open, encl, declared, answer>>

Around(t) == {t} \cup encl[t]

Inside(t) == {u \in open : t \in Around(u)}

Init ==
    /\ open = {Root}
    /\ encl = [t \in Tables |-> {}]
    /\ declared = [t \in Tables |-> {}]
    /\ answer = [t \in Tables |-> [n \in Names |-> Null]]

(* A new scope is empty, and sees exactly what the scope around it sees.   *)
Open(t) ==
    \E c \in Tables \ open :
        /\ open' = open \cup {c}
        /\ UNCHANGED declared
        /\ encl' = [encl EXCEPT ![c] = Around(t)]
        /\ answer' = [answer EXCEPT ![c] = answer[t]]

(* A declaration of n in t is seen by t and by the scopes inside it, unless *)
(* they see a closer one.  (It may instead hide the n of t: the mark that  *)
(* tells a symbol from none is never initialised.)                         *)
Declare(t, n) ==
    /\ UNCHANGED <<open, encl>>
    /\ declared' = [declared EXCEPT ![t] = @ \cup {n}]
    /\ \A u \in Tables, m \in Names :
         \/ answer'[u][m] = answer[u][m]
         \/ /\ m = n /\ u \in Inside(t)
            /\ answer'[u][m] \in Around(t) \cup {Null}
    /\ answer' \in [Tables -> [Names -> Tables \cup {Null}]]

(* A look-up made from t.                                                  *)
Lookup(t) ==
    /\ UNCHANGED <<open, encl, declared>>
    /\ \A u \in Tables, m \in Names :
         \/ answer'[u][m] = answer[u][m]
         \/ /\ u \in Inside(t)
            /\ answer[u][m] # Null
            /\ answer'[u][m] \in encl[answer[u][m]] \cup {Null}
    /\ answer' \in [Tables -> [Names -> Tables \cup {Null}]]

Next ==
    \E t \in open :
        \/ Lookup(t)
        \/ Open(t)
        \/ \E n \in Names : Declare(t, n)

Spec == Init /\ [][Next]_vars

-----------------------------------------------------------------------------
(* Follows from Spec: every answer is a scope around the asker that        *)
(* declares the name.                                                      *)
AnswersAreDeclared ==
    \A t \in open, n \in Names :
        answer[t][n] # Null => answer[t][n] \in Around(t) /\ n \in declared[answer[t][n]]
=============================================================================
