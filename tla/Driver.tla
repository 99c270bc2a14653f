------------------------------- MODULE Driver -------------------------------
(***************************************************************************)
(* The driver (Du_Main, src/src/runner.cc): the phases of a compilation    *)
(* and what stops them, with the two files they leave, output.o and a.out, *)
(* whose names are fixed.  Several compilations share a directory, one     *)
(* after the other or at the same time, and any of them may be killed.     *)
(*                                                                         *)
(* The phases are modelled by what the driver sees of them: errors that    *)
(* are counted, exceptions nobody catches, and a module that the verifier  *)
(* and the linker take or refuse.  How the phases come to that is the      *)
(* subject of StmtParser, Sema and Codegen.  The linker and the shell are  *)
(* external.                                                               *)
(***************************************************************************)
EXTENDS Naturals

CONSTANTS
    Compilations,   \* runs of the compiler, in one directory
    MaxNodes,       \* bound: nodes of a program
    None            \* no file; nothing executed

Modules == {"whole", "unresolved", "rejected"}
Objects == [by : Compilations, whole : BOOLEAN, module : Modules]

ASSUME DriverAssumption == MaxNodes \in Nat /\ None \notin Compilations \cup Objects

VARIABLES
    phase,          \* what the compilation does next
    run,            \* was it called with -run ?
    error_count,    \* file.error_count
    nodes,          \* nodes of the tree visited so far
    module,         \* what TheModule has become
    exit,           \* how the process ended
    executed,       \* the compilation whose program ./a.out was
    object,         \* output.o
    exe,            \* a.out: the compilation whose program it is
    made,           \* history: it wrote its whole object file
    disturbed       \* history: another one touched a file after it had

mine  == <<run, error_count, nodes, module>>
files == <<object, exe, disturbed>>
vars  == <<phase, mine, exit, executed, files, made>>

-----------------------------------------------------------------------------
Goes(c, to)     == phase' = [phase EXCEPT ![c] = to] /\ UNCHANGED exit
(* (A slip: the code is returned and the phases go on.)                    *)
End_lost(c, how) == exit' = [exit EXCEPT ![c] = how] /\ UNCHANGED phase
End(c, how)      == phase' = [phase EXCEPT ![c] = "ended"] /\ exit' = [exit EXCEPT ![c] = how]

NoFile == UNCHANGED <<executed, files, made>>

(* handle_file, and the commands after the name of the file.               *)
HandleFile(c) ==
    /\ phase[c] = "idle"
    /\ \/ Goes(c, "extension")
       \/ End(c, "1")                               \* FILE NOT FOUND: exit(1)
    /\ \E r \in BOOLEAN : run' = [run EXCEPT ![c] = r]
    /\ UNCHANGED <<error_count, nodes, module>> /\ NoFile

CheckExtension(c) ==
    /\ phase[c] = "extension"
    /\ Goes(c, "parse") \/ End(c, "thrown")         \* not du: runtime_error
    /\ UNCHANGED mine /\ NoFile

Parse(c) ==
    /\ phase[c] = "parse"
    /\ \/ Goes(c, "check") /\ UNCHANGED error_count
       \/ End(c, "1") /\ error_count' = [error_count EXCEPT ![c] = @ + 1]
       \/ End(c, "thrown") /\ UNCHANGED error_count
    /\ UNCHANGED <<run, nodes, module>> /\ NoFile

(* One node of tree::evaluate: it is checked, and compiled at once, even   *)
(* after an error.                                                         *)
Worse(m, n) == IF "rejected" \in {m, n} THEN "rejected" ELSE IF "unresolved" \in {m, n} THEN "unresolved" ELSE "whole"

VisitNode(c) ==
    /\ phase[c] = "check" /\ nodes[c] < MaxNodes
    /\ \E errors \in {0, 1}, m \in Modules :
          /\ error_count' = [error_count EXCEPT ![c] = @ + errors]
          /\ module' = [module EXCEPT ![c] = Worse(@, m)]
    /\ nodes' = [nodes EXCEPT ![c] = @ + 1]
    /\ Goes(c, "check") /\ UNCHANGED run /\ NoFile

(* A check throws, or the generator does, or follows a null handle.        *)
VisitCrashes(c) ==
    /\ phase[c] = "check" /\ nodes[c] < MaxNodes
    /\ End(c, "thrown") /\ UNCHANGED mine /\ NoFile

(* (A slip: the second test of error_count is missing.)                    *)
HasErrors_never(c) == FALSE
HasErrors(c)       == error_count[c] > 0

Checked(c) ==
    /\ phase[c] = "check"
    /\ IF HasErrors(c) THEN End(c, "1") ELSE Goes(c, "verify")
    /\ UNCHANGED mine /\ NoFile

-----------------------------------------------------------------------------
(* create_object_file: whatever it returns, Link is next.                  *)
Touches(c) == disturbed' = [d \in Compilations |-> disturbed[d] \/ (d # c /\ phase[d] \in {"emit", "link", "run"})]

Verify(c) ==
    /\ phase[c] = "verify"
    /\ \/ Goes(c, "link")                           \* no target: returns 1
       \/ Goes(c, IF module[c] = "rejected" THEN "link" ELSE "open")
    /\ UNCHANGED mine /\ NoFile

(* To open the file is to empty it.                                        *)
(* (A slip: it is opened to be written over.)                              *)
Emptied_kept(c) == IF object = None THEN [by |-> c, whole |-> FALSE, module |-> module[c]] ELSE object
Emptied(c)      == [by |-> c, whole |-> FALSE, module |-> module[c]]

OpenFails(c) ==
    /\ phase[c] = "open" /\ Goes(c, "link") /\ UNCHANGED mine /\ NoFile

Open(c) ==
    /\ phase[c] = "open" /\ Goes(c, "emit")
    /\ object' = Emptied(c) /\ Touches(c)
    /\ UNCHANGED <<mine, exe, executed, made>>

(* What is written at the same time as by another one may be a mixture.    *)
Written(c) == {o \in Objects : o.by = c /\ o.module = module[c] /\ (object.by = c => o.whole)}

Emit(c) ==
    /\ phase[c] = "emit" /\ Goes(c, "link")
    /\ object' \in Written(c) /\ Touches(c)
    /\ made' = [made EXCEPT ![c] = TRUE]
    /\ UNCHANGED <<mine, exe, executed>>

(* The target has no such file, and 1 is returned; or the disk is full and *)
(* LLVM gives up.                                                          *)
EmitFails(c) ==
    /\ phase[c] = "emit" /\ (Goes(c, "link") \/ End(c, "aborted"))
    /\ UNCHANGED mine /\ NoFile

(* Link, external: without an object file there is nothing to do, and      *)
(* otherwise a.out is made anew or is gone.                                *)
Linked(o) == IF o = None THEN exe ELSE IF o.whole /\ o.module = "whole" THEN o.by ELSE None

Link(c) ==
    /\ phase[c] = "link" /\ Goes(c, "run")
    /\ exe' = Linked(object) /\ Touches(c)
    /\ UNCHANGED <<mine, object, executed, made>>

(* GetLinkerCommand, of a host of 32 bits.                                 *)
LinkAborts(c) == phase[c] = "link" /\ End(c, "aborted") /\ UNCHANGED mine /\ NoFile

(* -run: ./a.out, whatever it is.  Then 0 is returned, whatever it says.   *)
Run(c) ==
    /\ phase[c] = "run" /\ End(c, "0")
    /\ executed' = [executed EXCEPT ![c] = IF run[c] THEN exe ELSE None]
    /\ UNCHANGED <<mine, files, made>>

Kill(c) ==
    /\ phase[c] \notin {"idle", "ended"} /\ End(c, "killed") /\ UNCHANGED mine /\ NoFile

-----------------------------------------------------------------------------
Init ==
    /\ phase = [c \in Compilations |-> "idle"]
    /\ run = [c \in Compilations |-> FALSE]
    /\ error_count = [c \in Compilations |-> 0]
    /\ nodes = [c \in Compilations |-> 0]
    /\ module = [c \in Compilations |-> "whole"]
    /\ exit = [c \in Compilations |-> "none"]
    /\ executed = [c \in Compilations |-> None]
    /\ object = None /\ exe = None
    /\ made = [c \in Compilations |-> FALSE]
    /\ disturbed = [c \in Compilations |-> FALSE]

Step(c) ==
    \/ HandleFile(c) \/ CheckExtension(c) \/ Parse(c)
    \/ VisitNode(c) \/ VisitCrashes(c) \/ Checked(c)
    \/ Verify(c) \/ OpenFails(c) \/ Open(c) \/ Emit(c) \/ EmitFails(c)
    \/ Link(c) \/ LinkAborts(c) \/ Run(c) \/ Kill(c)

Next == \E c \in Compilations : Step(c)

DriverSpec == Init /\ [][Next]_vars

-----------------------------------------------------------------------------
Phases == {"idle", "extension", "parse", "check", "verify", "open", "emit", "link", "run", "ended"}
Exits  == {"none", "0", "1", "thrown", "aborted", "killed"}

(* Type invariant.  Only a process that has ended has an exit code, and    *)
(* what it executed.                                                       *)
DriverTypeOK ==
    /\ phase \in [Compilations -> Phases] /\ exit \in [Compilations -> Exits]
    /\ run \in [Compilations -> BOOLEAN] /\ error_count \in [Compilations -> Nat]
    /\ nodes \in [Compilations -> 0..MaxNodes] /\ module \in [Compilations -> Modules]
    /\ executed \in [Compilations -> Compilations \cup {None}]
    /\ object \in Objects \cup {None} /\ exe \in Compilations \cup {None}
    /\ made \in [Compilations -> BOOLEAN] /\ disturbed \in [Compilations -> BOOLEAN]
    /\ \A c \in Compilations : phase[c] = "ended" <=> exit[c] # "none"

(* A program with an error, though code is generated for its nodes before  *)
(* and after it, reaches neither file, and its compilation does not return *)
(* 0: the two tests of file.error_count in Du_Main.                        *)
ErrorsReachNoFile ==
    \A c \in Compilations : error_count[c] > 0 =>
        /\ exit[c] # "0"
        /\ object # None => object.by # c
        /\ exe # c /\ \A d \in Compilations : executed[d] # c

(* A compilation that wrote its object, that no other one came between,    *)
(* runs its own program, whatever those before it have left behind; if the *)
(* linker refuses it, it runs none.  (One that did not may run another's.) *)
RunsItsOwnProgram ==
    \A c \in Compilations : exit[c] = "0" /\ run[c] /\ made[c] /\ ~disturbed[c] =>
        executed[c] = IF module[c] = "whole" THEN c ELSE None
=============================================================================
