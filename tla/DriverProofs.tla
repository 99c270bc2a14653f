---------------------------- MODULE DriverProofs ----------------------------
(***************************************************************************)
(* For any number of compilations and nodes: the state of the driver keeps *)
(* its type, a program with an error reaches neither file, and an          *)
(* undisturbed compilation that wrote its object runs its own program.     *)
(*                                                                         *)
(* None of the last two is inductive.  For the first one needs that a      *)
(* compilation has touched no file as long as it still checks (Untouched); *)
(* for the second, which file is known to be its own in which phase (Owns).*)
(***************************************************************************)
EXTENDS Driver, TLAPS

Early == {"idle", "extension", "parse", "check"}

Untouched(c) ==
    /\ object # None => object.by # c
    /\ exe # c /\ \A d \in Compilations : executed[d] # c

ErrorsInv ==
    \A c \in Compilations :
        /\ phase[c] \in Early => Untouched(c)
        /\ error_count[c] > 0 => phase[c] \in {"check", "ended"} /\ exit[c] # "0" /\ Untouched(c)

Program(c) == IF module[c] = "whole" THEN c ELSE None

OwnsHis(c) ==
    /\ phase[c] = "emit" /\ ~disturbed[c] => object # None /\ object.by = c
    /\ made[c] => phase[c] \in {"link", "run", "ended"}
    /\ made[c] /\ ~disturbed[c] =>
          /\ phase[c] = "link" => object = [by |-> c, whole |-> TRUE, module |-> module[c]]
          /\ phase[c] = "run" => exe = Program(c)
          /\ exit[c] = "0" /\ run[c] => executed[c] = Program(c)

Owns == \A c \in Compilations : OwnsHis(c)

-----------------------------------------------------------------------------
(* The state of every compilation, and the two files, keep their types.    *)
THEOREM DriverTypeCorrect == DriverSpec => []DriverTypeOK
<1>1. Init => DriverTypeOK
  BY DriverAssumption DEF Init, DriverTypeOK, Phases, Exits, Modules
<1>2. DriverTypeOK /\ [Next]_vars => DriverTypeOK'
  <2> SUFFICES ASSUME DriverTypeOK, [Next]_vars PROVE DriverTypeOK'
    OBVIOUS
  <2> USE DriverAssumption DEF DriverTypeOK, Phases, Exits, Modules, Objects, Goes, End, NoFile, mine, files
  <2>1. ASSUME NEW c \in Compilations, HandleFile(c) PROVE DriverTypeOK'
    BY <2>1 DEF HandleFile
  <2>2. ASSUME NEW c \in Compilations, CheckExtension(c) PROVE DriverTypeOK'
    BY <2>2 DEF CheckExtension
  <2>3. ASSUME NEW c \in Compilations, Parse(c) PROVE DriverTypeOK'
    BY <2>3 DEF Parse
  <2>4. ASSUME NEW c \in Compilations, VisitNode(c) PROVE DriverTypeOK'
    BY <2>4 DEF VisitNode, Worse
  <2>5. ASSUME NEW c \in Compilations, VisitCrashes(c) PROVE DriverTypeOK'
    BY <2>5 DEF VisitCrashes
  <2>6. ASSUME NEW c \in Compilations, Checked(c) PROVE DriverTypeOK'
    BY <2>6 DEF Checked
  <2>7. ASSUME NEW c \in Compilations, Verify(c) PROVE DriverTypeOK'
    BY <2>7 DEF Verify
  <2>8. ASSUME NEW c \in Compilations, OpenFails(c) PROVE DriverTypeOK'
    BY <2>8 DEF OpenFails
  <2>9. ASSUME NEW c \in Compilations, Open(c) PROVE DriverTypeOK'
    BY <2>9 DEF Open, Emptied, Touches
  <2>10. ASSUME NEW c \in Compilations, Emit(c) PROVE DriverTypeOK'
    BY <2>10 DEF Emit, Written, Touches
  <2>11. ASSUME NEW c \in Compilations, EmitFails(c) PROVE DriverTypeOK'
    BY <2>11 DEF EmitFails
  <2>12. ASSUME NEW c \in Compilations, Link(c) PROVE DriverTypeOK'
    BY <2>12 DEF Link, Linked, Touches
  <2>13. ASSUME NEW c \in Compilations, LinkAborts(c) PROVE DriverTypeOK'
    BY <2>13 DEF LinkAborts
  <2>14. ASSUME NEW c \in Compilations, Run(c) PROVE DriverTypeOK'
    BY <2>14 DEF Run
  <2>15. ASSUME NEW c \in Compilations, Kill(c) PROVE DriverTypeOK'
    BY <2>15 DEF Kill
  <2>16. CASE UNCHANGED vars
    BY <2>16 DEF vars
  <2>17. QED
    BY <2>1, <2>2, <2>3, <2>4, <2>5, <2>6, <2>7, <2>8, <2>9, <2>10, <2>11, <2>12, <2>13, <2>14, <2>15, <2>16
       DEF Next, Step
<1>3. QED
  BY <1>1, <1>2, PTL DEF DriverSpec

(* A program with an error reaches neither output.o nor a.out, and its     *)
(* compilation does not return 0.                                          *)
THEOREM ErrorsReachNoFileCorrect == DriverSpec => []ErrorsReachNoFile
<1>1. Init => ErrorsInv
  <2> SUFFICES ASSUME Init, NEW c \in Compilations
               PROVE  /\ phase[c] \in Early => Untouched(c)
                      /\ error_count[c] > 0 => phase[c] \in {"check", "ended"} /\ exit[c] # "0" /\ Untouched(c)
    BY DEF ErrorsInv
  <2>1. error_count[c] = 0
    BY DEF Init
  <2>2. Untouched(c)
    BY DriverAssumption DEF Init, Untouched
  <2>3. QED
    BY <2>1, <2>2
<1>2. DriverTypeOK /\ ErrorsInv /\ [Next]_vars => ErrorsInv'
  <2> SUFFICES ASSUME DriverTypeOK, ErrorsInv, [Next]_vars PROVE ErrorsInv'
    OBVIOUS
  <2> USE DriverAssumption DEF DriverTypeOK, Phases, Exits, Modules, Objects, Goes, End, NoFile, mine, files, ErrorsInv, Untouched, Early
  <2>1. ASSUME NEW c \in Compilations, HandleFile(c) PROVE ErrorsInv'
    BY <2>1 DEF HandleFile
  <2>2. ASSUME NEW c \in Compilations, CheckExtension(c) PROVE ErrorsInv'
    BY <2>2 DEF CheckExtension
  <2>3. ASSUME NEW c \in Compilations, Parse(c) PROVE ErrorsInv'
    BY <2>3 DEF Parse
  <2>4. ASSUME NEW c \in Compilations, VisitNode(c) PROVE ErrorsInv'
    BY <2>4 DEF VisitNode
  <2>5. ASSUME NEW c \in Compilations, VisitCrashes(c) PROVE ErrorsInv'
    BY <2>5 DEF VisitCrashes
  <2>6. ASSUME NEW c \in Compilations, Checked(c) PROVE ErrorsInv'
    BY <2>6 DEF Checked, HasErrors
  <2>7. ASSUME NEW c \in Compilations, Verify(c) PROVE ErrorsInv'
    BY <2>7 DEF Verify
  <2>8. ASSUME NEW c \in Compilations, OpenFails(c) PROVE ErrorsInv'
    BY <2>8 DEF OpenFails
  <2>9. ASSUME NEW c \in Compilations, Open(c) PROVE ErrorsInv'
    BY <2>9 DEF Open, Emptied, Touches
  <2>10. ASSUME NEW c \in Compilations, Emit(c) PROVE ErrorsInv'
    BY <2>10 DEF Emit, Written, Touches
  <2>11. ASSUME NEW c \in Compilations, EmitFails(c) PROVE ErrorsInv'
    BY <2>11 DEF EmitFails
  <2>12. ASSUME NEW c \in Compilations, Link(c) PROVE ErrorsInv'
    BY <2>12 DEF Link, Linked, Touches
  <2>13. ASSUME NEW c \in Compilations, LinkAborts(c) PROVE ErrorsInv'
    BY <2>13 DEF LinkAborts
  <2>14. ASSUME NEW c \in Compilations, Run(c) PROVE ErrorsInv'
    BY <2>14 DEF Run
  <2>15. ASSUME NEW c \in Compilations, Kill(c) PROVE ErrorsInv'
    BY <2>15 DEF Kill
  <2>16. CASE UNCHANGED vars
    BY <2>16 DEF vars
  <2>17. QED
    BY <2>1, <2>2, <2>3, <2>4, <2>5, <2>6, <2>7, <2>8, <2>9, <2>10, <2>11, <2>12, <2>13, <2>14, <2>15, <2>16
       DEF Next, Step
<1>3. ErrorsInv /\ DriverTypeOK => ErrorsReachNoFile
  BY DriverAssumption DEF ErrorsInv, Untouched, Early, ErrorsReachNoFile, DriverTypeOK
<1>4. QED
  BY <1>1, <1>2, <1>3, DriverTypeCorrect, PTL DEF DriverSpec

(* A compilation that wrote its object, undisturbed, runs its own program. *)
THEOREM RunsItsOwnProgramCorrect == DriverSpec => []RunsItsOwnProgram
<1>1. Init => Owns
  BY DriverAssumption DEF Init, Owns, OwnsHis, Program
<1>2. DriverTypeOK /\ Owns /\ [Next]_vars => Owns'
  <2> SUFFICES ASSUME DriverTypeOK, Owns, [Next]_vars PROVE Owns'
    OBVIOUS
  <2> USE DriverAssumption DEF DriverTypeOK, Phases, Exits, Modules, Objects, Goes, End, NoFile, mine, files, Owns, OwnsHis, Program
  <2>1. ASSUME NEW c \in Compilations, HandleFile(c) PROVE Owns'
    BY <2>1 DEF HandleFile
  <2>2. ASSUME NEW c \in Compilations, CheckExtension(c) PROVE Owns'
    BY <2>2 DEF CheckExtension
  <2>3. ASSUME NEW c \in Compilations, Parse(c) PROVE Owns'
    BY <2>3 DEF Parse
  <2>4. ASSUME NEW c \in Compilations, VisitNode(c) PROVE Owns'
    BY <2>4 DEF VisitNode
  <2>5. ASSUME NEW c \in Compilations, VisitCrashes(c) PROVE Owns'
    BY <2>5 DEF VisitCrashes
  <2>6. ASSUME NEW c \in Compilations, Checked(c) PROVE Owns'
    BY <2>6 DEF Checked, HasErrors
  <2>7. ASSUME NEW c \in Compilations, Verify(c) PROVE Owns'
    BY <2>7 DEF Verify
  <2>8. ASSUME NEW c \in Compilations, OpenFails(c) PROVE Owns'
    BY <2>8 DEF OpenFails
  <2>9. ASSUME NEW c \in Compilations, Open(c) PROVE Owns'
    <3>1. object' \in Objects /\ object'.by = c
      BY <2>9 DEF Open, Emptied
    <3>2. object' # None
      BY <3>1
    <3>3. QED
      BY <2>9, <3>1, <3>2 DEF Open, Touches
  <2>10. ASSUME NEW c \in Compilations, Emit(c) PROVE Owns'
    BY <2>10 DEF Emit, Written, Touches
  <2>11. ASSUME NEW c \in Compilations, EmitFails(c) PROVE Owns'
    BY <2>11 DEF EmitFails
  <2>12. ASSUME NEW c \in Compilations, Link(c) PROVE Owns'
    <3>1. made[c] /\ ~disturbed[c] => exe' = Program(c)
      <4> SUFFICES ASSUME made[c], ~disturbed[c] PROVE exe' = Program(c)
        OBVIOUS
      <4>1. object = [by |-> c, whole |-> TRUE, module |-> module[c]]
        BY <2>12 DEF Link
      <4>2. object \in Objects
        BY <4>1
      <4>3. object # None /\ object.by = c /\ object.whole /\ object.module = module[c]
        BY <4>1, <4>2
      <4>4. QED
        BY <2>12, <4>3 DEF Link, Linked
    <3>2. /\ phase'[c] = "run" /\ exit'[c] = exit[c] /\ exit[c] # "0" /\ disturbed'[c] = disturbed[c] /\ made' = made
          /\ run' = run /\ module' = module /\ executed' = executed /\ object' = object
      BY <2>12 DEF Link, Touches
    <3>3. OwnsHis(c)'
      BY <3>1, <3>2
    <3>4. ASSUME NEW d \in Compilations \ {c} PROVE OwnsHis(d)'
      <4>1. OwnsHis(d)
        BY DEF Owns
      <4>2. CASE phase[d] \in {"emit", "link", "run"}
        <5>1. disturbed'[d] = TRUE /\ phase'[d] = phase[d] /\ made'[d] = made[d] /\ exit'[d] = exit[d]
          BY <2>12, <4>2 DEF Link, Touches
        <5>2. exit'[d] # "0"
          BY <5>1, <4>2
        <5>3. QED
          BY <5>1, <5>2, <4>1, <4>2
      <4>3. CASE phase[d] \notin {"emit", "link", "run"}
        <5>1. /\ phase'[d] = phase[d] /\ made'[d] = made[d] /\ exit'[d] = exit[d] /\ disturbed'[d] = disturbed[d]
              /\ run'[d] = run[d] /\ module'[d] = module[d] /\ executed'[d] = executed[d]
          BY <2>12, <4>3 DEF Link, Touches
        <5>2. QED
          BY <5>1, <4>1, <4>3
      <4>4. QED
        BY <4>2, <4>3
    <3>5. QED
      BY <3>3, <3>4 DEF Owns
  <2>13. ASSUME NEW c \in Compilations, LinkAborts(c) PROVE Owns'
    BY <2>13 DEF LinkAborts
  <2>14. ASSUME NEW c \in Compilations, Run(c) PROVE Owns'
    BY <2>14 DEF Run
  <2>15. ASSUME NEW c \in Compilations, Kill(c) PROVE Owns'
    BY <2>15 DEF Kill
  <2>16. CASE UNCHANGED vars
    BY <2>16 DEF vars
  <2>17. QED
    BY <2>1, <2>2, <2>3, <2>4, <2>5, <2>6, <2>7, <2>8, <2>9, <2>10, <2>11, <2>12, <2>13, <2>14, <2>15, <2>16
       DEF Next, Step
<1>3. Owns /\ DriverTypeOK => RunsItsOwnProgram
  BY DriverAssumption DEF Owns, OwnsHis, Program, RunsItsOwnProgram, DriverTypeOK
<1>4. QED
  BY <1>1, <1>2, <1>3, DriverTypeCorrect, PTL DEF DriverSpec
=============================================================================
