----------------------------- MODULE MCSymTable -----------------------------
EXTENDS SymTable

(* What an uninitialised sym::mod may hold: something, or by bad luck -1.  *)
MCModValues == {0, Absent}

(* Or, in a build that always finds something else there, never -1.        *)
MCInitialised == {0}
=============================================================================
