------------------------------ MODULE MCWatcher ------------------------------
(* Model values for Watcher. *)
EXTENDS Watcher

CONSTANTS f1, f2

TwoFiles == {f1, f2}
OneFile  == {f1}
==============================================================================
