---------------------------- MODULE MCTraceParser ----------------------------
(* Values for TraceParser: a goroutine's own stack is its entry function, in a
   Go or an assembly file; a spawner's stack leads to a test or does not. *)
EXTENDS TraceParser

Entry1  == [fn |-> [pkg |-> "user", name |-> "TestA", rest |-> "func1"], go |-> TRUE]
Worker  == [fn |-> [pkg |-> "user", name |-> "work", rest |-> ""], go |-> TRUE]
Asm     == [Worker EXCEPT !.go = FALSE]
TestA   == [fn |-> [pkg |-> "user", name |-> "TestA", rest |-> ""], go |-> TRUE]
TRunner == [fn |-> [pkg |-> "testing", name |-> "tRunner", rest |-> ""], go |-> TRUE]

TwoGids == {1, 2}
OwnStacks == {<<>>, <<Worker>>, <<Asm>>}
SpawnerStacks == {<<>>, <<TRunner>>, <<Asm, Entry1, TRunner>>}
==============================================================================
