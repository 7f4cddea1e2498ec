----------------------------- MODULE MCCorrelator -----------------------------
(* Values for Correlator: lists of at most two races, up to renaming of the
   goroutines; 0 is an access whose goroutine was not read. *)
EXTENDS Correlator

R(id, a, b, test) == [id |-> id, a |-> a, b |-> b, test |-> test]

ThreeGids == {1, 2, 3}
TwoTests  == <<"TestA", "TestB">>

FewRaces == {
  <<>>,
  <<R(1, 1, 2, "")>>,
  <<R(1, 1, 0, "")>>,
  <<R(1, 1, 2, "TestA"), R(2, 3, 1, "TestB")>>}
==============================================================================
