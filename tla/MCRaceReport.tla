----------------------------- MODULE MCRaceReport -----------------------------
(* Values for RaceReport: goroutines 2 and 3, and 1 where the main goroutine
   may race as well; stacks of no frames and of two; a read and a write, in
   either order, the read by the first goroutine. *)
EXTENDS RaceReport

NoMain    == {2, 3}
WithMain  == {1, 2}
TwoFuncs  == {"f", "g"}
TwoStacks == {<<>>, <<"f", "g">>}

ReadAndWrite ==
  {r \in Report : r.opA # r.opB /\ (r.opA = "read" <=> r.gidA < r.gidB)}

MainFirst == {r \in ReadAndWrite : r.gidA = Main}

(* Each goroutine's stacks in an access and in the other's creation are alike. *)
FewStacks ==
  {r \in ReadAndWrite : r.creationA = r.stackB /\ r.creationB = r.stackA}
==============================================================================
