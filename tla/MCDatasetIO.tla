----------------------------- MODULE MCDatasetIO -----------------------------
(***************************************************************************)
(* Reads and writes of the same dataset by two processes.                  *)
(***************************************************************************)
EXTENDS DatasetIO

At12 == <<"l1", "l2">>
At21 == <<"l2", "l1">>

MCLocalities == {"l1", "l2"}

Call_(op, kind, at) == [op |-> op, kind |-> kind, at |-> at]

(* A program that reads twice before it writes, and between writes, with   *)
(* properties of both kinds.                                               *)
MixedCalls ==
    << Call_("from", "variable", At12), Call_("from", "constant", At21),
       Call_("to", "constant", At12), Call_("to", "variable", At21),
       Call_("from", "constant", At12), Call_("from", "variable", At12),
       Call_("to", "constant", At12) >>
=============================================================================
