-------------------------- MODULE MCDecreasingOrder --------------------------
(***************************************************************************)
(* Three partitions.  Routes visit partitions more than once, values are   *)
(* equal in and between partitions, partitions and zones lack values.      *)
(***************************************************************************)
EXTENDS DecreasingOrder

MCPartitions == {"p1", "p2", "p3"}

TwoZones == {"a", "b"}

InputOf(a1, a2, a3, b1, b2, b3) ==
    [x \in MCPartitions \X TwoZones |->
        IF x[2] = "a" THEN (CASE x[1] = "p1" -> a1 [] x[1] = "p2" -> a2 [] x[1] = "p3" -> a3)
        ELSE (CASE x[1] = "p1" -> b1 [] x[1] = "p2" -> b2 [] x[1] = "p3" -> b3)]

ZonalInputs ==
    { InputOf(<<3, 5>>, <<4, 2>>, <<1>>, <<2>>, <<6, 2>>, <<>>),
      InputOf(<<4, 2>>, <<4, 3>>, <<>>, <<>>, <<1>>, <<>>),
      InputOf(<<2, 2>>, <<4>>, <<3, 2, 1, 0>>, <<>>, <<>>, <<>>) }

LowestInteger == -100

=============================================================================
