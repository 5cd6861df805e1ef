------------------------------ MODULE MCFirstN ------------------------------
(***************************************************************************)
(* The routes of MCDecreasingOrder, and walks along none, some and all of  *)
(* their cells: walks that stop within a fragment, at the end of one, and  *)
(* at the end of a route.                                                  *)
(***************************************************************************)
EXTENDS FirstN, MCDecreasingOrder

=============================================================================
