------------------------------ MODULE MCUniqueId ------------------------------
(***************************************************************************)
(* Arrays of three and four partitions, the last of a row enlarged, with   *)
(* ids of a type with eight values: all but one array's ids fit.           *)
(***************************************************************************)
EXTENDS UniqueId

MCConditions ==
    { << <<"true", "true">>, <<"true", "true">>, <<"true", "true", "true">> >>,
      << <<"true", "false">>, <<"no_data", "true">>, <<"true", "no_data", "true">> >>,
      << <<"true", "true", "true">>, <<"true", "true", "true">>, <<"true", "true", "true">> >> }
    \cup
    { << <<a>>, <<b, c>>, <<d>>, <<e, a>> >> :
        a, b, c, d, e \in {"true", "false"} }
=============================================================================
