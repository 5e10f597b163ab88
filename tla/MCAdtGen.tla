------------------------------ MODULE MCAdtGen ------------------------------
(***************************************************************************)
(* adt-gen.py's main() over a family of table versions: two tags, T1 with  *)
(* child T2; attributes A1 (an unsigned), AR (a type reference), AF (of   *)
(* storage kind "flat", which stored_types lacks, like the shipped         *)
(* variable_parameter) and AU (missing from attr_types).  The storage      *)
(* kinds are those of the shipped stored_types.                            *)
(***************************************************************************)
EXTENDS AdtGen, AdtGenTable

CONSTANTS T1, T2, A1, AR, AF, AU

MCTagTables ==
  {<<E(T1, a1, <<T2>>, <<"base">>), E(T2, a2, <<>>, <<"is_type">>)>> :
     a1 \in {<<>>, <<O(A1)>>, <<O(A1), M(AR)>>, <<O(AF)>>, <<O(A1), O(AU)>>},
     a2 \in {<<M(AR)>>, <<O(A1)>>}}

MCAttrTypeMap == (A1 :> "unsigned") @@ (AR :> "refdie_is_type") @@ (AF :> "flat")
=============================================================================
