---------------------------- MODULE MCGenAdtCpp ----------------------------
(***************************************************************************)
(* gen-adt-cpp.py over every schema of a small family: two kinds, two      *)
(* categories, attributes A1 A2 known to attr_type_map and AX not, and an  *)
(* undefined base name U.  The family has diamonds (K1 -> C1, C2 with C1   *)
(* -> C2), kind-to-kind bases, cycles, unknown bases and unknown           *)
(* attributes, and uses of one attribute with both mandatory flags.        *)
(***************************************************************************)
EXTENDS GenAdtCpp

CONSTANTS K1, K2, C1, C2, U, A1, A2, AX

K1Choices ==
  {E(K1, a, <<>>, b) :
     a \in {<<>>, <<O(A1)>>, <<M(A1)>>, <<O(AX)>>},
     b \in {<<>>, <<C1>>, <<C2>>, <<C1, C2>>, <<K2>>}}

K2Choices ==
  {E(K2, a, <<K1>>, b) :
     a \in {<<>>, <<O(A2)>>},
     b \in {<<C2>>, <<K1>>}}

C1Choices ==
  {E(C1, a, <<>>, b) :
     a \in {<<>>, <<O(A1)>>, <<M(A1)>>, <<O(A2)>>},
     b \in {<<>>, <<C2>>, <<U>>}}

C2Choices ==
  {E(C2, a, <<>>, b) :
     a \in {<<>>, <<O(A1)>>, <<M(A2)>>, <<M(AX)>>},
     b \in {<<>>, <<C1>>}}

MCSchemas ==
  {[tags |-> <<k1, k2>>, art |-> <<c1, c2>>] :
     k1 \in K1Choices, k2 \in K2Choices, c1 \in C1Choices, c2 \in C2Choices}

MCAttrTypes == {A1, A2}
=============================================================================
