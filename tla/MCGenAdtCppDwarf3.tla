------------------------- MODULE MCGenAdtCppDwarf3 -------------------------
(***************************************************************************)
(* gen-adt-cpp.py run on the table it is shipped with, spec/dwarf3.py.     *)
(***************************************************************************)
EXTENDS GenAdtCpp, Dwarf3Table

MCSchemas == {Dwarf3Schema}
=============================================================================
