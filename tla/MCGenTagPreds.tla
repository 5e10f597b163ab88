--------------------------- MODULE MCGenTagPreds ---------------------------
(***************************************************************************)
(* gen-tagpreds-cpp.py run on the table it is shipped with, spec/dwarf3.py.*)
(***************************************************************************)
EXTENDS GenTagPreds, Dwarf3Table

MCSchemas == {Dwarf3Schema}
=============================================================================
