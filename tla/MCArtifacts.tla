---------------------------- MODULE MCArtifacts ----------------------------
(***************************************************************************)
(* The artifact set of the shipped scripts: gen-adt-cpp.py and            *)
(* gen-tagpreds-cpp.py import spec/dwarf3.py, gen-factory-cpp.py imports   *)
(* spec/dwarf_current.py.                                                  *)
(***************************************************************************)
EXTENDS Artifacts, Dwarf3Table, DwarfCurrentTable
=============================================================================
