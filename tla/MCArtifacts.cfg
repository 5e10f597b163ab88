\* The shipped build: classes and predicates from spec/dwarf3.py, the
\* factory from spec/dwarf_current.py; each output is correct on its own.
CONSTANTS
  ClassSchema <- Dwarf3Schema
  PredSchema <- Dwarf3Schema
  FactorySchema <- DwarfCurrentSchema
  AttrTypes <- Dwarf3AttrTypes
SPECIFICATION Spec
\* The build ends when the last script exits.
CHECK_DEADLOCK FALSE
INVARIANTS
  TypeOK
  EveryReachedCategoryHasPredicate
  FactoryIsDispatchTable
