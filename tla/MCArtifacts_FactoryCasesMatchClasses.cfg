\* The shipped build: does every factory case construct a class that
\* gen-adt-cpp.py declared, with the same bases?
CONSTANTS
  ClassSchema <- Dwarf3Schema
  PredSchema <- Dwarf3Schema
  FactorySchema <- DwarfCurrentSchema
  AttrTypes <- Dwarf3AttrTypes
SPECIFICATION Spec
\* The build ends when the last script exits.
CHECK_DEADLOCK FALSE
INVARIANT
  FactoryCasesMatchClasses
