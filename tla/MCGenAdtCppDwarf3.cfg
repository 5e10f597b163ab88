\* gen-adt-cpp.py on the shipped DWARF 3 table: it runs to the end and every
\* generated class has one accessor per attribute name.
CONSTANTS
  Schemas <- MCSchemas
  AttrTypes <- Dwarf3AttrTypes
SPECIFICATION Spec
\* The script exits after the last class.
CHECK_DEADLOCK FALSE
INVARIANT
  OneAccessorPerAttr
PROPERTIES
  ValidSchemaCompletes
  ImplementsEffectiveSchemaEmitter
