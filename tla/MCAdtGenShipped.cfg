CONSTANTS
  TagTables <- MCShippedTables
  AttrTypeMap <- AdtAttrTypeMap
  StoredKinds <- AdtStoredTypes
SPECIFICATION Spec
INVARIANTS EncapImplementsSpecClasses EncapAccessorKindsMatchSpec
PROPERTY ValidRunCompletes
