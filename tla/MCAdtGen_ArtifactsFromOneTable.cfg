CONSTANTS
  T1 = T1  T2 = T2  A1 = A1  AR = AR  AF = AF  AU = AU
  TagTables <- MCTagTables
  AttrTypeMap <- MCAttrTypeMap
  StoredKinds <- AdtStoredTypes
SPECIFICATION Spec
INVARIANT ArtifactsFromOneTable
