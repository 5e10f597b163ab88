CONSTANTS
  DS = DS
  DV = DV
  DB = DB
  V1 = V1
  Null = Null
  NoValue = NoValue
  Absent = Absent
  Dies <- MCDies
  DieTag <- MCDieTag
  TypeDies <- MCTypeDies
  AttrKind <- AdtAttrTypeMap
  Vals = {V1}
SPECIFICATION Spec
INVARIANT NarrowedGetterNeverEngagedNull
