\* gen-adt-cpp.py over the small schema family, checked against OneAccessorPerAttr: an attribute redeclared by a kind or reached with both flags is declared twice.
CONSTANTS
  K1 = K1
  K2 = K2
  C1 = C1
  C2 = C2
  U = U
  A1 = A1
  A2 = A2
  AX = AX
  Schemas <- MCSchemas
  AttrTypes <- MCAttrTypes
SPECIFICATION Spec
\* The script exits after the last class or on an exception.
CHECK_DEADLOCK FALSE
INVARIANT
  OneAccessorPerAttr
