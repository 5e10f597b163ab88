\* gen-tagpreds-cpp.py on the shipped DWARF 3 table, checked against the
\* spec's transitive membership predicate.
CONSTANTS
  Schemas <- MCSchemas
SPECIFICATION Spec
\* The script exits when the set of bases is exhausted.
CHECK_DEADLOCK FALSE
INVARIANT
  PredicateIsTransitive
