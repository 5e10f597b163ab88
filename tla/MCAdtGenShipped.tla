-------------------------- MODULE MCAdtGenShipped --------------------------
(***************************************************************************)
(* adt-gen.py's main() over its shipped tables, re-run on the same table.  *)
(* Its classes Die_encap_<tag> derive from spec::<tag>_die, which          *)
(* gen-adt-cpp.py generates from the separate table of spec/dwarf3.py; the *)
(* two copies of the DWARF 3 schema must agree for the encap classes to    *)
(* implement the interfaces they derive from.                              *)
(***************************************************************************)
EXTENDS AdtGen, AdtGenTable, Dwarf3Table

D3TM == Dict(Dwarf3Tags)
D3AM == Dict(Dwarf3ArtificialTags)

\* What gen-adt-cpp.py declares for kind K of spec/dwarf3.py: its own uses
\* and super_attrs(K) (the base closure: the dwarf3 table is acyclic, and
\* on acyclic tables super_attrs is the closure, see MCGenAdtCpp), and its
\* child kinds.
SpecAccessors(K) == ToSet(Get(D3TM, K).attrs) \cup ClosureUses(D3TM, D3AM, K)
SpecChildren(K) == ToSet(Get(D3TM, K).children)

\* dwarf3_tags as shipped is the only table version.
MCShippedTables == {AdtTags}

\* Every generated Die_encap_<tag> class declares an accessor with the same
\* optionality (hence return type) for each attribute accessor, and an
\* iterator pair for each child kind, that the spec::<tag>_die it derives
\* from declares: own and inherited through the dwarf3 categories.
EncapImplementsSpecClasses ==
  pc = "done" =>
    \A x \in DOMAIN files[4] :
      /\ SpecAccessors(files[4][x].tag) \subseteq ToSet(files[4][x].uses)
      /\ SpecChildren(files[4][x].tag) \subseteq ToSet(files[4][x].kids)

\* Spec 2/4.3: the two copies of the attribute catalog agree where it
\* matters.  Every accessor a Die_encap_<tag> class declares returns
\* stored_type_map[attr_type_map[a]] of adt-gen.py's copy, and overrides the
\* accessor gen-adt-cpp.py declares with attr_type_map[a] of spec/dwarf3.py;
\* an override needs the same return type, so for every attribute the
\* encap classes on disk declare, the two tables give the same storage kind
\* (for "type", refdie_is_type, which selects the narrowing getter).
EncapAccessorKindsMatchSpec ==
  \A x \in DOMAIN files[4] : \A u \in ToSet(files[4][x].uses) :
    u[1] \in DOMAIN Dwarf3AttrTypeMap /\ AttrTypeMap[u[1]] = Dwarf3AttrTypeMap[u[1]]
=============================================================================
