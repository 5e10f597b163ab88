# TLA+ models of libdwarfpp's schema generators

libdwarfpp derives its C++ DIE classes from a declarative description of
DWARF: tables of entry kinds ("tags"), each with its own attribute uses,
permitted child kinds and direct bases, plus artificial non-instantiable
categories. Python scripts read these tables and print the generated
artifacts: class declarations with inherited ("super") attributes, category
membership predicates, and the tag-to-constructor factory switch.

Everything here is a single-threaded batch program: there is no concurrency
and no network; the only persistent state is the set of generated files
adt-gen.py rewrites on every build. What is hard in this code is elsewhere: a
recursive closure over a multiple-inheritance DAG spread over two tables;
lookups that silently default instead of failing; exceptions that stop a run
after part of its output is printed; and artifacts that are generated by
different scripts from the same tables and must agree with each other. The
models check those, both on every schema of a small family (to reach every
corner of the algorithms) and on the tables that are actually shipped.

## Inventory

| Component | Source | State | Operations |
|---|---|---|---|
| Attribute catalog | `src/spec/dwarf3.py:11-98`, `src/spec/dwarf_current.py:11-99`, `src/adt-gen.py:19-124` | immutable list attr -> storage kind | `attr_type_map[a]` (KeyError when absent) |
| Kind schema, category layer | `src/spec/dwarf3.py:102-175`, `src/spec/dwarf_current.py:103-242`, `src/adt-gen.py:126-190` | immutable lists of `(name, (attrs, children, bases))`; `dict()` of them | `tag_map.get(x, ([],[],[]))`: unknown names read as empty |
| Closure resolver | `src/gen-adt-cpp.py:16-26` `super_attrs` | none (pure recursion) | union of the bases' own uses and their `super_attrs`, over both tables, `set()`-deduplicated |
| Class emitter | `src/gen-adt-cpp.py:28-46` | stdout: forward decls, then per tag a class block | two loops; may raise KeyError / RecursionError part way |
| Predicate emitter | `src/libdwarfpp/gen-tagpreds-cpp.py` | stdout: one predicate per direct base | loop over `set()` of kinds' direct bases; disjuncts = kinds listing the base directly |
| Factory emitter | `src/spec/gen-factory-cpp.py` | stdout: one `factory_case` per tag | loop over `dwarf_current.tags` |
| Encap/abstract emitter and storage-kind mapper | `src/adt-gen.py:192-395` | eight output files opened `w+` in turn | forward decls, class decls, tag specialisations, accessor bodies (optional/mandatory, `refdie` narrowing by `dynamic_pointer_cast`), iterator typedefs, factory cases, ADT interfaces |
| Single-inheritance prototype | `src/adt-gen-simple.py` | — | does not parse (`if ... = None:`, unfinished `print`) |
| Python bindings | `src/libdwarfpp/Old/libdwarfpp_py++.py` | — | drives the external pyplusplus tool |

How they interact: the table modules are imported (`from dwarf3 import *`)
by gen-adt-cpp.py and gen-tagpreds-cpp.py, `dwarf_current` by
gen-factory-cpp.py; adt-gen.py carries its own copy of the tables with the
category lists pre-expanded into each tag. The outputs are macro calls and
C++ fragments `#include`d together by the C++ build: the classes declare
`declare_base(c)` for each direct base, so C++ `is-a` is the transitive base
closure; the predicates and the factory must agree with that hierarchy.

Properties that make each part correct (from spec sections 3, 4, 7, 8):
* resolver: the super attributes of a kind are exactly the uses of its
  transitive bases; own and inherited are disjoint; one use per name;
* emitter: a schema error is fatal and nothing partial is produced; unknown
  bases are rejected; a well-formed schema is generated to the end;
* predicates: `is_c(k)` iff `c` is reachable from `k` (agrees with C++ is-a);
* factory: one case per instantiable kind, none for a category;
* accessors (adt-gen.py): optional getters return absent iff the attribute is
  absent; a type-constrained reference is narrowed with verification.

## Modules

| Module | Models | Variables / actions |
|---|---|---|
| `SchemaTables` | the table representation, `dict()` (last entry wins), `.get` with default, base names, own uses; the spec's reference closure (`Ancestors`, `ClosureUses`, `WellFormed`) | operators only |
| `Dwarf3Table`, `DwarfCurrentTable` | the shipped tables of `spec/dwarf3.py` and `spec/dwarf_current.py`, row by row; dwarf3's `attr_types` with its storage kinds (`Dwarf3AttrTypeMap`, through `PairDict`), dwarf_current's by name only (gen-factory-cpp.py reads only its tags) | operators only |
| `GenAdtCpp` | gen-adt-cpp.py: `SuperAttrs` (RECURSIVE, the code's recursion), `main` | `schema, pc, i, fwd, classes`; `ForwardDecl`, `EndForwardDecls`, `EmitClass` and its three raising variants, `Finish` |
| `GenTagPreds` | gen-tagpreds-cpp.py | `schema, todo, preds`; `EmitPred` (set() order as a choice) |
| `GenFactory` | gen-factory-cpp.py | `schema, i, cases`; `EmitCase` |
| `AdtGenTable` | adt-gen.py's own tables: `stored_types`, `attr_types` (as `PairDict`, last pair wins), the pre-expanded `decl_attrs`/`prog_el_attrs`/`type_attrs` lists and the 57 rows of `dwarf3_tags` | operators only |
| `AdtGen` | adt-gen.py `main` and its `output_*` passes over eight files that persist between runs | `tags, pc, f, p, k, files`; `Open` (mode `w+` truncates), `WriteBlock`, `WriteBlockKeyError`, `NextPass`, `NextFile`, `Finish`, and `Rerun` (the build running the script again, possibly on an edited table) |
| `AttributeStore` | the abstract attribute store of spec 4.5: each slot holds a value, a setter stores its argument (absent included) | `store, call`; `Set` |
| `EncapAccessors` | the getter/setter bodies `output_method_defns` writes (adt-gen.py:272-319): `has_attr`, `put_attr`, `m_attrs.erase`, the `dynamic_pointer_cast` narrowing of `refdie_is_type` | `m, call`; `SetOptional`, `SetMandatory`; refines `AttributeStore` |
| `EffectiveSchemaEmitter` | the abstract class emitter of spec 3/4.3: forward declarations in any order, then one class per kind in table order with its EffectiveSchema (own uses; inherited uses deduplicated by name and without the own names; children unioned over the bases) | `schema, declared, emitted`; `Declare`, `Emit` |
| `Artifacts` | the build: gen-adt-cpp.py, gen-factory-cpp.py and gen-tagpreds-cpp.py as instances `Cls`, `Fac`, `Pred` of their modules, each on the table it imports | the three scripts' variables, renamed; `ClassStep`, `FactoryStep`, `PredStep` |
| `MC*` | instantiations: a small schema family (`MCGenAdtCpp`) or the shipped tables | |

Printed text is abstracted to its content: a class block is a record of its
tag, bases, own uses, super uses, children and whether `end_class` was
reached. An exception ends the run in `pc = "crashed"` with what had been
printed still in the output. A RecursionError is modelled by its cause (a
base cycle reachable from the tag) rather than by a recursion depth, since
the shipped tables are 4 levels deep and Python's limit is 1000. The
`set()` iteration order (fixed in Python 2 but unspecified) is a
nondeterministic choice where it can be observed.

`GenAdtCpp` maps its state to `EffectiveSchemaEmitter` by
`declared <- ToSet(fwd)` and `emitted <-` the completed class blocks as
[tag, own, inherited = super lines, children]; an unfinished block (a crash)
is a stuttering step of the abstract emitter. In `Artifacts` the scripts run
one after another (classes, factory, predicates): they read nothing the
others write, so their steps commute and this order reaches the same final
outputs as any interleaving, while the predicates' set() orders are not
multiplied by the other scripts' positions.

A file of adt-gen.py is abstracted to its sequence of per-tag blocks (the
pass, the tag, the attribute uses it declares accessors for, the child kinds,
whether the block was finished). `Init` starts from files an earlier
successful run generated, so a crash and a rerun can be followed. The
accessors are modelled per slot `<<entry, attribute>>`; the getter of a slot
is the operator `Getter`, which the refinement mapping uses as the abstract
`store`, and `call` records the last setter call so that a setter which
leaves the getters unchanged is still a visible step of the abstract spec.

Fairness: `WF_vars(Next)` for gen-adt-cpp, gen-tagpreds, gen-factory and their composition `Artifacts`: the
scripts are straight-line loops, so every enabled step is eventually taken.
For adt-gen.py it is `WF_vars(Step)`, the script's own steps only: whether
the build runs the script again (`Rerun`) is not up to the script, so it has
no fairness. The accessors have no liveness property and no fairness: a
caller may stop calling them at any time. Terminal states (`done`, `crashed`,
exhausted loops) are the program's exit, hence `CHECK_DEADLOCK FALSE` in
those cfgs; adt-gen.py can always be rerun and the accessors always called,
so their cfgs check deadlock.

## Runs

| Run | Module / cfg | Expect | Shows |
|---|---|---|---|
| adt_closure | MCGenAdtCpp / MCGenAdtCpp.cfg | pass | over 7680 small schemas (diamonds, kind-to-kind bases, cycles, unknown bases and attributes, both flags) `super_attrs` computes the transitive closure, a run that exits normally never had a base cycle or an attribute without a storage kind within reach of a kind (`SchemaErrorsAreFatal`), and every well-formed schema is generated to the end |
| adt_dwarf3 | MCGenAdtCppDwarf3 | pass | on the shipped DWARF 3 table every class has one accessor per attribute, the run completes, and the output refines `EffectiveSchemaEmitter` (PROPERTY `Emitter!Spec`) |
| adt_duplicate_accessor | MCGenAdtCpp_OneAccessorPerAttr.cfg | violation | a kind redeclaring an inherited attribute, or reaching one with both flags, declares two accessors of one name |
| adt_unknown_base | MCGenAdtCpp_UnknownBaseRejected.cfg | violation | an unknown base is silently ignored |
| tagpreds_transitive | MCGenTagPreds / MCGenTagPreds_PredicateIsTransitive.cfg | violation | on the shipped table `is_program_element` misses the 23 kinds that reach it through `type`/`type_chain` |
| artifacts_build | MCArtifacts / MCArtifacts.cfg | pass | in the shipped build (classes and predicates from dwarf3, factory from dwarf_current) every category a kind reaches has a predicate, and the factory switch has one case per kind and none for a category |
| artifacts_factory_classes | MCArtifacts_FactoryCasesMatchClasses.cfg | violation | the factory constructs `rvalue_reference_type`, which has no generated class, and initialises bases the generated classes do not declare |
| adtgen_rerun | MCAdtGen / MCAdtGen.cfg | pass | over 10 table versions (valid, unknown attribute, storage kind missing from `stored_type_map`), any sequence of runs and reruns: a completed run regenerates every file, at most one file is ever torn, and a run over a valid table completes |
| adtgen_torn | MCAdtGen / MCAdtGen_ArtifactsFromOneTable.cfg | violation | a KeyError leaves one file from the new table, one torn, six from the previous run |
| adtgen_shipped | MCAdtGenShipped / MCAdtGenShipped.cfg | pass | on the shipped table the run completes and every `Die_encap_<tag>` class declares each accessor and iterator of the `spec::<tag>_die` it derives from (own and inherited through spec/dwarf3.py's categories), with the same optionality, and with the storage kind dwarf3.py gives it (`EncapAccessorKindsMatchSpec`: adt-gen.py's copy of `attr_types` agrees with the spec's wherever the classes use it) |
| encap_accessors | MCEncapAccessors / MCEncapAccessors.cfg | pass | the generated accessors of a subrange_type, a variable and a base_type implement `AttributeStore` (PROPERTY `Abs!Spec` under the mapping store = getters) |
| encap_narrow_null | MCEncapAccessors_NarrowNull.cfg | violation | a variable whose `type` references a non-type entry: `get_type()` returns an engaged optional holding null |

Bounds. The small family has 2 kinds and 2 categories with one attribute use
each and up to two bases; that is the least that contains a diamond, a
category-to-category chain, a kind-to-kind base, and a 2-cycle (K1 -> K2 -> K1),
and an attribute reached along two paths with different flags. The shipped
tables are checked whole (57 and 58 kinds). For adt-gen.py: two tags and
four attributes (one with a storage kind, one mandatory reference, one of the
kind `"flat"` that `stored_type_map` lacks, one absent from `attr_types`)
give tables that are valid and tables that raise in the class
declarations of the abstract header (a lookup that fails in a later pass
fails there first); the eight files and all passes are kept. For the
accessors: three entries, a type and a non-type among them, with their
shipped uses of `type` (mandatory and optional), `upper_bound` and `name`,
one value and null; every slot kind (optional/mandatory, value/narrowed
reference) occurs, and a reference may point at a type or not. `MCDieTag`
and `MCTypeDies` are written out and tied to the tables by ASSUME.
A plain `refdie` attribute is used by no shipped tag,
so that branch of the code is in the model but not in the instance.

The checks of `AdtGen` use the constant `ValidTables`, so that the liveness
check does not re-evaluate the catalog lookups in every state.

## Findings

See `findings` in PROJECT.json: the resolver deduplicates by
(name, flag) rather than by name and does not subtract own attributes
(both give a class two accessors of one name); unknown bases are ignored; and the predicates of the shipped table are not transitive, so
`is_program_element(DW_TAG_array_type)` is false although
`array_type_die` derives from `program_element_die`. adt-gen.py rewrites
its eight files one by one, and a KeyError in the second leaves the set
mixed (one new, one torn, six stale) against spec 7/8; a rerun on a fixed
table does repair everything. The predicate generator would drop a
category that only categories list as a base;
`EveryReachedCategoryHasPredicate` checks that the shipped table has none.
gen-adt-cpp.py also stops part way on a schema error, with output already
printed; `ValidSchemaCompletes` shows that a well-formed schema never does.
In the shipped build the factory comes from `dwarf_current` and the classes
from `dwarf3` (gen-adt-cpp.py's own FIXME): 21 kinds have other bases and
one kind has no class. The generated optional type getter returns an engaged optional holding null when the
reference is not a type (spec 4.4 asks for verified narrowing).

## Plan

1. (done) `SchemaTables`, the shipped tables, `GenAdtCpp` with the closure
   checked against the reference on a schema family and on dwarf3.
2. (done) `GenTagPreds`, `GenFactory` on the shipped tables.
3. (done) `AdtGen`: main as eight file steps with reruns.
4. (done) `EncapAccessors` refining `AttributeStore`.
5. (done) `Artifacts` composing the three generators of the build, and
   `GenAdtCpp` refining `EffectiveSchemaEmitter`.
6. (done) The two copies of `attr_types` compared where the encap classes
   use them (`EncapAccessorKindsMatchSpec`).  adt-gen.py's factory pass is
   not compared with gen-factory-cpp.py: it builds `Die_encap_<tag>`
   objects, one case per row of its own `dwarf3_tags`, the same loop that
   declares those classes, while gen-factory-cpp.py builds the `spec::`
   classes; the two switches serve different class families and no part of
   the code or the spec asks them to agree.

## Not modelled

* `adt-gen-simple.py`: not valid Python; it cannot run.
* `libdwarfpp_py++.py`: a call to the external pyplusplus generator; pure I/O.
* Text formatting of the outputs (macro names, `#ifdef` wrappers): layout.
* `pluralise` (adt-gen.py:192-197), which names the child iterator
  accessors and the iterator typedefs: it tests a string's last letter and
  appends "s", which decides a C++ identifier and nothing the model's
  properties tell apart.  On the shipped table it maps the 57 tags to 57
  distinct names (only `unspecified_parameters` already ends in "s").
* Reading an absent mandatory attribute through a generated getter: it goes
  through `operator[]` of the encap DIE, which is not in this repository.
* The C++ class bodies of the factory, tag specialisation and iterator
  typedef passes of adt-gen.py beyond their per-tag blocks: text only.
