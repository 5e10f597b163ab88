----------------------------- MODULE GenAdtCpp -----------------------------
(***************************************************************************)
(* gen-adt-cpp.py: the class generator.  main() prints one forward_decl    *)
(* line per tag, then for each tag a begin_class(tag, bases) block with an *)
(* attr_<optional|mandatory> line per own attribute use, a super_attr_...  *)
(* line per use returned by super_attrs(tag), a child_tag line per child   *)
(* and end_class.                                                          *)
(*                                                                         *)
(* The printed text is abstracted to its content: `fwd` is the sequence of *)
(* forward-declared names, `classes` one record per begun class block.     *)
(* A Python exception ends the run (pc = "crashed") with what was already  *)
(* printed left in the output: a KeyError from attr_type_map[attr] on an   *)
(* attribute missing from the attribute table, a RecursionError from       *)
(* super_attrs on a base cycle.                                            *)
(***************************************************************************)
EXTENDS Naturals, Sequences, SequencesExt, SchemaTables

CONSTANTS
  Schemas,    \* the input tables: records [tags, art] of sequences of entries
  AttrTypes   \* DOMAIN attr_type_map: the attribute names with a storage kind

VARIABLES
  schema,     \* the tables the run reads, with their dicts (fixed for the run)
  pc,         \* "fwd" | "cls" | "done" | "crashed"
  i,          \* index of the tag the current loop is at
  fwd,        \* forward_decl lines printed so far
  classes     \* class blocks printed so far

vars == <<schema, pc, i, fwd, classes>>

Tags == schema.tags
TM   == schema.tm   \* tag_map = dict(tags)
AM   == schema.am   \* artificial_tag_map = dict(artificial_tags)

-----------------------------------------------------------------------------
(* super_attrs(tag), gen-adt-cpp.py lines 16-26.                           *)

\* Mutant: immediate_base_attrs without its tag_map.get(base)[0] term, so
\* the own uses of a kind used as a base are lost.
RECURSIVE SuperAttrsArtOnlyImmediate(_, _, _)
SuperAttrsArtOnlyImmediate(tm, am, t) ==
  UNION {ToSet(Get(am, b).attrs) : b \in BaseNames(tm, am, t)}
    \cup UNION {SuperAttrsArtOnlyImmediate(tm, am, b) : b \in BaseNames(tm, am, t)}

\* Mutant: the commented-out `#+ tag_map[tag][0]` put back, so that the
\* tag's own uses are returned with the inherited ones.
RECURSIVE SuperAttrsWithOwn(_, _, _)
SuperAttrsWithOwn(tm, am, t) ==
  ToSet(Get(tm, t).attrs)
    \cup UNION {OwnUses(tm, am, b) : b \in BaseNames(tm, am, t)}
    \cup UNION {SuperAttrsWithOwn(tm, am, b) : b \in BaseNames(tm, am, t)}

\* The attribute uses of every direct base (immediate_base_attrs), plus the
\* super_attrs of every direct base in either table, deduplicated by set():
\* two uses are one only if both name and mandatory flag agree.
RECURSIVE SuperAttrs(_, _, _)
SuperAttrs(tm, am, t) ==
  UNION {OwnUses(tm, am, b) : b \in BaseNames(tm, am, t)}
    \cup UNION {SuperAttrs(tm, am, b) : b \in BaseNames(tm, am, t)}

\* Mutant: tag_map[x] / artificial_tag_map[x] in place of .get(x, ...).
LookupRaisesStrict(m, k) == k \notin DOMAIN m

\* Whether a lookup `m.get(k, ([], [], []))` raises: it never does.
LookupRaises(m, k) == FALSE

\* super_attrs(t) raises: the recursion never ends on a base cycle (Python
\* stops it with a RecursionError), or one of its lookups raises.
SuperAttrsRaises(tm, am, t) ==
  \/ CycleReachable(tm, am, t)
  \/ \E n \in {t} \cup Ancestors(tm, am, t) :
        LookupRaises(tm, n) \/ LookupRaises(am, n)

-----------------------------------------------------------------------------
(* main(), gen-adt-cpp.py lines 28-42.                                     *)

Init ==
  /\ schema \in {[tags |-> s.tags, art |-> s.art, tm |-> Dict(s.tags), am |-> Dict(s.art)] :
                  s \in Schemas}
  /\ pc = "fwd"
  /\ i = 1
  /\ fwd = <<>>
  /\ classes = <<>>

\* Mutant: the forward_decl loop runs over tags + artificial_tags.
ForwardDeclWithCategories ==
  /\ pc = "fwd"
  /\ i <= Len(Tags \o schema.art)
  /\ fwd' = Append(fwd, (Tags \o schema.art)[i].name)
  /\ i' = i + 1
  /\ UNCHANGED <<schema, pc, classes>>

\* for (tag, ...) in tags: print "forward_decl(%s)" % tag
ForwardDecl ==
  /\ pc = "fwd"
  /\ i <= Len(Tags)
  /\ fwd' = Append(fwd, Tags[i].name)
  /\ i' = i + 1
  /\ UNCHANGED <<schema, pc, classes>>

\* The forward_decl loop is finished; the class loop starts at the first tag.
EndForwardDecls ==
  /\ pc = "fwd"
  /\ i > Len(Tags)
  /\ pc' = "cls"
  /\ i' = 1
  /\ UNCHANGED <<schema, fwd, classes>>

\* The block begun for tag entry t, with the given printed contents.
Block(t, own, sup, complete) ==
  [tag |-> t.name, bases |-> t.bases, own |-> own, super |-> sup,
   children |-> IF complete THEN t.children ELSE <<>>, complete |-> complete]

\* Mutant: attr_type_map.get(attr) at line 36, printing None for an
\* unknown attribute instead of raising.
FirstUnknownOwnGet(t) == 0

\* Index of the first own use whose attribute is missing from
\* attr_type_map, 0 if there is none.
FirstUnknownOwn(t) == SelectInSeq(t.attrs, LAMBDA u : u[1] \notin AttrTypes)

\* One iteration of the class loop that completes: begin_class, every own
\* and every super attribute line, child_tag lines, end_class.
EmitClass ==
  /\ pc = "cls"
  /\ i <= Len(Tags)
  /\ LET t   == Tags[i]
         sup == SuperAttrs(TM, AM, t.name)
     IN  /\ FirstUnknownOwn(t) = 0
         /\ ~SuperAttrsRaises(TM, AM, t.name)
         /\ UseNames(sup) \subseteq AttrTypes
         /\ classes' = Append(classes, Block(t, t.attrs, sup, TRUE))
  /\ i' = i + 1
  /\ UNCHANGED <<schema, pc, fwd>>

\* An own attribute missing from attr_type_map: KeyError after begin_class
\* and the own lines before it.
EmitClassOwnKeyError ==
  /\ pc = "cls"
  /\ i <= Len(Tags)
  /\ LET t == Tags[i]
         k == FirstUnknownOwn(t)
     IN  /\ k # 0
         /\ classes' = Append(classes, Block(t, SubSeq(t.attrs, 1, k - 1), {}, FALSE))
  /\ pc' = "crashed"
  /\ UNCHANGED <<schema, i, fwd>>

\* super_attrs(tag) raises after all own lines were printed.
EmitClassSuperRaises ==
  /\ pc = "cls"
  /\ i <= Len(Tags)
  /\ LET t == Tags[i]
     IN  /\ FirstUnknownOwn(t) = 0
         /\ SuperAttrsRaises(TM, AM, t.name)
         /\ classes' = Append(classes, Block(t, t.attrs, {}, FALSE))
  /\ pc' = "crashed"
  /\ UNCHANGED <<schema, i, fwd>>

\* An inherited attribute missing from attr_type_map: KeyError part way
\* through the super_attr lines, which come in set() order, so any subset
\* of the known ones may have been printed.
EmitClassSuperKeyError ==
  /\ pc = "cls"
  /\ i <= Len(Tags)
  /\ LET t   == Tags[i]
         sup == SuperAttrs(TM, AM, t.name)
     IN  /\ FirstUnknownOwn(t) = 0
         /\ ~SuperAttrsRaises(TM, AM, t.name)
         /\ ~(UseNames(sup) \subseteq AttrTypes)
         /\ \E printed \in SUBSET {u \in sup : u[1] \in AttrTypes} :
              classes' = Append(classes, Block(t, t.attrs, printed, FALSE))
  /\ pc' = "crashed"
  /\ UNCHANGED <<schema, i, fwd>>

\* The class loop is finished and the script exits normally.
Finish ==
  /\ pc = "cls"
  /\ i > Len(Tags)
  /\ pc' = "done"
  /\ UNCHANGED <<schema, i, fwd, classes>>

Next ==
  \/ ForwardDecl
  \/ EndForwardDecls
  \/ EmitClass
  \/ EmitClassOwnKeyError
  \/ EmitClassSuperRaises
  \/ EmitClassSuperKeyError
  \/ Finish

\* The script runs to its end unless it raises: every enabled step is taken.
Spec == Init /\ [][Next]_vars /\ WF_vars(Next)

-----------------------------------------------------------------------------
(* Properties.                                                             *)

TagNames == {Tags[j].name : j \in DOMAIN Tags}

\* Every entry of both tables.
Entries == ToSet(Tags \o schema.art)

\* Every attribute name some entry declares.
DeclaredAttrs == UNION {UseNames(ToSet(e.attrs)) : e \in Entries}

TypeOK ==
  /\ pc \in {"fwd", "cls", "done", "crashed"}
  /\ i \in 1..(Len(Tags) + 1)
  /\ fwd \in Seq(TagNames)
  /\ \A j \in DOMAIN classes :
       /\ classes[j].tag \in TagNames
       /\ ToSet(classes[j].own) \cup classes[j].super \subseteq DeclaredAttrs \X BOOLEAN
       /\ classes[j].complete \in BOOLEAN

\* The recursion of super_attrs over both tables computes the transitive
\* base closure: every completed class declares as super attributes exactly
\* the uses declared by the kinds and categories reachable from its tag,
\* through diamonds and kind-to-kind bases included.
SuperAttrsAreClosure ==
  \A j \in DOMAIN classes :
    classes[j].complete =>
      classes[j].super = ClosureUses(TM, AM, classes[j].tag)

\* A schema that passes every check of spec 4.2 is generated to the end:
\* the run never raises on a well-formed schema.
ValidSchemaCompletes ==
  WellFormed(schema.tags, schema.art, AttrTypes) => <>(pc = "done")

\* Spec 7: a schema error is fatal, never silent.  A run that exits
\* normally read a table in which no kind reaches a base cycle (which the
\* unguarded recursion of super_attrs turns into a RecursionError) and
\* every attribute a kind declares or inherits has a storage kind (else
\* attr_type_map raises KeyError at line 36 or 38): nothing was printed
\* for an attribute without a type, or for a class with a cut closure.
SchemaErrorsAreFatal ==
  pc = "done" =>
    \A j \in DOMAIN Tags :
      /\ ~CycleReachable(TM, AM, Tags[j].name)
      /\ UseNames(ToSet(Tags[j].attrs) \cup ClosureUses(TM, AM, Tags[j].name)) \subseteq AttrTypes

\* Spec 4.3/8: own and inherited attributes are disjoint and deduplicated by
\* name, so every completed class declares one accessor per attribute name: no own
\* use repeated, none repeated as a super attribute, no super attribute
\* present with both mandatory flags.
OneAccessorPerAttr ==
  \A j \in DOMAIN classes :
    classes[j].complete =>
      Cardinality(UseNames(ToSet(classes[j].own) \cup classes[j].super))
        = Len(classes[j].own) + Cardinality(classes[j].super)

\* Spec 4.2: a base naming neither a kind nor a category fails with
\* UnknownBase: a run that finishes normally had only known bases.
UnknownBaseRejected ==
  pc = "done" =>
    \A e \in Entries : ToSet(e.bases) \subseteq DOMAIN TM \cup DOMAIN AM

\* The class blocks as the abstract emitter's class definitions: the blocks
\* that reached end_class, with their own, super and child lines.
EmittedSchemas ==
  LET done == SelectSeq(classes, LAMBDA c : c.complete)
  IN  [j \in DOMAIN done |->
         [tag |-> done[j].tag, own |-> ToSet(done[j].own),
          inherited |-> done[j].super, children |-> ToSet(done[j].children)]]

\* Spec 3/4.3: the emitter implements EffectiveSchemaEmitter: all forward
\* declarations precede the classes, and the classes come in table order,
\* each with the kind's effective schema (inherited uses deduplicated by
\* name and disjoint from the own ones, children unioned over the bases).
Emitter == INSTANCE EffectiveSchemaEmitter
             WITH schema <- [tags |-> schema.tags, art |-> schema.art],
                  declared <- ToSet(fwd), emitted <- EmittedSchemas

ImplementsEffectiveSchemaEmitter == Emitter!Spec
=============================================================================
