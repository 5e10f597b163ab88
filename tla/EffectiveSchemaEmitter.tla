------------------------ MODULE EffectiveSchemaEmitter ------------------------
(***************************************************************************)
(* What the class emitter promises (spec 3, 4.3, 4.5): every kind is       *)
(* forward-declared, in any order, before any class; then one class per    *)
(* kind, in table order, carrying the kind's EffectiveSchema: its own      *)
(* attribute uses, the inherited ones (every use of its transitive bases   *)
(* whose name the kind does not declare itself; one use per name is not   *)
(* part of this record but the separate invariant OneAccessorPerAttr), and *)
(* the child kinds of the kind and of its ancestors.  gen-adt-cpp.py       *)
(* prints only the kind's own children; the two agree on a table whose     *)
(* bases declare no children, as dwarf3's do not.                          *)
(***************************************************************************)
EXTENDS Naturals, Sequences, SequencesExt, SchemaTables

CONSTANTS Schemas   \* the input tables: records [tags, art]

VARIABLES
  schema,     \* the tables (fixed)
  declared,   \* the kinds forward-declared so far
  emitted     \* the class definitions produced so far, in order

TM == Dict(schema.tags)
AM == Dict(schema.art)

\* EffectiveSchema(k) of spec 3.
Effective(k) ==
  LET own  == ToSet(Get(TM, k).attrs)
      anc  == Ancestors(TM, AM, k)
  IN  [tag       |-> k,
       own       |-> own,
       inherited |-> {u \in ClosureUses(TM, AM, k) : u[1] \notin UseNames(own)},
       children  |-> ToSet(Get(TM, k).children)
                       \cup UNION {ToSet(Get(TM, n).children) \cup ToSet(Get(AM, n).children) : n \in anc}]

Kinds == {schema.tags[j].name : j \in DOMAIN schema.tags}

Init ==
  /\ schema \in {[tags |-> s.tags, art |-> s.art] : s \in Schemas}
  /\ declared = {}
  /\ emitted = <<>>

Declare(k) ==
  /\ emitted = <<>>
  /\ declared' = declared \cup {k}
  /\ UNCHANGED <<schema, emitted>>

Emit ==
  /\ declared = Kinds
  /\ Len(emitted) < Len(schema.tags)
  /\ emitted' = Append(emitted, Effective(schema.tags[Len(emitted) + 1].name))
  /\ UNCHANGED <<schema, declared>>

Next == (\E k \in Kinds : Declare(k)) \/ Emit

Spec == Init /\ [][Next]_<<schema, declared, emitted>>
=============================================================================
