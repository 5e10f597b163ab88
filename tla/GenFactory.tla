----------------------------- MODULE GenFactory -----------------------------
(***************************************************************************)
(* spec/gen-factory-cpp.py: the factory generator.  For every tag of the   *)
(* table, in order, it prints factory_case(tag, base, ...), the case of    *)
(* the kind-to-constructor switch that builds the concrete class of that   *)
(* tag, initialising each of its direct bases.                             *)
(***************************************************************************)
EXTENDS Naturals, Sequences, SequencesExt, SchemaTables

CONSTANTS
  Schemas     \* the input tables: records [tags, art] of sequences of entries

VARIABLES
  schema,     \* the tables the run reads, with their dicts (fixed for the run)
  i,          \* index of the tag the loop is at
  cases       \* the factory_case lines printed so far

vars == <<schema, i, cases>>

Tags == schema.tags
TM   == schema.tm
AM   == schema.am

\* Mutant: the loop starts at the second tag (`for ... in tags[1:]`).
InitSkipFirst ==
  /\ schema \in {[tags |-> s.tags, art |-> s.art, tm |-> Dict(s.tags), am |-> Dict(s.art)] :
                   s \in Schemas}
  /\ i = 2
  /\ cases = <<>>

Init ==
  /\ schema \in {[tags |-> s.tags, art |-> s.art, tm |-> Dict(s.tags), am |-> Dict(s.art)] :
                   s \in Schemas}
  /\ i = 1
  /\ cases = <<>>

\* Mutant: the loop runs over tags + artificial_tags.
EmitCaseWithCategories ==
  LET all == Tags \o schema.art
  IN  /\ i <= Len(all)
      /\ cases' = Append(cases, [tag |-> all[i].name, bases |-> all[i].bases])
      /\ i' = i + 1
      /\ UNCHANGED schema

\* for (tag, (attr_list, children, bases)) in tags:
\*     print("factory_case(%s, %s)" % (tag, ', '.join(bases)))
EmitCase ==
  /\ i <= Len(Tags)
  /\ cases' = Append(cases, [tag |-> Tags[i].name, bases |-> Tags[i].bases])
  /\ i' = i + 1
  /\ UNCHANGED schema

\* The loop is over and the script exits.
Spec == Init /\ [][EmitCase]_vars /\ WF_vars(EmitCase)

-----------------------------------------------------------------------------
(* Properties.                                                             *)

TagNames == {Tags[j].name : j \in DOMAIN Tags}
Known    == DOMAIN TM \cup DOMAIN AM

TypeOK ==
  /\ i \in 1..(Len(Tags) + 1)
  /\ cases \in Seq([tag : Known, bases : Seq(Known)])

\* Spec 4.5/9: the generated switch is a dispatch table keyed by the runtime
\* tag.  Once printed, it has exactly one case per kind of the table (no
\* duplicate case label, no kind that cannot be constructed), never a case
\* for a non-instantiable category, and every case initialises bases that
\* are defined kinds or categories.
FactoryIsDispatchTable ==
  i > Len(Tags) =>
    /\ Len(cases) = Cardinality(TagNames)
    /\ {cases[j].tag : j \in DOMAIN cases} = TagNames
    /\ TagNames \cap DOMAIN AM = {}
    /\ \A j \in DOMAIN cases : ToSet(cases[j].bases) \subseteq Known
=============================================================================
