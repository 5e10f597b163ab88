---------------------------- MODULE GenTagPreds ----------------------------
(***************************************************************************)
(* libdwarfpp/gen-tagpreds-cpp.py: the category predicate generator.  For  *)
(* every name some tag lists as a direct base, in set() order, it prints   *)
(* begin_pred(base), a disjunct line for every tag (in table order) whose  *)
(* own base list contains that name, and end_pred(base).  The predicate    *)
(* macros make is_<base>(tag) true exactly for the disjuncts.              *)
(*                                                                         *)
(* `preds` abstracts the printed blocks to records; the set() iteration    *)
(* order, fixed but unspecified, is a nondeterministic choice.             *)
(***************************************************************************)
EXTENDS Naturals, Sequences, SequencesExt, SchemaTables

CONSTANTS
  Schemas     \* the input tables: records [tags, art] of sequences of entries

VARIABLES
  schema,     \* the tables the run reads, with their dicts (fixed for the run)
  todo,       \* the bases of the set() not yet iterated over
  preds       \* the predicate blocks printed so far

vars == <<schema, todo, preds>>

Tags == schema.tags
TM   == schema.tm
AM   == schema.am

\* Mutant: only the first name of each base list is collected.
PredBasesFirstOnly(tags) ==
  UNION {ToSet(SubSeq(tags[j].bases, 1, 1)) : j \in DOMAIN tags}

\* set(sum([bases for (tag, (attr, children, bases)) in tags], [])): the
\* direct bases of kinds only; the categories' own bases are not read.
PredBases(tags) == UNION {ToSet(tags[j].bases) : j \in DOMAIN tags}

Init ==
  /\ schema \in {[tags |-> s.tags, art |-> s.art, tm |-> Dict(s.tags), am |-> Dict(s.art)] :
                   s \in Schemas}
  /\ todo = PredBases(schema.tags)
  /\ preds = <<>>

\* [tag for (tag, (attr, children, this_tag_bases)) in tags
\*      if base in this_tag_bases]: the kinds listing base DIRECTLY.
Disjuncts(tags, base) ==
  LET hits == SelectSeq(tags, LAMBDA e : base \in ToSet(e.bases))
  IN  [j \in 1..Len(hits) |-> hits[j].name]

\* One iteration: begin_pred, the disjunct lines, end_pred.
EmitPred ==
  \E b \in todo :
    /\ preds' = Append(preds, [base |-> b, disjuncts |-> Disjuncts(Tags, b)])
    /\ todo' = todo \ {b}
    /\ UNCHANGED schema

\* The loop ends with the set and the script exits.
Spec == Init /\ [][EmitPred]_vars /\ WF_vars(EmitPred)

-----------------------------------------------------------------------------
(* Properties.                                                             *)

TagNames == {Tags[j].name : j \in DOMAIN Tags}

TypeOK ==
  /\ todo \subseteq PredBases(Tags)
  /\ \A j \in DOMAIN preds :
       /\ preds[j].base \in PredBases(Tags)
       /\ preds[j].disjuncts \in Seq(TagNames)

\* Spec 3/8: the predicate for a category c holds for a kind K iff c is
\* reachable from K's direct bases by zero or more base edges, so it agrees
\* with the is-a relation of the generated class hierarchy.
PredicateIsTransitive ==
  \A j \in DOMAIN preds :
    ToSet(preds[j].disjuncts) = {k \in TagNames : preds[j].base \in Ancestors(TM, AM, k)}

\* Spec 5 (one predicate per category): once the loop has ended, every
\* category that some kind reaches through its bases has a predicate block,
\* including one reached only through another category's bases, which the
\* set of the kinds' direct bases does not contain.
EveryReachedCategoryHasPredicate ==
  todo = {} =>
    \A k \in TagNames :
      \A c \in Ancestors(TM, AM, k) \cap DOMAIN AM :
        \E j \in DOMAIN preds : preds[j].base = c
=============================================================================
