----------------------------- MODULE Artifacts -----------------------------
(***************************************************************************)
(* The generated artifact set as the build produces it: gen-adt-cpp.py     *)
(* prints the class declarations, gen-tagpreds-cpp.py the category         *)
(* predicates, gen-factory-cpp.py the kind-to-constructor switch, and the  *)
(* C++ build includes the three outputs together.  Each script imports its *)
(* table itself (`from dwarf3 import *`, `from dwarf_current import *`),   *)
(* so each component is an instance with its own table.                   *)
(*                                                                         *)
(* The three scripts read no output of one another and share no state:     *)
(* their steps commute, and every interleaving ends with the same three    *)
(* outputs.  The model runs them one after another (classes, factory,      *)
(* predicates), which reaches every final artifact set; a script that     *)
(* raises stops the build (make stops at the first failing rule).         *)
(***************************************************************************)
EXTENDS Naturals, Sequences, SequencesExt, SchemaTables

CONSTANTS
  ClassSchema,    \* the table gen-adt-cpp.py imports
  PredSchema,     \* the table gen-tagpreds-cpp.py imports
  FactorySchema,  \* the table gen-factory-cpp.py imports
  AttrTypes       \* DOMAIN attr_type_map of ClassSchema's module

VARIABLES
  clsSchema, clsPc, clsI, fwd, classes,   \* gen-adt-cpp.py
  predSchema, todo, preds,                \* gen-tagpreds-cpp.py
  facSchema, facI, cases                  \* gen-factory-cpp.py

clsVars  == <<clsSchema, clsPc, clsI, fwd, classes>>
predVars == <<predSchema, todo, preds>>
facVars  == <<facSchema, facI, cases>>
vars     == <<clsVars, predVars, facVars>>

Cls  == INSTANCE GenAdtCpp WITH Schemas <- {ClassSchema}, schema <- clsSchema,
                                pc <- clsPc, i <- clsI
Pred == INSTANCE GenTagPreds WITH Schemas <- {PredSchema}, schema <- predSchema
Fac  == INSTANCE GenFactory WITH Schemas <- {FactorySchema}, schema <- facSchema,
                                 i <- facI

Init == Cls!Init /\ Pred!Init /\ Fac!Init

ClassesDone == clsPc = "done"
PredsDone   == todo = {}
FactoryDone == facI > Len(facSchema.tags)

\* A step of gen-adt-cpp.py.
ClassStep == Cls!Next /\ UNCHANGED <<predVars, facVars>>

\* A step of gen-factory-cpp.py, after gen-adt-cpp.py has exited normally.
FactoryStep == ClassesDone /\ Fac!EmitCase /\ UNCHANGED <<clsVars, predVars>>

\* A step of gen-tagpreds-cpp.py, after the other two have exited normally.
PredStep ==
  ClassesDone /\ FactoryDone /\ Pred!EmitPred /\ UNCHANGED <<clsVars, facVars>>

Next == ClassStep \/ FactoryStep \/ PredStep

\* The build runs each rule to its end.
Spec == Init /\ [][Next]_vars /\ WF_vars(Next)

-----------------------------------------------------------------------------
(* Properties.                                                             *)

TypeOK == Cls!TypeOK /\ Pred!TypeOK /\ Fac!TypeOK

\* Each script's own correctness, in the composed build.
EveryReachedCategoryHasPredicate == Pred!EveryReachedCategoryHasPredicate
FactoryIsDispatchTable == Fac!FactoryIsDispatchTable

\* Spec 2/4.5: the dispatch table cross-references the classes the emitter
\* produced: once all outputs are printed, every factory_case(tag, bases)
\* names a class gen-adt-cpp.py declared completely, and initialises exactly
\* the bases that class declares (initialize_base of a class that is not a
\* base, or a missing class, does not compile).
FactoryCasesMatchClasses ==
  ClassesDone /\ PredsDone /\ FactoryDone =>
    \A j \in DOMAIN cases :
      \E x \in DOMAIN classes :
        /\ classes[x].complete
        /\ classes[x].tag = cases[j].tag
        /\ classes[x].bases = cases[j].bases
=============================================================================
