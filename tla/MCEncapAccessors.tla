------------------------- MODULE MCEncapAccessors -------------------------
(***************************************************************************)
(* The generated accessors of three entries, with the attribute uses and   *)
(* storage kinds of adt-gen.py's shipped tables: a subrange_type (its      *)
(* mandatory `type`, optional `upper_bound` and `name`), a variable (its   *)
(* optional `type` and `name`) and a base_type (its optional `name`).  An  *)
(* entry is a type entry when its spec::<tag>_die class derives from       *)
(* spec::type_die, i.e. when `type` is among its tag's ancestors in the    *)
(* table of spec/dwarf3.py.                                                *)
(***************************************************************************)
EXTENDS EncapAccessors, AdtGenTable, Dwarf3Table

CONSTANTS DS, DV, DB, V1

MCDies == {DS, DV, DB}
MCTagOf == (DS :> "subrange_type") @@ (DV :> "variable") @@ (DB :> "base_type")

\* The uses that the adt-gen.py table gives each entry's tag, kept to the
\* attributes the model follows.
Followed == {"type", "upper_bound", "name"}
DieTagOfTables ==
  [d \in MCDies |->
     LET e == Dict(AdtTags)[MCTagOf[d]]
     IN  [e EXCEPT !.attrs = SelectSeq(e.attrs, LAMBDA u : u[1] \in Followed)]]

TypeDiesOfTables ==
  {d \in MCDies : "type" \in Ancestors(Dict(Dwarf3Tags), Dict(Dwarf3ArtificialTags), MCTagOf[d])}
\* The same, written out (TLC would otherwise recompute the table lookups
\* at every use); the assumptions tie them to the tables.
MCDieTag ==
  (DS :> E("subrange_type", <<O("name"), M("type"), O("upper_bound")>>, <<>>, <<"is_type">>))
  @@ (DV :> E("variable", <<O("name"), O("type")>>, <<>>, <<"is_program_element">>))
  @@ (DB :> E("base_type", <<O("name")>>, <<>>, <<"is_type">>))
MCTypeDies == {DS, DB}

ASSUME \A d \in MCDies : MCDieTag[d].attrs = DieTagOfTables[d].attrs
ASSUME MCTypeDies = TypeDiesOfTables
=============================================================================
