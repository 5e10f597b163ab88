--------------------------- MODULE EncapAccessors ---------------------------
(***************************************************************************)
(* The accessor bodies output_method_defns (adt-gen.py) generates for the  *)
(* Die_encap_<tag> classes, over a set of entries.  Each entry stores its  *)
(* attributes in the map m_attrs: has_attr(a) tests for the key,           *)
(* put_attr(a, v) stores v under it, m_attrs.erase(a) removes it.  A       *)
(* reference is stored as a pointer to an encap entry; the getter of an    *)
(* attribute of storage kind "refdie_is_type" narrows it with              *)
(* dynamic_pointer_cast<type_die>, which yields a null pointer when the    *)
(* referenced entry is not a type.  All entries here are encap entries, so *)
(* the setters' dynamic_pointer_cast<Die_encap_base> keeps the pointer.    *)
(*                                                                         *)
(* Entries start as read from a file: an attribute may be missing only if  *)
(* its use is optional, and a reference may address any entry.  Reading a *)
(* missing mandatory attribute (the index operator on an absent key) is left *)
(* out: operator[] is not part of this repository.                         *)
(***************************************************************************)
EXTENDS SchemaTables

CONSTANTS
  Dies,         \* the entries
  DieTag,       \* entry -> its tag's table entry (its own attribute uses)
  TypeDies,     \* the entries whose class derives from spec::type_die
  AttrKind,     \* attr_type_map: attribute -> storage kind
  Vals,         \* values of the attributes that are not references
  Null,         \* the null shared_ptr
  NoValue,      \* boost::optional<...>(): the empty optional
  Absent        \* no entry under the attribute's key in m_attrs

VARIABLES
  m,            \* slot <<entry, attribute>> -> stored value or Absent
  call          \* the last setter call, [slot, arg]

vars == <<m, call>>

AttrsOf(d) == UseNames(ToSet(DieTag[d].attrs))
Mandatory(d, a) == <<a, TRUE>> \in ToSet(DieTag[d].attrs)
Slots == UNION {{<<d, a>> : a \in AttrsOf(d)} : d \in Dies}
OptionalSlots == {s \in Slots : ~Mandatory(s[1], s[2])}

\* attr_type_map[a].startswith("refdie"): a reference attribute.
IsRef(a) == AttrKind[a] \in {"refdie", "refdie_is_type"}

\* The argument type of set_<a>: stored_type_map[attr_type_map[a]].
ArgVals(a) ==
  CASE AttrKind[a] = "refdie_is_type" -> TypeDies \cup {Null}
    [] IsRef(a)                       -> Dies \cup {Null}
    [] OTHER                          -> Vals

\* this->operator[](DW_AT_a).get_refdie() through dynamic_pointer_cast<element_type>
\* for a reference, get_<kind>() for a value: only a refdie_is_type
\* attribute narrows, to a null pointer when the entry is not a type.
Read(a, v) ==
  IF AttrKind[a] = "refdie_is_type" /\ v \notin TypeDies THEN Null ELSE v

\* get_<a>(): the optional getter returns boost::optional<...>() when
\* has_attr fails, and otherwise an optional holding what it reads; the
\* mandatory getter reads the attribute.
Getter(s) ==
  IF s \in OptionalSlots /\ m[s] = Absent THEN NoValue ELSE Read(s[2], m[s])

\* What an entry read from a file may hold in a slot: any entry for a
\* reference, any value otherwise, nothing only for an optional use.
FileVals(s) ==
  (IF IsRef(s[2]) THEN Dies ELSE Vals) \cup (IF s \in OptionalSlots THEN {Absent} ELSE {})

Init ==
  /\ m \in {g \in [Slots -> Dies \cup Vals \cup {Absent}] : \A s \in Slots : g[s] \in FileVals(s)}
  /\ call = NoValue

\* Mutant: `put_attr(DW_AT_a, *arg)` without the `if (arg)` test.
SetOptionalNoCheck(s, arg) ==
  /\ m' = [m EXCEPT ![s] = arg]
  /\ call' = [slot |-> s, arg |-> arg]

\* Mutant: the `else m_attrs.erase(DW_AT_a)` branch left out.
SetOptionalNoErase(s, arg) ==
  /\ m' = IF arg # NoValue THEN [m EXCEPT ![s] = arg] ELSE m
  /\ call' = [slot |-> s, arg |-> arg]

\* set_<a>(boost::optional<...> arg): `if (arg) put_attr(DW_AT_a, *arg);
\* else m_attrs.erase(DW_AT_a);`, a reference upcast to Die_encap_base
\* (every entry is an encap entry, so the cast keeps the pointer).
SetOptional(s, arg) ==
  /\ m' = [m EXCEPT ![s] = IF arg # NoValue THEN arg ELSE Absent]
  /\ call' = [slot |-> s, arg |-> arg]

\* set_<a>(arg) of a mandatory attribute: put_attr(DW_AT_a, arg).
SetMandatory(s, arg) ==
  /\ m' = [m EXCEPT ![s] = arg]
  /\ call' = [slot |-> s, arg |-> arg]

Next ==
  \/ \E s \in OptionalSlots : \E arg \in ArgVals(s[2]) \cup {NoValue} : SetOptional(s, arg)
  \/ \E s \in Slots \ OptionalSlots : \E arg \in ArgVals(s[2]) : SetMandatory(s, arg)

Spec == Init /\ [][Next]_vars

-----------------------------------------------------------------------------
(* Properties.                                                             *)

TypeOK ==
  /\ m \in [Slots -> Dies \cup Vals \cup {Null, Absent}]
  /\ \A s \in Slots \ OptionalSlots : m[s] # Absent
  /\ call = NoValue \/ call.slot \in Slots

\* The generated accessors implement the attribute store of spec 4.5: after
\* every setter call the getter of that slot returns the argument, an
\* optional getter returns the empty optional after set(empty), and no
\* other slot's getter changes.  The upcast on writing and the narrowing on
\* reading cancel for every argument the setter's type admits.
Abs == INSTANCE AttributeStore
         WITH store <- [s \in Slots |-> Getter(s)],
              Optional <- OptionalSlots,
              Arg <- [s \in Slots |-> ArgVals(s[2])]

AccessorsImplementStore == Abs!Spec

\* Spec 4.4: a type-constrained reference is narrowed with verification on
\* reading: an optional type getter that returns an engaged optional holds
\* a type entry, never a null pointer.
NarrowedGetterNeverEngagedNull ==
  \A s \in OptionalSlots :
    AttrKind[s[2]] = "refdie_is_type" => Getter(s) # Null
=============================================================================
