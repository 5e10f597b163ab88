---------------------------- MODULE SchemaTables ----------------------------
(***************************************************************************)
(* The schema tables of libdwarfpp's generators and the lookups the        *)
(* generator scripts make on them.                                         *)
(*                                                                         *)
(* A table (spec/dwarf3.py `tags`, `artificial_tags`) is a Python list of  *)
(* (name, (attrs, children, bases)) tuples; here it is a sequence of       *)
(* records.  An attribute use is the pair <<attr, mandatory>>.  The        *)
(* Python `dict(tags)` keeps, for a name listed twice, the LAST entry.     *)
(*                                                                         *)
(* The second half of the module is the reference semantics of the spec   *)
(* (section 4.3): the transitive base closure, against which the code's    *)
(* recursion and predicates are checked.                                   *)
(***************************************************************************)
EXTENDS Naturals, Sequences, SequencesExt

\* One (name, (attrs, children, bases)) tuple of a table.
E(n, a, c, b) == [name |-> n, attrs |-> a, children |-> c, bases |-> b]

\* (attr, False): an optional use; (attr, True): a mandatory one.
O(a) == <<a, FALSE>>
M(a) == <<a, TRUE>>

\* The value of an entry: (attrs, children, bases).
Value(e) == [attrs |-> e.attrs, children |-> e.children, bases |-> e.bases]

\* dict(tags): name -> value of the last entry carrying that name.
Dict(tbl) ==
  [n \in {tbl[j].name : j \in DOMAIN tbl} |->
     Value(tbl[SelectLastInSeq(tbl, LAMBDA e : e.name = n)])]

\* dict(pairs) of a list of (key, value) pairs: the last pair of a key wins.
PairDict(s) ==
  [k \in {s[j][1] : j \in DOMAIN s} |-> s[SelectLastInSeq(s, LAMBDA p : p[1] = k)][2]]

\* The default ([], [], []) of every `.get(x, ([], [], []))`.
EmptyValue == [attrs |-> <<>>, children |-> <<>>, bases |-> <<>>]

\* m.get(k, ([], [], [])): never raises, unknown names read as empty.
Get(m, k) == IF k \in DOMAIN m THEN m[k] ELSE EmptyValue

\* tag_map.get(tag)[2] + artificial_tag_map.get(tag)[2], as a set: the
\* names a tag or category lists as its direct bases.
BaseNames(tm, am, t) == ToSet(Get(tm, t).bases) \cup ToSet(Get(am, t).bases)

\* tag_map.get(b)[0] + artificial_tag_map.get(b)[0]: the attribute uses b
\* itself declares, in either table.
OwnUses(tm, am, b) == ToSet(Get(tm, b).attrs) \cup ToSet(Get(am, b).attrs)

\* Attribute names of a set of uses.
UseNames(S) == {u[1] : u \in S}

-----------------------------------------------------------------------------
(***************************************************************************)
(* Reference semantics (spec 4.2, 4.3): the base graph and its closure.    *)
(***************************************************************************)

\* Nodes reachable from `frontier` along base edges, `seen` already found.
RECURSIVE Closure(_, _, _, _)
Closure(tm, am, frontier, seen) ==
  IF frontier \subseteq seen THEN seen
  ELSE LET new == frontier \ seen
       IN  Closure(tm, am, UNION {BaseNames(tm, am, n) : n \in new},
                   seen \cup new)

\* Every kind or category reachable from t by one or more base edges.
Ancestors(tm, am, t) == Closure(tm, am, BaseNames(tm, am, t), {})

\* Some node reachable from t (t included) lies on a base cycle.
CycleReachable(tm, am, t) ==
  \E n \in {t} \cup Ancestors(tm, am, t) : n \in Ancestors(tm, am, n)

\* superAttrs(K) of spec 4.3 before deduplication by name: every attribute
\* use declared by a strict ancestor.
ClosureUses(tm, am, t) == UNION {OwnUses(tm, am, n) : n \in Ancestors(tm, am, t)}

\* A schema in which every check of spec 4.2 succeeds: unique names, known
\* bases, known attributes, known child kinds, an acyclic base graph.
WellFormed(tags, art, attrTypes) ==
  LET tm    == Dict(tags)
      am    == Dict(art)
      known == DOMAIN tm \cup DOMAIN am
      all   == tags \o art
  IN  /\ Len(all) = Cardinality(known)
      /\ \A j \in DOMAIN all :
           /\ ToSet(all[j].bases) \subseteq known
           /\ UseNames(ToSet(all[j].attrs)) \subseteq attrTypes
           /\ ToSet(all[j].children) \subseteq DOMAIN tm
      /\ DOMAIN tm \cap DOMAIN am = {}
      /\ \A n \in known : n \notin Ancestors(tm, am, n)
=============================================================================
