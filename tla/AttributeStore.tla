--------------------------- MODULE AttributeStore ---------------------------
(***************************************************************************)
(* What the accessors of a generated DIE class promise (spec 4.5): each    *)
(* attribute slot of each entry holds a value; a setter call stores its    *)
(* argument, "absent" included for an optional attribute, and the getter   *)
(* returns what the slot holds.  `call` is the last setter call, the       *)
(* interface's observable input.                                           *)
(***************************************************************************)
CONSTANTS
  Slots,      \* <<entry, attribute>> pairs that have accessors
  Optional,   \* the slots whose attribute use is optional
  Arg,        \* slot -> the values its setter accepts
  NoValue     \* the empty optional

VARIABLES store, call

\* Any state an entry read from storage can be in.
Init ==
  /\ store \in [Slots -> UNION {Arg[s] : s \in Slots} \cup {NoValue}]
  /\ \A s \in Slots : store[s] \in Arg[s] \cup (IF s \in Optional THEN {NoValue} ELSE {})
  /\ call = NoValue

\* set_<attr>(v): the slot holds v afterwards.
Set(s, v) ==
  /\ call' = [slot |-> s, arg |-> v]
  /\ store' = [store EXCEPT ![s] = v]

Next ==
  \E s \in Slots :
    \E v \in Arg[s] \cup (IF s \in Optional THEN {NoValue} ELSE {}) : Set(s, v)

Spec == Init /\ [][Next]_<<store, call>>
=============================================================================
