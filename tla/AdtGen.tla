------------------------------- MODULE AdtGen -------------------------------
(***************************************************************************)
(* adt-gen.py's main(): eight output files, each opened with mode "w+"     *)
(* (created or truncated) and then filled by one or two output_* passes,  *)
(* every pass a loop over dwarf3_tags.  The files are the build's inputs  *)
(* and stay on disk between runs; a later run (Rerun) starts from what     *)
(* the last one left there, possibly with an edited table.                 *)
(*                                                                         *)
(* A file is abstracted to its sequence of per-tag blocks: the pass that   *)
(* wrote it, the tag, the attribute uses it declares accessors for, the    *)
(* child kinds it declares iterators for, and whether it was finished.     *)
(* The lookups stored_type_map[attr_type_map[a]] (class declarations and  *)
(* method definitions) and attr_type_map[a] (ADT interfaces) raise a      *)
(* KeyError when the key is missing: the run stops in the middle of the    *)
(* tag's block, with everything already written left in the files (the    *)
(* interpreter flushes the open file objects when it exits).              *)
(***************************************************************************)
EXTENDS Naturals, Sequences, SequencesExt, SchemaTables

CONSTANTS
  TagTables,    \* the versions of dwarf3_tags a run may read
  AttrTypeMap,  \* attr_type_map: attribute -> storage kind
  StoredKinds   \* DOMAIN stored_type_map

VARIABLES
  tags,         \* dwarf3_tags of the current run
  pc,           \* "open" | "write" | "done" | "crashed"
  f,            \* index of the file being opened or written
  p,            \* index of the output_* pass within that file
  k,            \* index of the tag the pass is at
  files         \* file index -> blocks on disk

vars == <<tags, pc, f, p, k, files>>

\* The files main() opens, in order, and the passes that write each.
Files == <<"abstract_preamble_gen", "abstract_hdr_gen", "encap_preamble_gen",
           "encap_hdr_gen", "encap_src_gen", "encap_factory_gen",
           "encap_typedefs_gen", "adt_interfaces">>

Passes == <<<<"fwd", "spec">>, <<"cls">>, <<"fwd", "spec">>, <<"cls">>,
            <<"defn">>, <<"factory">>, <<"typedefs">>, <<"iface">>>>

\* Mutant: the accessor loops keep only the `if not attr[1]` (optional)
\* branch.
UsesOptionalOnly(w, t) ==
  IF w \in {"cls", "defn", "iface"} THEN SelectSeq(t.attrs, LAMBDA u : ~u[2]) ELSE <<>>

\* The attribute uses whose accessors a pass emits for tag t: every own use
\* in output_class_decls, output_method_defns and output_adt_interfaces.
Uses(w, t) == IF w \in {"cls", "defn", "iface"} THEN t.attrs ELSE <<>>

\* The child kinds a pass emits begin/end iterators for.
Kids(w, t) == IF w \in {"cls", "defn"} THEN t.children ELSE <<>>

\* Mutant: output_adt_interfaces indexing stored_type_map with the
\* attribute name instead of its storage kind.
RaisesWrongKey(w, a) ==
  \/ w \in {"cls", "defn"} /\ (a \notin DOMAIN AttrTypeMap \/ AttrTypeMap[a] \notin StoredKinds)
  \/ w = "iface" /\ a \notin StoredKinds

\* Mutant: output_class_decls without the stored_type_map lookup.
RaisesNoStoredInCls(w, a) ==
  \/ w = "defn" /\ (a \notin DOMAIN AttrTypeMap \/ AttrTypeMap[a] \notin StoredKinds)
  \/ w \in {"cls", "iface"} /\ a \notin DOMAIN AttrTypeMap

\* Whether emitting the accessors of attribute a in pass w raises KeyError.
Raises(w, a) ==
  \/ w \in {"cls", "defn"} /\ (a \notin DOMAIN AttrTypeMap \/ AttrTypeMap[a] \notin StoredKinds)
  \/ w = "iface" /\ a \notin DOMAIN AttrTypeMap

\* Index of the first use of t whose lookup raises in pass w, 0 if none.
FirstRaising(w, t) == SelectInSeq(Uses(w, t), LAMBDA u : Raises(w, u[1]))

Block(w, t, uses, whole) ==
  [w |-> w, tag |-> t.name, uses |-> uses,
   kids |-> IF whole THEN Kids(w, t) ELSE <<>>, whole |-> whole]

\* The content of file j after a run over table T that gets past it.
Render(T, j) ==
  FlattenSeq([q \in DOMAIN Passes[j] |->
                [x \in DOMAIN T |-> Block(Passes[j][q], T[x], Uses(Passes[j][q], T[x]), TRUE)]])

Generated(T) == [j \in DOMAIN Files |-> Render(T, j)]

\* A table whose every attribute use has a storage kind with a
\* representation (the spec's UnknownAttribute check, made on the catalog).
Valid(T) ==
  \A x \in DOMAIN T : \A u \in ToSet(T[x].attrs) :
    u[1] \in DOMAIN AttrTypeMap /\ AttrTypeMap[u[1]] \in StoredKinds

ValidTables == {T \in TagTables : Valid(T)}

-----------------------------------------------------------------------------

\* The script starts over files generated by an earlier, successful run.
Init ==
  /\ tags \in TagTables
  /\ \E prev \in ValidTables : files = Generated(prev)
  /\ pc = "open"
  /\ f = 1 /\ p = 1 /\ k = 1

\* Mutant: the file opened for appending ("a+") instead of "w+".
OpenAppend ==
  /\ pc = "open"
  /\ pc' = "write"
  /\ UNCHANGED <<tags, f, p, k, files>>

\* x = open("...", "w+"): the file is truncated.
Open ==
  /\ pc = "open"
  /\ files' = [files EXCEPT ![f] = <<>>]
  /\ pc' = "write"
  /\ UNCHANGED <<tags, f, p, k>>

\* One iteration of `for tag in dwarf3_tags` of the current pass.
WriteBlock ==
  /\ pc = "write"
  /\ k <= Len(tags)
  /\ LET w == Passes[f][p]
         t == tags[k]
     IN  /\ FirstRaising(w, t) = 0
         /\ files' = [files EXCEPT ![f] = Append(@, Block(w, t, Uses(w, t), TRUE))]
  /\ k' = k + 1
  /\ UNCHANGED <<tags, pc, f, p>>

\* A lookup raises KeyError: the block holds the uses before it.
WriteBlockKeyError ==
  /\ pc = "write"
  /\ k <= Len(tags)
  /\ LET w == Passes[f][p]
         t == tags[k]
         j == FirstRaising(w, t)
     IN  /\ j # 0
         /\ files' = [files EXCEPT ![f] = Append(@, Block(w, t, SubSeq(Uses(w, t), 1, j - 1), FALSE))]
  /\ pc' = "crashed"
  /\ UNCHANGED <<tags, f, p, k>>

\* The pass is done; the next output_* call on the same file starts.
NextPass ==
  /\ pc = "write"
  /\ k > Len(tags)
  /\ p < Len(Passes[f])
  /\ p' = p + 1 /\ k' = 1
  /\ UNCHANGED <<tags, pc, f, files>>

\* Mutant: the file loop bound off by one.
NextFileOffByOne ==
  /\ pc = "write"
  /\ k > Len(tags)
  /\ p = Len(Passes[f])
  /\ f <= Len(Files)
  /\ f' = f + 1 /\ p' = 1 /\ k' = 1
  /\ pc' = "open"
  /\ UNCHANGED <<tags, files>>

\* The last pass of the file is done; main() opens the next file.
NextFile ==
  /\ pc = "write"
  /\ k > Len(tags)
  /\ p = Len(Passes[f])
  /\ f < Len(Files)
  /\ f' = f + 1 /\ p' = 1 /\ k' = 1
  /\ pc' = "open"
  /\ UNCHANGED <<tags, files>>

\* output_adt_interfaces returns and main() returns.
Finish ==
  /\ pc = "write"
  /\ k > Len(tags)
  /\ p = Len(Passes[f])
  /\ f = Len(Files)
  /\ pc' = "done"
  /\ UNCHANGED <<tags, f, p, k, files>>

\* The build runs the script again, on the table as it now is.
Rerun ==
  /\ pc \in {"done", "crashed"}
  /\ tags' \in TagTables
  /\ pc' = "open"
  /\ f' = 1 /\ p' = 1 /\ k' = 1
  /\ UNCHANGED files

Step == Open \/ WriteBlock \/ WriteBlockKeyError \/ NextPass \/ NextFile \/ Finish

Next == Step \/ Rerun

\* The script is a loop that always proceeds; whether it is run again is up
\* to the build, so Rerun gets no fairness.
Spec == Init /\ [][Next]_vars /\ WF_vars(Step)

-----------------------------------------------------------------------------
(* Properties.                                                             *)

\* Every tag name of every table version.
TagNames == UNION {{T[y].name : y \in DOMAIN T} : T \in TagTables}

\* A file that holds an unfinished block: a KeyError stopped the run in it.
Torn(j) == \E x \in DOMAIN files[j] : ~files[j][x].whole

TypeOK ==
  /\ tags \in TagTables
  /\ pc \in {"open", "write", "done", "crashed"}
  /\ f \in 1..Len(Files)
  /\ p \in 1..Len(Passes[f])
  /\ k \in 1..(Len(tags) + 1)
  /\ \A j \in DOMAIN Files :
       \A x \in DOMAIN files[j] : files[j][x].tag \in TagNames

\* After a run that returns normally every file holds exactly what the
\* current table generates, whatever earlier runs, crashed ones included,
\* left on disk: "w+" truncates each file before its passes write it.
CompletedRunRegeneratesAll ==
  pc = "done" => files = Generated(tags)

\* At most one output file is ever torn, across any sequence of runs: the
\* class declarations of the abstract header are the first pass with a
\* lookup and make the strictest ones, so a table that raises anywhere
\* raises there, before a later file has been opened.
AtMostOneFileTorn ==
  \A j1, j2 \in DOMAIN Files : Torn(j1) /\ Torn(j2) => j1 = j2

\* A run over a table on which no lookup raises returns normally.
ValidRunCompletes ==
  (pc \in {"open", "write"} /\ tags \in ValidTables) ~> (pc = "done")

\* Spec 7/8: a schema error is fatal and produces no partial output: when
\* the script has stopped, the files are the output of one table version.
ArtifactsFromOneTable ==
  pc \in {"done", "crashed"} => \E T \in TagTables : files = Generated(T)
=============================================================================
