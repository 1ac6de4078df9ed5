------------------------------ MODULE ConfigFlags ------------------------------
(***************************************************************************)
(* The boolean flags of src/core/config.c: which exclude one another, and  *)
(* what applying one value, or a document or layer of values, does.        *)
(***************************************************************************)
EXTENDS Integers, Sequences

CONSTANT Words    \* the strings of command lines, files and requests

\* g_app_flag_table, in the order of app_flag_id.
FlagOrder == <<"debug", "quiet", "verbose", "json", "plain", "no_color">>
Flags == {"debug", "quiet", "verbose", "json", "plain", "no_color"}

LevelFlags == {"debug", "quiet", "verbose"}
OutputFlags == {"json", "plain"}

\* exclusive_mask
Excluded(f) ==
  CASE f \in LevelFlags -> LevelFlags \ {f}
    [] f \in OutputFlags -> OutputFlags \ {f}
    [] OTHER -> {}

NoFlags == [f \in Flags |-> FALSE]

\* Mutant: a plain assignment.
Assign(values, f, v) == [values EXCEPT ![f] = v]

\* app_flag_apply: setting a flag clears the flags it excludes.
Apply(values, f, v) ==
  [g \in Flags |-> IF g = f THEN v ELSE values[g] /\ ~ (v /\ g \in Excluded(f))]

\* A layer is a sequence of assignments, applied in order.  What names no flag
\* assigns nothing: an unknown key, another option, a variable that is not set.
NoFlag == "none"
Assignments == [flag : Words, value : BOOLEAN]

ASSUME WordsAssumption == Flags \cup {NoFlag} \subseteq Words

ApplyAll(values, layer) ==
  LET after[n \in 0..Len(layer)] ==
        IF n = 0 THEN values ELSE Apply(after[n - 1], layer[n].flag, layer[n].value)
  IN after[Len(layer)]

\* Setting each member of a set, in table order.
SetTrue(S) ==
  [i \in DOMAIN FlagOrder |->
     [flag |-> IF FlagOrder[i] \in S THEN FlagOrder[i] ELSE NoFlag, value |-> TRUE]]

Exclusive(values) == \A f \in Flags : values[f] => \A g \in Excluded(f) : ~values[g]

-----------------------------------------------------------------------------
(* The flags of a headless request (src/core/request_json.c)               *)

NoRequestFlags == [values |-> NoFlags, seen |-> NoFlags]

\* Mutant: flags that exclude one another are recorded side by side.
RecordPlainly(req, f, v) ==
  [values |-> [req.values EXCEPT ![f] = v], seen |-> [req.seen EXCEPT ![f] = TRUE]]

\* app_request_record_flag: a true value makes the flags it excludes unseen.
RecordFlag(req, f, v) ==
  [values |-> Apply(req.values, f, v),
   seen |-> [g \in Flags |-> \/ g = f
                             \/ req.seen[g] /\ ~ (v /\ g \in Excluded(f))]]

RecordAll(req, layer) ==
  LET after[n \in 0..Len(layer)] ==
        IF n = 0 THEN req ELSE RecordFlag(after[n - 1], layer[n].flag, layer[n].value)
  IN after[Len(layer)]

\* The last loop of app_request_apply_to_config: seen flags in table order.
SeenFlags(req) ==
  [i \in DOMAIN FlagOrder |->
     [flag |-> IF req.seen[FlagOrder[i]] THEN FlagOrder[i] ELSE NoFlag,
      value |-> req.values[FlagOrder[i]]]]

ApplyRequest(values, req) == ApplyAll(values, SeenFlags(req))
=============================================================================
