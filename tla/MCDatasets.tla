----------------------------- MODULE MCDatasets -----------------------------
(* Datasets for TLC.  Three instances in one: each step stays in (or leads  *)
(* into) one of the parts below, whose first states are the same.           *)
EXTENDS Datasets, TLC

Symmetry == Permutations(Clients) \cup Permutations(Rows) \cup Permutations(Keys)

Requested == {req[c] : c \in Clients} \ {Idle}
Writing   == {q \in Requested : q.stage \notin {"add", "view"}}
Offering  == Requested \ Writing
Offered   == {fields[k].kind : k \in Columns} \cup {q.kind : q \in {q \in Requested : q.stage = "add"}}
Stages    == {q.stage : q \in Requested}
InUse     == {k \in Keys : fields[k] # NoField \/ \E r \in There : rows[r].cells[k] # Empty}
               \cup UNION {DOMAIN q.patch : q \in Writing} \cup {q.key : q \in Offering}

\* No cell is, or is to become, one of these.
Without(values) ==
  /\ \A r \in There, k \in Keys : rows[r].cells[k] \notin values
  /\ \A q \in Writing : \A k \in DOMAIN q.patch : q.patch[k] \notin values

\* Rows and their edges under one name, made at most twice, to targets that are readable.
RowsPart ==
  /\ readable /\ made <= 2 /\ Saved = {} /\ "view" \notin Stages
  /\ Offered \subseteq {"number", "relation"} /\ Without({Option}) /\ Cardinality(InUse) <= 1

\* Formulas, rollups and what they read, under every name.
FormulasPart ==
  /\ There = {} /\ Saved = {} /\ Stages \subseteq {"add"}
  /\ Offered \subseteq {"select", "relation", "rollup", "formula"}

\* Views, and rows made through forms, under one name, made at most twice.
ViewsPart ==
  /\ readable /\ made <= 2 /\ live = Targets /\ "fetch" \notin Stages
  /\ Offered \subseteq {"select", "formula"} /\ Without({Number, Null} \cup Targets) /\ Cardinality(InUse) <= 1

Parts == (RowsPart \/ FormulasPart \/ ViewsPart)'
=============================================================================
