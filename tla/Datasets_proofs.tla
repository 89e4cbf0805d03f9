-------------------------- MODULE Datasets_proofs ---------------------------
(***************************************************************************)
(* Proofs about datasets, for any columns, rows, targets, views, kinds,    *)
(* caps and number of requests.                                            *)
(***************************************************************************)
EXTENDS Datasets, FiniteSetTheorems, TLAPS

Writing(c) == req[c].stage = "write"
Updating(c) == req[c].stage \in {"plan", "write"} /\ req[c].op = "update"

\* The ids of columns are given once.
IdsKept ==
  /\ \A k \in Columns : fields[k].id <= made
  /\ \A j, k \in Columns : fields[j].id = fields[k].id => j = k

\* What a request is about to do to the edges of a column that is still there.
EditsKept(c) ==
  Writing(c) =>
    /\ \A f \in DOMAIN req[c].edits : f <= made
    /\ \A k \in Columns : fields[k].id \in DOMAIN req[c].edits =>
         /\ fields[k].kind = "relation" /\ k \in DOMAIN req[c].patch
         /\ req[c].edits[fields[k].id] = IF req[c].patch[k] = Null THEN {} ELSE {req[c].patch[k]}
    /\ req[c].fresh => \A k \in DOMAIN req[c].patch \cap Of({"relation"}) : fields[k].id \in DOMAIN req[c].edits

\* What an update has read, as long as the row's version is the one it read.
BaseKept(c) ==
  Updating(c) =>
    /\ req[c].base.version <= rows[req[c].row].version
    /\ rows[req[c].row].version = req[c].base.version =>
         /\ rows[req[c].row] = req[c].base
         /\ Writing(c) => \A k \in DOMAIN req[c].patch \cap Of({"relation"}) :
              fields[k].id \in DOMAIN req[c].edits \/ EdgesOf(req[c].row, k) = {}

\* What was checked, as long as the columns are those it was checked against.
FreshKept(c) ==
  req[c] # Idle /\ req[c].fresh =>
    /\ req[c].stage = "add" /\ req[c].kind = "formula" => FormulaSound(req[c].key, req[c].reads)
    /\ req[c].stage \in {"fetch", "plan", "write"} => Acceptable(req[c].patch)

RequestsKept == \A c \in Clients : EditsKept(c) /\ BaseKept(c) /\ FreshKept(c)

Kept ==
  /\ TypeOK /\ IdsKept /\ RequestsKept
  /\ StraysComeFromOvertakenChecks /\ EdgesAreNamed /\ EdgesMissOnlyStrays /\ CyclesComeFromOvertakenChecks

-----------------------------------------------------------------------------
(* Shapes *)

LEMMA PatchShape ==
  /\ \A p \in Patches : DOMAIN p \subseteq Keys /\ p \in [DOMAIN p -> Values \cup {Null}]
  /\ \A K \in SUBSET Keys : [K -> Values \cup {Null}] \subseteq Patches
  BY DEF Patches

LEMMA EditShape ==
  /\ \A e \in Edits : DOMAIN e \subseteq FieldIds /\ e \in [DOMAIN e -> SUBSET Targets]
  /\ \A F \in SUBSET FieldIds : [F -> SUBSET Targets] \subseteq Edits
  BY DEF Edits

LEMMA RequestShape ==
  ASSUME TypeOK, NEW c \in Clients
  PROVE  /\ req[c].stage \in {"idle", "add", "form", "fetch", "plan", "write", "view"}
         /\ req[c].stage = "idle" <=> req[c] = Idle
         /\ req[c] # Idle => req[c].fresh \in BOOLEAN
         /\ req[c].stage = "add" => req[c].key \in Keys /\ req[c].kind \in Kinds /\ req[c].reads \in SUBSET Keys
         /\ req[c].stage \in {"form", "fetch", "plan", "write"} =>
              req[c].op \in {"create", "update"} /\ req[c].patch \in Patches /\ req[c].edits \in Edits
         /\ req[c].stage = "form" => req[c].op = "create"
         /\ req[c].stage = "fetch" => req[c].op = "update"
         /\ Updating(c) => req[c].row \in Rows /\ req[c].base \in RowsOf
         /\ req[c].stage = "view" =>
              /\ req[c].op \in {"create", "update"} /\ req[c].view \in Views
              /\ req[c].kind \in {"table", "board", "form"} /\ req[c].key \in Keys
<1> DEFINE q == req[c]
<1>1. q \in Requests
  BY DEF TypeOK
<1>2. CASE q = Idle
  BY <1>2 DEF Idle, Updating
<1>3. CASE q \in [stage : {"add"}, key : Keys, kind : Kinds, reads : SUBSET Keys, fresh : BOOLEAN]
  BY <1>3 DEF Idle, Updating
<1>4. CASE q \in [stage : {"form", "plan", "write"}, op : {"create"}, patch : Patches, fresh : BOOLEAN,
                  row : {"none"}, base : {NoRow}, edits : Edits]
  BY <1>4 DEF Idle, Updating
<1>5. CASE q \in [stage : {"fetch"}, op : {"update"}, patch : Patches, fresh : BOOLEAN,
                  row : {"none"}, base : {NoRow}, edits : Edits]
  BY <1>5 DEF Idle, Updating
<1>6. CASE q \in [stage : {"plan", "write"}, op : {"update"}, patch : Patches, fresh : BOOLEAN,
                  row : Rows, base : RowsOf, edits : Edits]
  BY <1>6 DEF Idle, Updating
<1>7. CASE q \in [stage : {"view"}, op : {"create", "update"}, view : Views, kind : {"table", "board", "form"},
                  key : Keys, fresh : BOOLEAN]
  BY <1>7 DEF Idle, Updating
<1> QED
  BY <1>1, <1>2, <1>3, <1>4, <1>5, <1>6, <1>7 DEF Requests

LEMMA ColumnShape ==
  ASSUME TypeOK
  PROVE  /\ \A k \in Keys : k \in Columns <=> fields[k] \in Fields
         /\ \A k \in Columns : fields[k].id \in FieldIds /\ fields[k].kind \in Kinds /\ fields[k].reads \in SUBSET Keys
         /\ \A r \in Rows : r \in There <=> rows[r] \in RowsOf
         /\ \A r \in There : rows[r].version \in 1..MaxVersion /\ rows[r].cells \in Cells
<1>1. \A k \in Keys : fields[k] \in Fields \cup {NoField}
  BY DEF TypeOK
<1>2. \A r \in Rows : rows[r] \in RowsOf \cup {NoRow, Gone}
  BY DEF TypeOK
<1>3. NoField \notin Fields
  BY DEF NoField, Fields
<1>4. NoRow.version \notin 1..MaxVersion /\ Gone.version \notin 1..MaxVersion
  BY BoundsAssumption DEF NoRow, Gone
<1>5. \A x \in RowsOf : x.version \in 1..MaxVersion /\ x.cells \in Cells
  BY DEF RowsOf
<1>6. \A x \in Fields : x.id \in FieldIds /\ x.kind \in Kinds /\ x.reads \in SUBSET Keys
  BY DEF Fields
<1> QED
  BY <1>1, <1>2, <1>3, <1>4, <1>5, <1>6 DEF Columns, There

LEMMA MergedShape ==
  ASSUME NEW cells \in Cells, NEW patch \in Patches
  PROVE  Merged(cells, patch) \in Cells
  BY PatchShape DEF Merged, Cells, Values

LEMMA PlannedShape ==
  ASSUME TypeOK, IdsKept, NEW patch \in Patches
  PROVE  /\ Planned(patch) \in Edits \/ ~Plannable(patch)
         /\ \A f \in DOMAIN Planned(patch) : \E k \in DOMAIN patch \cap Of({"relation"}) : fields[k].id = f
         /\ \A k \in DOMAIN patch \cap Of({"relation"}) :
              /\ fields[k].id \in DOMAIN Planned(patch)
              /\ Planned(patch)[fields[k].id] = IF patch[k] = Null THEN {} ELSE {patch[k]}
<1> DEFINE touched == DOMAIN patch \cap Of({"relation"})
           ids == {fields[k].id : k \in touched}
           of(f) == CHOOSE k \in touched : fields[k].id = f
<1>1. touched \subseteq Columns /\ ids \subseteq FieldIds
  BY ColumnShape DEF Of
<1>2. \A f \in ids : of(f) \in touched /\ fields[of(f)].id = f
  OBVIOUS
<1>3. \A k \in touched : of(fields[k].id) = k
  BY <1>1, <1>2 DEF IdsKept
<1>4. Planned(patch) = [f \in ids |-> IF patch[of(f)] = Null THEN {} ELSE {patch[of(f)]}]
  BY DEF Planned
<1>5. ASSUME Plannable(patch)
      PROVE  Planned(patch) \in [ids -> SUBSET Targets]
  <2>1. \A k \in touched : patch[k] # Null => patch[k] \in Targets
    BY <1>5 DEF Plannable, TypeOK
  <2> QED
    BY <1>2, <1>4, <2>1
<1>6. Planned(patch) \in Edits \/ ~Plannable(patch)
  BY <1>1, <1>5, EditShape
<1>7. \A f \in DOMAIN Planned(patch) : \E k \in touched : fields[k].id = f
  BY <1>2, <1>4
<1>8. ASSUME NEW k \in touched
      PROVE  /\ fields[k].id \in DOMAIN Planned(patch)
             /\ Planned(patch)[fields[k].id] = IF patch[k] = Null THEN {} ELSE {patch[k]}
  <2> DEFINE f == fields[k].id
  <2>1. f \in ids /\ of(f) = k
    BY <1>3
  <2> HIDE DEF of
  <2>2. DOMAIN Planned(patch) = ids /\ Planned(patch)[f] = IF patch[of(f)] = Null THEN {} ELSE {patch[of(f)]}
    BY <1>4, <2>1
  <2> QED
    BY <2>1, <2>2
<1> QED
  BY <1>6, <1>7, <1>8

LEMMA OvertakenShape ==
  ASSUME TypeOK
  PROVE  /\ Overtaken \in [Clients -> Requests]
         /\ \A c \in Clients : req[c] = Idle => Overtaken[c] = Idle
         /\ \A c \in Clients : req[c] # Idle => Overtaken[c] = [req[c] EXCEPT !.fresh = FALSE]
<1>1. ASSUME NEW c \in Clients, req[c] # Idle
      PROVE  [req[c] EXCEPT !.fresh = FALSE] \in Requests
  <2> DEFINE q      == [req[c] EXCEPT !.fresh = FALSE]
             Adds   == [stage : {"add"}, key : Keys, kind : Kinds, reads : SUBSET Keys, fresh : BOOLEAN]
             Makes  == [stage : {"form", "plan", "write"}, op : {"create"}, patch : Patches, fresh : BOOLEAN,
                        row : {"none"}, base : {NoRow}, edits : Edits]
             Finds  == [stage : {"fetch"}, op : {"update"}, patch : Patches, fresh : BOOLEAN,
                        row : {"none"}, base : {NoRow}, edits : Edits]
             Writes == [stage : {"plan", "write"}, op : {"update"}, patch : Patches, fresh : BOOLEAN,
                        row : Rows, base : RowsOf, edits : Edits]
             Shows  == [stage : {"view"}, op : {"create", "update"}, view : Views,
                        kind : {"table", "board", "form"}, key : Keys, fresh : BOOLEAN]
  <2>1. req[c] \in Adds \cup Makes \cup Finds \cup Writes \cup Shows
    BY <1>1 DEF TypeOK, Requests
  <2>2. req[c] \in Adds => q \in Adds
    OBVIOUS
  <2>3. req[c] \in Makes => q \in Makes
    OBVIOUS
  <2>4. req[c] \in Finds => q \in Finds
    OBVIOUS
  <2>5. req[c] \in Writes => q \in Writes
    OBVIOUS
  <2>6. req[c] \in Shows => q \in Shows
    OBVIOUS
  <2>7. q \in Adds \cup Makes \cup Finds \cup Writes \cup Shows
    BY <2>1, <2>2, <2>3, <2>4, <2>5, <2>6
  <2> QED
    BY <2>7 DEF Requests
<1> QED
  BY <1>1 DEF Overtaken, Requests, Idle

LEMMA Types ==
  ASSUME Kept, [Next]_vars
  PROVE  TypeOK'
<1> USE DEF Kept
<1> SUFFICES ASSUME Next
             PROVE  TypeOK'
  BY DEF vars, TypeOK
<1>1. Idle \in Requests
  BY DEF Requests
<1>2. ASSUME NEW c \in Clients, Fail(c)
      PROVE  TypeOK'
  BY <1>1, <1>2 DEF Fail, End, TypeOK
<1>3. ASSUME NEW c \in Clients, NEW key \in Keys, NEW kind \in Kinds, NEW reads \in SUBSET Keys,
             CheckField(c, key, kind, reads)
      PROVE  TypeOK'
  <2>1. [stage |-> "add", key |-> key, kind |-> kind, reads |-> reads, fresh |-> TRUE] \in Requests
    BY DEF Requests
  <2> QED
    BY <1>3, <2>1 DEF CheckField, TypeOK
<1>4. ASSUME NEW c \in Clients, AddField(c), ~Fail(c)
      PROVE  TypeOK'
  <2>1. [id |-> made + 1, kind |-> req[c].kind, reads |-> req[c].reads] \in Fields /\ made + 1 \in 0..MaxIds
    BY <1>4, RequestShape, BoundsAssumption DEF AddField, TypeOK, Fields, FieldIds
  <2>2. req' = [Overtaken EXCEPT ![c] = Idle] /\ req[c].key \in Keys
    BY <1>4, RequestShape DEF AddField
  <2>3. req' \in [Clients -> Requests]
    BY <1>1, <2>2, OvertakenShape
  <2>4. late' \in BOOLEAN
    BY <1>4 DEF AddField
  <2> QED
    BY <1>4, <2>1, <2>2, <2>3, <2>4 DEF AddField, TypeOK
<1>5. ASSUME NEW key \in Keys, DeleteField(key)
      PROVE  TypeOK'
  <2>1. ASSUME NEW r \in There, rows[r].cells[key] # Empty
        PROVE  [cells |-> [rows[r].cells EXCEPT ![key] = Empty], version |-> rows[r].version + 1] \in RowsOf
    <3>1. rows[r].version + 1 \in 1..MaxVersion
      BY <1>5, <2>1, ColumnShape, BoundsAssumption DEF DeleteField
    <3>2. [rows[r].cells EXCEPT ![key] = Empty] \in Cells
      BY ColumnShape DEF Cells
    <3> QED
      BY <3>1, <3>2 DEF RowsOf
  <2>2. rows' \in [Rows -> RowsOf \cup {NoRow, Gone}]
    BY <1>5, <2>1 DEF DeleteField, TypeOK
  <2>3. req' \in [Clients -> Requests]
    BY <1>5, OvertakenShape DEF DeleteField
  <2> QED
    BY <1>5, <2>2, <2>3 DEF DeleteField, TypeOK
<1>6. ASSUME NEW c \in Clients, NEW patch \in Patches, NEW op \in {"create", "update"}, CheckRow(c, patch, op)
      PROVE  TypeOK'
  <2> DEFINE clean == [k \in {k \in DOMAIN patch : patch[k] # Null} |-> patch[k]]
  <2>1. clean \in Patches
    BY PatchShape
  <2>2. RowRequest("plan", "create", clean) \in Requests /\ RowRequest("fetch", "update", patch) \in Requests
    BY <2>1, EditShape DEF RowRequest, Requests
  <2> QED
    BY <1>6, <2>2 DEF CheckRow, TypeOK
<1>7. ASSUME NEW c \in Clients, NEW v \in Views, NEW patch \in Patches, CheckForm(c, v, patch)
      PROVE  TypeOK'
  <2>1. RowRequest("form", "create", patch) \in Requests
    BY EditShape DEF RowRequest, Requests
  <2> QED
    BY <1>7, <2>1 DEF CheckForm, TypeOK
<1>8. ASSUME NEW c \in Clients, NEW r \in Rows, FetchRow(c, r)
      PROVE  TypeOK'
  <2>1. req[c] \in [stage : {"fetch"}, op : {"update"}, patch : Patches, fresh : BOOLEAN,
                    row : {"none"}, base : {NoRow}, edits : Edits]
    BY <1>8 DEF FetchRow, TypeOK, Requests, Idle
  <2>2. rows[r] \in RowsOf
    BY <1>8, ColumnShape DEF FetchRow
  <2>3. [req[c] EXCEPT !.stage = "plan", !.row = r, !.base = rows[r]] \in Requests
    BY <2>1, <2>2 DEF Requests
  <2> QED
    BY <1>8, <2>3 DEF FetchRow, TypeOK
<1>9. ASSUME NEW c \in Clients, PlanRow(c), ~Fail(c)
      PROVE  TypeOK'
  <2>1. Planned(req[c].patch) \in Edits
    BY <1>9, RequestShape, PlannedShape DEF PlanRow
  <2>2. \/ req[c] \in [stage : {"form", "plan", "write"}, op : {"create"}, patch : Patches, fresh : BOOLEAN,
                       row : {"none"}, base : {NoRow}, edits : Edits]
        \/ req[c] \in [stage : {"plan", "write"}, op : {"update"}, patch : Patches, fresh : BOOLEAN,
                       row : Rows, base : RowsOf, edits : Edits]
    BY <1>9 DEF PlanRow, TypeOK, Requests, Idle
  <2>3. [req[c] EXCEPT !.stage = "write", !.edits = Planned(req[c].patch)] \in Requests
    BY <2>1, <2>2 DEF Requests
  <2> QED
    BY <1>9, <2>3 DEF PlanRow, TypeOK
<1>10. ASSUME NEW c \in Clients, InsertRow(c), ~Fail(c)
       PROVE  TypeOK'
  <2>1. req[c].patch \in Patches /\ NoCells \in Cells
    BY <1>10, RequestShape DEF InsertRow, NoCells, Cells
  <2>2. PICK r \in Rows :
          /\ rows' = [rows EXCEPT ![r] = [cells |-> Merged(NoCells, req[c].patch), version |-> 1]]
          /\ edges' = Rewritten(r, req[c].edits)
          /\ strays' = Strays(r, c)
          /\ rows[r] = NoRow
    BY <1>10 DEF InsertRow
  <2>3. [cells |-> Merged(NoCells, req[c].patch), version |-> 1] \in RowsOf
    BY <2>1, MergedShape, BoundsAssumption DEF RowsOf
  <2>4. edges' \subseteq Rows \X FieldIds \X Targets
    BY <2>2 DEF Rewritten, TypeOK
  <2>5. strays' \subseteq Rows \X Keys
    BY <2>1, <2>2, PatchShape DEF Strays, TypeOK
  <2>6. req' \in [Clients -> Requests] /\ UNCHANGED <<fields, live, readable, views, made, late>>
    BY <1>1, <1>10 DEF InsertRow, End, TypeOK
  <2> QED
    BY <2>2, <2>3, <2>4, <2>5, <2>6 DEF TypeOK
<1>11. ASSUME NEW c \in Clients, UpdateRow(c), ~Fail(c)
       PROVE  TypeOK'
  <2> DEFINE r == req[c].row
  <2>1. r \in Rows /\ req[c].base \in RowsOf /\ req[c].patch \in Patches
    BY <1>11, RequestShape DEF UpdateRow, Updating
  <2>2. /\ rows[r].version = req[c].base.version /\ rows[r].version < MaxVersion
        /\ rows' = [rows EXCEPT ![r] = [cells |-> Merged(req[c].base.cells, req[c].patch), version |-> @.version + 1]]
        /\ edges' = Rewritten(r, req[c].edits)
        /\ strays' = Strays(r, c)
        /\ End(c) /\ UNCHANGED <<fields, live, readable, views, made, late>>
    BY <1>11 DEF UpdateRow
  <2>3. [cells |-> Merged(req[c].base.cells, req[c].patch), version |-> rows[r].version + 1] \in RowsOf
    BY <2>1, <2>2, MergedShape, BoundsAssumption DEF RowsOf
  <2>4. edges' \subseteq Rows \X FieldIds \X Targets
    BY <2>1, <2>2 DEF Rewritten, TypeOK
  <2>5. strays' \subseteq Rows \X Keys
    BY <2>1, <2>2, PatchShape DEF Strays, TypeOK
  <2>6. req' \in [Clients -> Requests]
    BY <1>1, <2>2 DEF End, TypeOK
  <2> QED
    BY <2>1, <2>2, <2>3, <2>4, <2>5, <2>6 DEF TypeOK
<1>12. ASSUME NEW r \in Rows, DeleteRow(r)
       PROVE  TypeOK'
  BY <1>12 DEF DeleteRow, TypeOK
<1>13. ASSUME NEW t \in Targets, DeleteTarget(t)
       PROVE  TypeOK'
  BY <1>13 DEF DeleteTarget, TypeOK
<1>14. CASE Reveal
  BY <1>14 DEF Reveal, TypeOK
<1>15. ASSUME NEW c \in Clients, NEW v \in Views, NEW kind \in {"table", "board", "form"}, NEW key \in Keys,
              CheckView(c, v, kind, key)
       PROVE  TypeOK'
  <2>1. [stage |-> "view", op |-> IF v \in Saved THEN "update" ELSE "create", view |-> v, kind |-> kind,
         key |-> key, fresh |-> TRUE] \in Requests
    BY DEF Requests
  <2> QED
    BY <1>15, <2>1 DEF CheckView, TypeOK
<1>16. ASSUME NEW c \in Clients, SaveView(c), ~Fail(c)
       PROVE  TypeOK'
  <2>1. req[c].view \in Views /\ [kind |-> req[c].kind, key |-> req[c].key] \in ViewsOf
    BY <1>16, RequestShape DEF SaveView, ViewsOf
  <2>2. /\ views' = [views EXCEPT ![req[c].view] = [kind |-> req[c].kind, key |-> req[c].key]]
        /\ End(c) /\ UNCHANGED <<fields, rows, edges, live, readable, made, strays, late>>
    BY <1>16 DEF SaveView
  <2> QED
    BY <1>1, <2>1, <2>2 DEF End, TypeOK
<1>17. ASSUME NEW v \in Views, DeleteView(v)
       PROVE  TypeOK'
  BY <1>17 DEF DeleteView, TypeOK
<1> QED
  BY <1>2, <1>3, <1>4, <1>5, <1>6, <1>7, <1>8, <1>9, <1>10, <1>11, <1>12, <1>13, <1>14, <1>15, <1>16, <1>17
  DEF Next, Abandon

-----------------------------------------------------------------------------
(* The steps that write nothing the invariant is about *)

\* What the invariant says of a request depends on nothing but the request and what is stored.
LEMMA Unwritten ==
  ASSUME Kept, TypeOK', UNCHANGED <<fields, rows, edges, live, made, strays, late>>,
         \A d \in Clients : req'[d] = req[d] \/ req'[d] = Idle \/ (EditsKept(d) /\ BaseKept(d) /\ FreshKept(d))'
  PROVE  Kept'
<1>1. Columns' = Columns /\ There' = There /\ (\A kinds : Of(kinds)' = Of(kinds)) /\ Cyclic' = Cyclic
  BY DEF Columns, There, Of, Cyclic
<1>2. \A r, k : (EdgesOf(r, k)' = EdgesOf(r, k)) /\ (Typed(r, k)' = Typed(r, k))
  BY <1>1 DEF EdgesOf, Typed
<1>3. \A patch : Acceptable(patch)' = Acceptable(patch)
  BY <1>1 DEF Acceptable
<1>4. ASSUME NEW d \in Clients
      PROVE  (EditsKept(d) /\ BaseKept(d) /\ FreshKept(d))'
  <2>1. CASE req'[d] = Idle
    BY <2>1 DEF EditsKept, BaseKept, FreshKept, Writing, Updating, Idle
  <2>2. CASE req'[d] = req[d]
    <3>1. EditsKept(d)'
      BY <1>1, <2>2 DEF Kept, RequestsKept, EditsKept, Writing
    <3>2. BaseKept(d)'
      BY <1>1, <1>2, <2>2 DEF Kept, RequestsKept, BaseKept, Writing, Updating
    <3>3. FormulaSound(req[d].key, req[d].reads)' = FormulaSound(req[d].key, req[d].reads)
      BY <1>1, <2>2 DEF FormulaSound
    <3>4. FreshKept(d)'
      BY <1>3, <2>2, <3>3 DEF Kept, RequestsKept, FreshKept
    <3> QED
      BY <3>1, <3>2, <3>4
  <2>3. CASE (EditsKept(d) /\ BaseKept(d) /\ FreshKept(d))'
    BY <2>3
  <2> QED
    BY <2>1, <2>2, <2>3
<1> QED
  BY <1>1, <1>2, <1>4 DEF Kept, RequestsKept, IdsKept, StraysComeFromOvertakenChecks, EdgesAreNamed,
     EdgesMissOnlyStrays, CyclesComeFromOvertakenChecks

\* One request moves on, and what the invariant says of it is shown of the new one.
LEMMA MovesOn ==
  ASSUME Kept, [Next]_vars, UNCHANGED <<fields, rows, edges, live, made, strays, late>>,
         NEW c \in Clients, NEW q, req' = [req EXCEPT ![c] = q],
         q = Idle \/ (EditsKept(c) /\ BaseKept(c) /\ FreshKept(c))'
  PROVE  Kept'
<1>1. \A d \in Clients : d # c => req'[d] = req[d]
  BY DEF Kept, TypeOK
<1>2. req'[c] = q
  BY DEF Kept, TypeOK
<1> QED
  BY <1>1, <1>2, Types, Unwritten

LEMMA Failing ==
  ASSUME Kept, [Next]_vars, NEW c \in Clients, Fail(c)
  PROVE  Kept'
  BY MovesOn DEF Fail, End

LEMMA CheckingField ==
  ASSUME Kept, [Next]_vars, NEW c \in Clients, NEW key \in Keys, NEW kind \in Kinds, NEW reads \in SUBSET Keys,
         CheckField(c, key, kind, reads)
  PROVE  Kept'
<1> DEFINE q == [stage |-> "add", key |-> key, kind |-> kind, reads |-> reads, fresh |-> TRUE]
<1>1. req' = [req EXCEPT ![c] = q] /\ UNCHANGED <<fields, rows, edges, live, made, strays, late>>
  BY DEF CheckField
<1>2. req'[c] = q
  BY <1>1 DEF Kept, TypeOK
<1>3. kind = "formula" => FormulaSound(key, reads)
  BY DEF CheckField, MayAdd
<1>4. FormulaSound(key, reads)' = FormulaSound(key, reads)
  BY <1>1 DEF FormulaSound, Columns, Of
<1>5. (EditsKept(c) /\ BaseKept(c))'
  BY <1>2 DEF EditsKept, BaseKept, Writing, Updating
<1>6. FreshKept(c)'
  BY <1>2, <1>3, <1>4 DEF FreshKept
<1> QED
  BY <1>1, <1>5, <1>6, MovesOn

LEMMA CheckingForm ==
  ASSUME Kept, [Next]_vars, NEW c \in Clients, NEW v \in Views, NEW patch \in Patches, CheckForm(c, v, patch)
  PROVE  Kept'
<1> DEFINE q == RowRequest("form", "create", patch)
<1>1. req' = [req EXCEPT ![c] = q] /\ UNCHANGED <<fields, rows, edges, live, made, strays, late>>
  BY DEF CheckForm
<1>2. req'[c] = q /\ q.stage = "form"
  BY <1>1 DEF Kept, TypeOK, RowRequest
<1>3. (EditsKept(c) /\ BaseKept(c) /\ FreshKept(c))'
  BY <1>2 DEF EditsKept, BaseKept, FreshKept, Writing, Updating
<1> QED
  BY <1>1, <1>3, MovesOn

LEMMA CheckingRow ==
  ASSUME Kept, [Next]_vars, NEW c \in Clients, NEW patch \in Patches, NEW op \in {"create", "update"},
         CheckRow(c, patch, op)
  PROVE  Kept'
<1> DEFINE clean == [k \in {k \in DOMAIN patch : patch[k] # Null} |-> patch[k]]
           q == IF op = "create" THEN RowRequest("plan", op, clean) ELSE RowRequest("fetch", op, patch)
<1>1. req' = [req EXCEPT ![c] = q] /\ UNCHANGED <<fields, rows, edges, live, made, strays, late>>
  BY DEF CheckRow
<1>2. req'[c] = q
  BY <1>1 DEF Kept, TypeOK
<1>3. Acceptable(patch) /\ Acceptable(clean)
  BY DEF CheckRow, Acceptable
<1>4. Acceptable(q.patch) /\ ~(q.stage = "write") /\ ~(q.stage = "plan" /\ q.op = "update") /\ q.stage # "add"
  BY <1>3 DEF RowRequest
<1>5. \A p : Acceptable(p)' = Acceptable(p)
  BY <1>1 DEF Acceptable, Columns
<1> HIDE DEF q
<1>6. (EditsKept(c) /\ BaseKept(c))'
  BY <1>2, <1>4 DEF EditsKept, BaseKept, Writing, Updating
<1>7. FreshKept(c)'
  BY <1>2, <1>4, <1>5 DEF FreshKept
<1> QED
  BY <1>1, <1>6, <1>7, MovesOn

LEMMA FetchingRow ==
  ASSUME Kept, [Next]_vars, NEW c \in Clients, NEW r \in Rows, FetchRow(c, r)
  PROVE  Kept'
<1> DEFINE q == [req[c] EXCEPT !.stage = "plan", !.row = r, !.base = rows[r]]
<1>1. req' = [req EXCEPT ![c] = q] /\ UNCHANGED <<fields, rows, edges, live, made, strays, late>> /\ r \in There
  BY DEF FetchRow
<1>2. req[c] \in [stage : {"fetch"}, op : {"update"}, patch : Patches, fresh : BOOLEAN,
                  row : {"none"}, base : {NoRow}, edits : Edits]
  BY DEF Kept, FetchRow, TypeOK, Requests, Idle
<1>3. /\ req'[c] = q /\ q.stage = "plan" /\ q.row = r /\ q.base = rows[r]
      /\ q.patch = req[c].patch /\ q.fresh = req[c].fresh
  BY <1>1, <1>2 DEF Kept, TypeOK
<1>4. \A p : Acceptable(p)' = Acceptable(p)
  BY <1>1 DEF Acceptable, Columns
<1>5. req[c] # Idle /\ req[c].stage = "fetch"
  BY <1>2 DEF Idle
<1> HIDE DEF q
<1>6. EditsKept(c)'
  BY <1>3 DEF EditsKept, Writing
<1>7. BaseKept(c)'
  <2>1. rows[r].version \in Nat
    BY <1>1, ColumnShape DEF Kept
  <2> QED
    BY <1>1, <1>3, <2>1 DEF BaseKept, Writing
<1>8. FreshKept(c)'
  BY <1>3, <1>4, <1>5 DEF FreshKept, Kept, RequestsKept
<1> QED
  BY <1>1, <1>6, <1>7, <1>8, MovesOn

LEMMA PlanningRow ==
  ASSUME Kept, [Next]_vars, NEW c \in Clients, PlanRow(c), ~Fail(c)
  PROVE  Kept'
<1> DEFINE p == req[c].patch
           q == [req[c] EXCEPT !.stage = "write", !.edits = Planned(p)]
<1>1. req' = [req EXCEPT ![c] = q] /\ UNCHANGED <<fields, rows, edges, live, made, strays, late>> /\ Plannable(p)
  BY DEF PlanRow
<1>2. p \in Patches /\ req[c].stage = "plan" /\ req[c] # Idle
  BY RequestShape DEF PlanRow, Kept, Idle
<1>3. \/ req[c] \in [stage : {"form", "plan", "write"}, op : {"create"}, patch : Patches, fresh : BOOLEAN,
                     row : {"none"}, base : {NoRow}, edits : Edits]
      \/ req[c] \in [stage : {"plan", "write"}, op : {"update"}, patch : Patches, fresh : BOOLEAN,
                     row : Rows, base : RowsOf, edits : Edits]
  BY <1>2 DEF TypeOK, Requests, Idle, Kept
<1>4. /\ req'[c] = q /\ q.stage = "write" /\ q.edits = Planned(p) /\ q.patch = p
      /\ q.row = req[c].row /\ q.base = req[c].base /\ q.fresh = req[c].fresh /\ q.op = req[c].op
  BY <1>1, <1>3 DEF Kept, TypeOK
<1>5. Columns' = Columns /\ Of({"relation"})' = Of({"relation"}) /\ (\A x : Acceptable(x)' = Acceptable(x))
  BY <1>1 DEF Acceptable, Columns, Of
<1> HIDE DEF q, p
<1>6. EditsKept(c)'
  <2>1. \A f \in DOMAIN Planned(p) : f <= made
    BY <1>2, PlannedShape DEF Kept, IdsKept, Of
  <2>2. ASSUME NEW k \in Columns, fields[k].id \in DOMAIN Planned(p)
        PROVE  /\ fields[k].kind = "relation" /\ k \in DOMAIN p
               /\ Planned(p)[fields[k].id] = IF p[k] = Null THEN {} ELSE {p[k]}
    <3>1. PICK j \in DOMAIN p \cap Of({"relation"}) : fields[j].id = fields[k].id
      BY <1>2, <2>2, PlannedShape DEF Kept
    <3>2. j = k
      BY <3>1 DEF Kept, IdsKept, Of
    <3> QED
      BY <1>2, <3>1, <3>2, PlannedShape DEF Kept, Of
  <2>3. \A k \in DOMAIN p \cap Of({"relation"}) : fields[k].id \in DOMAIN Planned(p)
    BY <1>2, PlannedShape DEF Kept
  <2> QED
    BY <1>1, <1>4, <1>5, <2>1, <2>2, <2>3 DEF EditsKept
<1>7. BaseKept(c)'
  <2>1. \A k \in DOMAIN p \cap Of({"relation"}) : fields[k].id \in DOMAIN Planned(p)
    BY <1>2, PlannedShape DEF Kept
  <2> QED
    BY <1>1, <1>2, <1>4, <1>5, <2>1 DEF BaseKept, Updating, Kept, RequestsKept
<1>8. FreshKept(c)'
  BY <1>2, <1>4, <1>5 DEF FreshKept, Kept, RequestsKept, p
<1> QED
  BY <1>1, <1>6, <1>7, <1>8, MovesOn

LEMMA CheckingView ==
  ASSUME Kept, [Next]_vars, NEW c \in Clients, NEW v \in Views, NEW kind \in {"table", "board", "form"},
         NEW key \in Keys, CheckView(c, v, kind, key)
  PROVE  Kept'
<1> DEFINE q == [stage |-> "view", op |-> IF v \in Saved THEN "update" ELSE "create", view |-> v, kind |-> kind,
                 key |-> key, fresh |-> TRUE]
<1>1. req' = [req EXCEPT ![c] = q] /\ UNCHANGED <<fields, rows, edges, live, made, strays, late>>
  BY DEF CheckView
<1>2. req'[c] = q /\ q.stage = "view"
  BY <1>1 DEF Kept, TypeOK
<1> HIDE DEF q
<1>3. (EditsKept(c) /\ BaseKept(c) /\ FreshKept(c))'
  BY <1>2 DEF EditsKept, BaseKept, FreshKept, Writing, Updating
<1> QED
  BY <1>1, <1>3, MovesOn

-----------------------------------------------------------------------------
(* The steps that write *)

LEMMA VersionShape ==
  ASSUME TypeOK, NEW r \in Rows
  PROVE  /\ rows[r].version \in 0..(MaxVersion + 1)
         /\ r \in There <=> rows[r].version \in 1..MaxVersion
<1>1. rows[r] \in RowsOf \cup {NoRow, Gone}
  BY DEF TypeOK
<1> QED
  BY <1>1, BoundsAssumption DEF RowsOf, NoRow, Gone, There

LEMMA OvertakenRequest ==
  ASSUME Kept, NEW d \in Clients, req'[d] = Overtaken[d], req'[d] # Idle
  PROVE  /\ req'[d].stage = req[d].stage /\ req'[d].op = req[d].op /\ req'[d].edits = req[d].edits
         /\ req'[d].patch = req[d].patch /\ req'[d].row = req[d].row /\ req'[d].base = req[d].base
         /\ req'[d].fresh = FALSE
         /\ EditsKept(d) /\ BaseKept(d)
<1>1. req[d] # Idle /\ req'[d] = [req[d] EXCEPT !.fresh = FALSE]
  BY OvertakenShape DEF Kept
<1>2. /\ req'[d].stage = req[d].stage /\ req'[d].op = req[d].op /\ req'[d].edits = req[d].edits
      /\ req'[d].patch = req[d].patch /\ req'[d].row = req[d].row /\ req'[d].base = req[d].base
  BY <1>1
<1>3. req'[d].fresh = FALSE
  <2>1. req[d] \in Requests \ {Idle}
    BY <1>1 DEF Kept, TypeOK
  <2>2. \A q \in Requests \ {Idle} : [q EXCEPT !.fresh = FALSE].fresh = FALSE
    BY DEF Requests
  <2> QED
    BY <1>1, <2>1, <2>2
<1> QED
  BY <1>2, <1>3 DEF Kept, RequestsKept

LEMMA AddingField ==
  ASSUME Kept, [Next]_vars, NEW c \in Clients, AddField(c), ~Fail(c)
  PROVE  Kept'
<1> PICK key, new : key = req[c].key /\ new = [id |-> made + 1, kind |-> req[c].kind, reads |-> req[c].reads]
  OBVIOUS
<1>1. /\ key \in Keys \ Columns /\ req[c].reads \in SUBSET Keys /\ req[c] # Idle /\ req[c].stage = "add"
      /\ fields' = [fields EXCEPT ![key] = new] /\ made' = made + 1 /\ made \in Nat
      /\ late' = (late \/ (req[c].kind = "formula" /\ ~req[c].fresh))
      /\ req' = [Overtaken EXCEPT ![c] = Idle]
      /\ UNCHANGED <<rows, edges, live, strays>>
  BY RequestShape, BoundsAssumption DEF AddField, Kept, TypeOK, Idle
<1>2. fields'[key] = new /\ \A k \in Keys \ {key} : fields'[k] = fields[k]
  BY <1>1 DEF Kept, TypeOK
<1>3. Columns' = Columns \cup {key} /\ key \notin Columns /\ There' = There /\ \A k \in Columns : fields'[k] = fields[k]
  BY <1>1, <1>2 DEF Columns, There, NoField
<1>4. \A e \in edges : e[2] <= made /\ e[2] # made + 1
  <2>1. \A e \in edges : e[2] \in Nat /\ e[2] <= made
    BY ColumnShape DEF Kept, EdgesAreNamed, IdsKept, Of, TypeOK, FieldIds
  <2> QED
    BY <1>1, <2>1
<1>5. \A k \in Columns : fields[k].id \in Nat /\ fields[k].id <= made /\ fields[k].id # made + 1
  BY <1>1, ColumnShape DEF Kept, IdsKept, FieldIds
<1>6. TypeOK'
  BY Types
<1>7. IdsKept'
  <2>1. \A k \in Columns' : fields'[k].id <= made'
    BY <1>1, <1>2, <1>3, <1>5
  <2>2. \A j, k \in Columns' : fields'[j].id = fields'[k].id => j = k
    BY <1>2, <1>3, <1>5 DEF Kept, IdsKept
  <2> QED
    BY <2>1, <2>2 DEF IdsKept
<1>8. \A r : EdgesOf(r, key)' = {}
  BY <1>1, <1>2, <1>4 DEF EdgesOf
<1>9. \A r, k : k \in Columns => (EdgesOf(r, k)' = EdgesOf(r, k) /\ Typed(r, k)' = Typed(r, k))
  BY <1>1, <1>3 DEF EdgesOf, Typed
<1>10. StraysComeFromOvertakenChecks'
  BY <1>1, <1>3, <1>9 DEF Kept, StraysComeFromOvertakenChecks, Typed
<1>11. EdgesAreNamed'
  BY <1>1, <1>3 DEF Kept, EdgesAreNamed, Of
<1>12. EdgesMissOnlyStrays'
  <2>1. ASSUME NEW r \in There, <<r, key>> \notin strays
        PROVE  {rows[r].cells[key]} \cap live = {}
    BY <1>1, <2>1, ValuesAssumption DEF Kept, StraysComeFromOvertakenChecks, Typed, TypeOK, Empty
  <2> QED
    <3>1. ASSUME NEW r \in There, NEW k \in Columns, fields[k].kind = "relation", <<r, k>> \notin strays
          PROVE  EdgesOf(r, k) = {rows[r].cells[k]} \cap live
      BY <3>1 DEF Kept, EdgesMissOnlyStrays, Of
    <3>2. ASSUME NEW r \in There, NEW k \in Columns \cup {key}, fields'[k].kind = "relation"
          PROVE  EdgesOf(r, k)' = {rows[r].cells[k]} \cap live \/ <<r, k>> \in strays
      BY <1>3, <1>8, <1>9, <2>1, <3>1, <3>2
    <3> QED
      BY <1>1, <1>3, <3>2 DEF EdgesMissOnlyStrays, Of
<1>13. CyclesComeFromOvertakenChecks'
  <2> DEFINE old == Of({"formula"})
             graph == [n \in old \cup {key} |-> IF n = key THEN req[c].reads ELSE fields[n].reads]
  <2>1. CASE req[c].kind # "formula"
    <3>1. Of({"formula"})' = old
      BY <1>2, <1>3, <2>1 DEF Of
    <3>2. [k \in Of({"formula"}) |-> fields[k].reads]' = [k \in old |-> fields[k].reads]
      BY <1>3, <3>1 DEF Of
    <3> QED
      BY <1>1, <3>1, <3>2 DEF Kept, CyclesComeFromOvertakenChecks, Cyclic, HasCycle
  <2>2. CASE req[c].kind = "formula" /\ ~req[c].fresh
    BY <1>1, <2>2 DEF CyclesComeFromOvertakenChecks
  <2>3. CASE req[c].kind = "formula" /\ req[c].fresh
    <3>1. FormulaSound(key, req[c].reads)
      BY <1>1, <2>3 DEF Kept, RequestsKept, FreshKept
    <3>2. ~HasCycle(old \cup {key}, graph)
      BY <1>1, <3>1 DEF FormulaSound, Of
    <3>3. Of({"formula"})' = old \cup {key}
      BY <1>2, <1>3, <2>3 DEF Of
    <3>4. [k \in Of({"formula"}) |-> fields[k].reads]' = graph
      BY <1>2, <1>3, <3>3 DEF Of
    <3> QED
      BY <3>2, <3>3, <3>4 DEF CyclesComeFromOvertakenChecks, Cyclic, HasCycle
  <2> QED
    BY <2>1, <2>2, <2>3
<1>14. ASSUME NEW d \in Clients
       PROVE  (EditsKept(d) /\ BaseKept(d) /\ FreshKept(d))'
  <2>1. req'[d] = IF d = c THEN Idle ELSE Overtaken[d]
    BY <1>1, OvertakenShape DEF Kept
  <2>2. CASE req'[d] = Idle
    BY <2>2 DEF EditsKept, BaseKept, FreshKept, Writing, Updating, Idle
  <2>3. CASE req'[d] # Idle
    <3>0. /\ req'[d].stage = req[d].stage /\ req'[d].op = req[d].op /\ req'[d].edits = req[d].edits
          /\ req'[d].patch = req[d].patch /\ req'[d].row = req[d].row /\ req'[d].base = req[d].base
          /\ req'[d].fresh = FALSE
          /\ EditsKept(d) /\ BaseKept(d)
      BY <2>1, <2>3, OvertakenRequest
    <3>1. EditsKept(d)'
      <4>1. Writing(d) => \A f \in DOMAIN req[d].edits : f \in Nat /\ f <= made /\ f # made + 1
        BY <1>1, RequestShape, EditShape DEF Kept, RequestsKept, EditsKept, Writing, FieldIds
      <4>2. Writing(d) => \A f \in DOMAIN req[d].edits : f <= made + 1
        BY <1>1, <4>1
      <4>3. Writing(d) => \A k \in Columns' : fields'[k].id \in DOMAIN req[d].edits => k \in Columns
        BY <1>2, <1>3, <4>1
      <4>4. Writing(d)' <=> Writing(d)
        BY <3>0 DEF Writing
      <4> QED
        BY <1>1, <1>3, <3>0, <4>2, <4>3, <4>4 DEF EditsKept
    <3>2. BaseKept(d)'
      <4>1. \A k \in Of({"relation"})' : k = key \/ (k \in Of({"relation"}) /\ k \in Columns)
        BY <1>3 DEF Of
      <4>2. PICK r, p, ids : r = req[d].row /\ p = DOMAIN req[d].patch /\ ids = DOMAIN req[d].edits
        OBVIOUS
      <4>3. ASSUME Updating(d), Writing(d), rows[r].version = req[d].base.version,
                   NEW k \in p, k \in Of({"relation"})'
            PROVE  fields'[k].id \in ids \/ EdgesOf(r, k)' = {}
        BY <1>3, <1>8, <1>9, <3>0, <4>1, <4>2, <4>3 DEF BaseKept, Writing, Updating
      <4> QED
        BY <1>1, <3>0, <4>2, <4>3 DEF BaseKept, EdgesOf, Writing, Updating
    <3> QED
      BY <3>0, <3>1, <3>2 DEF FreshKept
  <2> QED
    BY <2>2, <2>3
<1> QED
  BY <1>6, <1>7, <1>10, <1>11, <1>12, <1>13, <1>14 DEF Kept, RequestsKept

LEMMA DeletingField ==
  ASSUME Kept, [Next]_vars, NEW key \in Keys, DeleteField(key)
  PROVE  Kept'
<1>1. /\ key \in Columns /\ fields' = [fields EXCEPT ![key] = NoField]
      /\ rows' = [r \in Rows |->
                    IF r \in There /\ rows[r].cells[key] # Empty
                    THEN [cells |-> [rows[r].cells EXCEPT ![key] = Empty], version |-> rows[r].version + 1]
                    ELSE rows[r]]
      /\ edges' = {e \in edges : e[2] # fields[key].id}
      /\ strays' = {s \in strays : s[2] # key}
      /\ req' = Overtaken /\ UNCHANGED <<live, made, late>>
  BY DEF DeleteField
<1>2. Columns' = Columns \ {key} /\ \A k \in Columns' : fields'[k] = fields[k]
  BY <1>1 DEF Columns, Kept, TypeOK
<1>3. /\ \A kinds : Of(kinds)' = Of(kinds) \ {key}
      /\ \A kinds : Of(kinds) \subseteq Columns
  BY <1>2 DEF Of
<1>4. TypeOK'
  BY Types
<1>5. There' = There
  <2>1. ASSUME NEW r \in Rows
        PROVE  r \in There' <=> r \in There
    <3>1. CASE r \in There /\ rows[r].cells[key] # Empty
      <4>1. rows'[r].version = rows[r].version + 1 /\ rows[r].version < MaxVersion
        BY <1>1, <3>1 DEF DeleteField
      <4> QED
        BY <3>1, <4>1, BoundsAssumption DEF There
    <3>2. CASE ~(r \in There /\ rows[r].cells[key] # Empty)
      BY <1>1, <3>2 DEF There
    <3> QED
      BY <3>1, <3>2
  <2> QED
    BY <2>1 DEF There
<1>6. \A r \in There : rows'[r].cells[key] = Empty /\ \A k \in Keys \ {key} : rows'[r].cells[k] = rows[r].cells[k]
  <2>1. \A r \in There : r \in Rows /\ rows[r].cells \in [Keys -> Values \cup {Empty}]
    BY ColumnShape DEF Kept, There, Cells
  <2> QED
    BY <1>1, <2>1
<1>7. IdsKept'
  BY <1>1, <1>2 DEF Kept, IdsKept
<1>8. \A k \in Columns \ {key} : fields[k].id # fields[key].id
  BY <1>1 DEF Kept, IdsKept
<1>9. \A r, k : k \in Columns \ {key} => EdgesOf(r, k)' = EdgesOf(r, k)
  BY <1>1, <1>2, <1>8 DEF EdgesOf
<1>10. StraysComeFromOvertakenChecks'
  <2>1. ASSUME NEW r \in There, NEW k \in Keys, k # key
        PROVE  Typed(r, k)' \/ <<r, k>> \in strays'
    BY <1>1, <1>2, <1>6, <2>1 DEF Kept, StraysComeFromOvertakenChecks, Typed
  <2>2. ASSUME NEW r \in There
        PROVE  Typed(r, key)'
    BY <1>6 DEF Typed
  <2> QED
    BY <1>5, <2>1, <2>2 DEF StraysComeFromOvertakenChecks
<1>11. EdgesAreNamed'
  <2>1. ASSUME NEW e \in edges'
        PROVE  /\ e[1] \in There' /\ e[3] \in live'
               /\ \E k \in Of({"relation"})' : fields'[k].id = e[2] /\ rows'[e[1]].cells[k] = e[3]
    <3>1. e \in edges /\ e[2] # fields[key].id
      BY <1>1, <2>1
    <3>2. PICK k \in Of({"relation"}) : fields[k].id = e[2] /\ rows[e[1]].cells[k] = e[3]
      BY <3>1 DEF Kept, EdgesAreNamed
    <3>3. e[1] \in There /\ e[3] \in live /\ k \in Columns \ {key} /\ k \in Keys
      BY <1>3, <3>1, <3>2 DEF Kept, EdgesAreNamed, Columns
    <3> QED
      BY <1>1, <1>2, <1>3, <1>5, <1>6, <3>2, <3>3
  <2> QED
    BY <2>1 DEF EdgesAreNamed
<1>12. EdgesMissOnlyStrays'
  <2>1. ASSUME NEW r \in There, NEW k \in Of({"relation"}) \ {key}
        PROVE  EdgesOf(r, k)' = {rows'[r].cells[k]} \cap live' \/ <<r, k>> \in strays'
    <3>1. k \in Columns \ {key} /\ k \in Keys
      BY <1>3, <2>1 DEF Columns
    <3>2. EdgesOf(r, k) = {rows[r].cells[k]} \cap live \/ <<r, k>> \in strays
      BY <2>1 DEF Kept, EdgesMissOnlyStrays
    <3> QED
      BY <1>1, <1>6, <1>9, <3>1, <3>2
  <2> QED
    BY <1>3, <1>5, <2>1 DEF EdgesMissOnlyStrays
<1>13. CyclesComeFromOvertakenChecks'
  <2>1. ASSUME Cyclic'
        PROVE  Cyclic
    <3>1. PICK S \in (SUBSET Of({"formula"})') \ {{}} :
            \A n \in S : [k \in Of({"formula"})' |-> fields'[k].reads][n] \cap S # {}
      BY <2>1 DEF Cyclic, HasCycle
    <3>2. S \in (SUBSET Of({"formula"})) \ {{}} /\ \A n \in S : fields'[n] = fields[n]
      BY <1>2, <1>3
    <3>3. \A n \in S : [k \in Of({"formula"}) |-> fields[k].reads][n] \cap S # {}
      BY <3>1, <3>2
    <3> QED
      BY <3>2, <3>3 DEF Cyclic, HasCycle
  <2> QED
    BY <1>1, <2>1 DEF Kept, CyclesComeFromOvertakenChecks
<1>14. \A r \in Rows : rows[r].version \in Nat /\ rows'[r].version \in Nat /\
         (rows'[r] = rows[r] \/ rows'[r].version > rows[r].version)
  <2>1. \A r \in Rows : rows[r].version \in Nat
    BY VersionShape, BoundsAssumption DEF Kept
  <2> QED
    BY <1>1, <2>1
<1>15. ASSUME NEW d \in Clients
       PROVE  (EditsKept(d) /\ BaseKept(d) /\ FreshKept(d))'
  <2>1. req'[d] = Overtaken[d]
    BY <1>1
  <2>2. CASE req'[d] = Idle
    BY <2>2 DEF EditsKept, BaseKept, FreshKept, Writing, Updating, Idle
  <2>3. CASE req'[d] # Idle
    <3>0. /\ req'[d].stage = req[d].stage /\ req'[d].op = req[d].op /\ req'[d].edits = req[d].edits
          /\ req'[d].patch = req[d].patch /\ req'[d].row = req[d].row /\ req'[d].base = req[d].base
          /\ req'[d].fresh = FALSE
          /\ EditsKept(d) /\ BaseKept(d)
      BY <2>1, <2>3, OvertakenRequest
    <3>1. EditsKept(d)'
      <4>1. Writing(d)' <=> Writing(d)
        BY <3>0 DEF Writing
      <4>2. made' = made /\ Columns' \subseteq Columns
        BY <1>1, <1>2
      <4> QED
        BY <1>2, <3>0, <4>1, <4>2 DEF EditsKept
    <3>2. BaseKept(d)'
      <4>1. PICK r, p, ids : r = req[d].row /\ p = DOMAIN req[d].patch /\ ids = DOMAIN req[d].edits
        OBVIOUS
      <4>2. ASSUME Updating(d)
            PROVE  /\ req[d].base.version <= rows'[r].version
                   /\ rows'[r].version = req[d].base.version => rows'[r] = rows[r] /\ rows[r] = req[d].base
        <5>1. r \in Rows /\ req[d].base.version \in Nat
          BY <4>1, <4>2, RequestShape DEF Kept, RowsOf
        <5> QED
          BY <1>14, <3>0, <4>1, <4>2, <5>1 DEF BaseKept, Writing, Updating
      <4>3. ASSUME Updating(d), Writing(d), rows'[r].version = req[d].base.version,
                   NEW k \in p, k \in Of({"relation"})'
            PROVE  fields'[k].id \in ids \/ EdgesOf(r, k)' = {}
        BY <1>2, <1>3, <1>9, <3>0, <4>1, <4>2, <4>3 DEF BaseKept, Writing, Updating
      <4> QED
        BY <3>0, <4>1, <4>2, <4>3 DEF BaseKept, EdgesOf, Writing, Updating
    <3> QED
      BY <3>0, <3>1, <3>2 DEF FreshKept
  <2> QED
    BY <2>2, <2>3
<1> QED
  BY <1>4, <1>7, <1>10, <1>11, <1>12, <1>13, <1>15 DEF Kept, RequestsKept

\* The invariant, said of a row with these cells.
Holding(r, cells) ==
  /\ \A k \in Keys : cells[k] # Empty => (k \in Columns /\ Fits(fields[k].kind, cells[k])) \/ <<r, k>> \in strays
  /\ \A e \in edges : e[1] = r => \E k \in Of({"relation"}) : fields[k].id = e[2] /\ cells[k] = e[3]
  /\ \A k \in Of({"relation"}) : EdgesOf(r, k) = {cells[k]} \cap live \/ <<r, k>> \in strays

Covered(c, r) ==
  \A k \in DOMAIN req[c].patch \cap Of({"relation"}) :
    fields[k].id \in DOMAIN req[c].edits \/ EdgesOf(r, k) = {}

\* The row is written over what it held, or over nothing.
Writes(c, r, cells, version) ==
  /\ Writing(c) /\ KeysHold(req[c].edits)
  /\ rows' = [rows EXCEPT ![r] = [cells |-> Merged(cells, req[c].patch), version |-> version]]
  /\ edges' = Rewritten(r, req[c].edits)
  /\ strays' = Strays(r, c)
  /\ End(c) /\ UNCHANGED <<fields, live, made, late>>

LEMMA WritingRow ==
  ASSUME Kept, [Next]_vars, NEW c \in Clients, NEW r \in Rows, NEW cells \in Cells, NEW version \in 1..MaxVersion,
         rows[r].version < version, Holding(r, cells), Covered(c, r), Writes(c, r, cells, version)
  PROVE  Kept'
<1> USE DEF Holding, Covered, Writes
<1> PICK p, ed, fresh : p = req[c].patch /\ ed = req[c].edits /\ fresh = req[c].fresh
  OBVIOUS
<1>1. /\ p \in Patches /\ DOMAIN p \subseteq Keys /\ DOMAIN ed \subseteq FieldIds
      /\ \A f \in DOMAIN ed : ed[f] \in SUBSET Targets
  BY RequestShape, PatchShape, EditShape DEF Writing, Kept
<1>2. /\ rows'[r] = [cells |-> Merged(cells, p), version |-> version]
      /\ \A q \in Rows \ {r} : rows'[q] = rows[q]
  BY DEF Kept, TypeOK
<1>3. There' = There \cup {r} /\ Columns' = Columns /\ \A kinds : Of(kinds)' = Of(kinds)
  BY <1>2 DEF There, Columns, Of
<1>4. \A k \in Keys : rows'[r].cells[k] = IF k \notin DOMAIN p THEN cells[k] ELSE IF p[k] = Null THEN Empty ELSE p[k]
  BY <1>2 DEF Merged
<1>5. \A e : e \in edges' <=> \/ e \in edges /\ (e[1] # r \/ e[2] \notin DOMAIN ed)
                              \/ e \in {r} \X FieldIds \X Targets /\ e[2] \in DOMAIN ed /\ e[3] \in ed[e[2]]
  BY DEF Rewritten
<1>6. \A q, k : <<q, k>> \in strays' <=> \/ <<q, k>> \in strays /\ (q # r \/ k \notin DOMAIN p)
                                         \/ ~fresh /\ q = r /\ k \in DOMAIN p
  BY DEF Strays
<1>7. \A k \in Columns : fields[k].id \in DOMAIN ed =>
         /\ fields[k].kind = "relation" /\ k \in DOMAIN p
         /\ ed[fields[k].id] = IF p[k] = Null THEN {} ELSE {p[k]}
  BY DEF Kept, RequestsKept, EditsKept
<1>8. fresh => Acceptable(p) /\ \A k \in DOMAIN p \cap Of({"relation"}) : fields[k].id \in DOMAIN ed
  BY RequestShape DEF Kept, RequestsKept, EditsKept, FreshKept, Writing, Idle
<1>9. \A q, k : q # r => EdgesOf(q, k)' = EdgesOf(q, k)
  BY <1>5 DEF EdgesOf
<1>10. ASSUME NEW k, fields[k].id \notin DOMAIN ed
       PROVE  EdgesOf(r, k)' = EdgesOf(r, k)
  BY <1>5, <1>10 DEF EdgesOf
<1>11. ASSUME NEW k, fields[k].id \in DOMAIN ed
       PROVE  EdgesOf(r, k)' = ed[fields[k].id]
  BY <1>1, <1>5, <1>11 DEF EdgesOf
<1>12. TypeOK' /\ IdsKept'
  BY <1>3, Types DEF Kept, IdsKept
<1>13. StraysComeFromOvertakenChecks'
  <2>1. ASSUME NEW q \in There, q # r, NEW k \in Keys
        PROVE  Typed(q, k)' \/ <<q, k>> \in strays'
    BY <1>2, <1>3, <1>6, <2>1 DEF Kept, StraysComeFromOvertakenChecks, Typed, There
  <2>2. ASSUME NEW k \in Keys \ DOMAIN p
        PROVE  Typed(r, k)' \/ <<r, k>> \in strays'
    BY <1>3, <1>4, <1>6 DEF Typed
  <2>3. ASSUME NEW k \in DOMAIN p
        PROVE  Typed(r, k)' \/ <<r, k>> \in strays'
    BY <1>1, <1>3, <1>4, <1>6, <1>8 DEF Typed, Acceptable
  <2> QED
    BY <1>3, <2>1, <2>2, <2>3 DEF StraysComeFromOvertakenChecks
<1>14. EdgesAreNamed'
  <2>1. ASSUME NEW e \in edges, e[1] # r
        PROVE  e[1] \in There' /\ e[3] \in live' /\ \E k \in Of({"relation"})' : fields'[k].id = e[2] /\ rows'[e[1]].cells[k] = e[3]
    <3>1. e[1] \in There /\ e[1] \in Rows \ {r}
      BY <2>1 DEF Kept, EdgesAreNamed, There
    <3> QED
      BY <1>2, <1>3, <2>1, <3>1 DEF Kept, EdgesAreNamed
  <2>2. ASSUME NEW e \in edges, e[1] = r, e[2] \notin DOMAIN ed
        PROVE  e[1] \in There' /\ e[3] \in live' /\ \E k \in Of({"relation"})' : fields'[k].id = e[2] /\ rows'[e[1]].cells[k] = e[3]
    <3>1. PICK k \in Of({"relation"}) : fields[k].id = e[2] /\ cells[k] = e[3]
      BY <2>2
    <3>2. e = <<r, fields[k].id, e[3]>> /\ e[3] \in Targets
      BY <2>2, <3>1 DEF Kept, TypeOK
    <3>3. EdgesOf(r, k) # {}
      BY <3>2 DEF EdgesOf
    <3>4. k \in Keys \ DOMAIN p
      BY <2>2, <3>1, <3>3 DEF Of, Columns
    <3> QED
      BY <1>3, <1>4, <2>2, <3>1, <3>4 DEF Kept, EdgesAreNamed
  <2>3. ASSUME NEW e \in {r} \X FieldIds \X Targets, e[2] \in DOMAIN ed, e[3] \in ed[e[2]]
        PROVE  e[1] \in There' /\ e[3] \in live' /\ \E k \in Of({"relation"})' : fields'[k].id = e[2] /\ rows'[e[1]].cells[k] = e[3]
    <3>1. PICK k \in Columns : fields[k].id = e[2]
      BY <2>3 DEF KeysHold
    <3>2. e[3] \in live
      BY <2>3 DEF KeysHold
    <3>3. fields[k].kind = "relation" /\ k \in DOMAIN p /\ p[k] # Null /\ p[k] = e[3]
      BY <1>7, <2>3, <3>1
    <3> QED
      BY <1>1, <1>3, <1>4, <2>3, <3>1, <3>2, <3>3 DEF Of
  <2> QED
    BY <1>5, <2>1, <2>2, <2>3 DEF EdgesAreNamed
<1>15. EdgesMissOnlyStrays'
  <2>1. ASSUME NEW q \in There, q # r, NEW k \in Of({"relation"})
        PROVE  EdgesOf(q, k)' = {rows'[q].cells[k]} \cap live' \/ <<q, k>> \in strays'
    BY <1>2, <1>6, <1>9, <2>1 DEF Kept, EdgesMissOnlyStrays, There
  <2>2. ASSUME NEW k \in Of({"relation"}), k \notin DOMAIN p
        PROVE  EdgesOf(r, k)' = {rows'[r].cells[k]} \cap live' \/ <<r, k>> \in strays'
    <3>1. k \in Keys /\ k \in Columns /\ fields[k].id \notin DOMAIN ed
      BY <1>7, <2>2 DEF Of, Columns
    <3>2. EdgesOf(r, k)' = EdgesOf(r, k) /\ rows'[r].cells[k] = cells[k]
      BY <1>4, <1>10, <2>2, <3>1
    <3> QED
      BY <1>6, <2>2, <3>2
  <2>3. ASSUME NEW k \in Of({"relation"}), k \in DOMAIN p, fresh
        PROVE  EdgesOf(r, k)' = {rows'[r].cells[k]} \cap live'
    <3>1. k \in Keys /\ k \in Columns /\ fields[k].id \in DOMAIN ed
      BY <1>8, <2>3 DEF Of, Columns
    <3>2. EdgesOf(r, k)' = IF p[k] = Null THEN {} ELSE {p[k]}
      BY <1>7, <1>11, <3>1
    <3>3. p[k] # Null => p[k] \in live
      BY <1>7, <3>1 DEF KeysHold
    <3>4. Empty \notin live
      BY ValuesAssumption DEF Empty, Kept, TypeOK
    <3> QED
      BY <1>4, <2>3, <3>1, <3>2, <3>3, <3>4
  <2> QED
    BY <1>3, <1>6, <2>1, <2>2, <2>3 DEF EdgesMissOnlyStrays
<1>16. CyclesComeFromOvertakenChecks'
  BY <1>3 DEF Kept, CyclesComeFromOvertakenChecks, Cyclic
<1>17. ASSUME NEW d \in Clients
       PROVE  (EditsKept(d) /\ BaseKept(d) /\ FreshKept(d))'
  <2>1. CASE d = c
    <3>1. req'[d] = Idle
      BY <2>1 DEF End, Kept, TypeOK
    <3> QED
      BY <3>1 DEF EditsKept, BaseKept, FreshKept, Writing, Updating, Idle
  <2>2. CASE d # c
    <3>1. req'[d] = req[d]
      BY <2>2 DEF End, Kept, TypeOK
    <3>2. EditsKept(d)'
      <4>1. Writing(d)' <=> Writing(d)
        BY <3>1 DEF Writing
      <4>2. EditsKept(d) /\ fields' = fields /\ made' = made
        BY DEF Kept, RequestsKept
      <4> QED
        BY <1>3, <3>1, <4>1, <4>2 DEF EditsKept
    <3>3. FreshKept(d)'
      <4>1. \A x : Acceptable(x)' = Acceptable(x)
        BY <1>3 DEF Acceptable
      <4>2. FormulaSound(req[d].key, req[d].reads)' = FormulaSound(req[d].key, req[d].reads)
        BY <1>3, <3>1 DEF FormulaSound
      <4> QED
        BY <3>1, <4>1, <4>2 DEF Kept, RequestsKept, FreshKept
    <3>4. BaseKept(d)'
      <4> PICK q, base : q = req[d].row /\ base = req[d].base
        OBVIOUS
      <4>1. CASE Updating(d) /\ q = r
        <5>1. base.version \in Nat /\ base.version <= rows[r].version
          <6>1. base \in RowsOf
            BY <4>1, RequestShape DEF Kept
          <6>2. base.version \in Nat
            BY <6>1, BoundsAssumption DEF RowsOf
          <6>3. BaseKept(d)
            BY DEF Kept, RequestsKept
          <6> QED
            BY <4>1, <6>2, <6>3 DEF BaseKept
        <5>2. rows[r].version \in Nat /\ version \in Nat /\ rows'[r].version = version
          BY <1>2, VersionShape, BoundsAssumption DEF Kept
        <5>3. base.version <= rows'[r].version /\ rows'[r].version # base.version
          BY <5>1, <5>2
        <5>4. req'[d].base.version <= rows'[req'[d].row].version /\ rows'[req'[d].row].version # req'[d].base.version
          BY <3>1, <4>1, <5>3
        <5> QED
          BY <5>4, Zenon DEF BaseKept
      <4>2. CASE Updating(d) /\ q # r
        <5>1. q \in Rows /\ rows'[q] = rows[q] /\ \A k : EdgesOf(q, k)' = EdgesOf(q, k)
          BY <1>2, <1>9, <4>2, RequestShape DEF Kept
        <5> QED
          BY <1>3, <3>1, <5>1 DEF Kept, RequestsKept, BaseKept, EdgesOf, Writing, Updating
      <4>3. CASE ~Updating(d)
        BY <3>1, <4>3 DEF BaseKept, Updating
      <4> QED
        BY <4>1, <4>2, <4>3
    <3> QED
      BY <3>2, <3>3, <3>4
  <2> QED
    BY <2>1, <2>2
<1> QED
  BY <1>12, <1>13, <1>14, <1>15, <1>16, <1>17 DEF Kept, RequestsKept

LEMMA InsertingRow ==
  ASSUME Kept, [Next]_vars, NEW c \in Clients, InsertRow(c), ~Fail(c)
  PROVE  Kept'
<1>1. PICK r \in Rows : rows[r] = NoRow /\ Writes(c, r, NoCells, 1)
  BY DEF InsertRow, Writing, Writes
<1>2. r \notin There /\ rows[r].version < 1
  BY <1>1 DEF There, NoRow
<1>3. \A e \in edges : e[1] # r
  BY <1>2 DEF Kept, EdgesAreNamed
<1>4. \A k : EdgesOf(r, k) = {}
  BY <1>3 DEF EdgesOf
<1>5. NoCells \in Cells /\ 1 \in 1..MaxVersion /\ \A k \in Keys : NoCells[k] = Empty
  BY BoundsAssumption DEF NoCells, Cells
<1>6. \A k \in Of({"relation"}) : EdgesOf(r, k) = {NoCells[k]} \cap live
  <2>1. Empty \notin live
    BY ValuesAssumption DEF Empty, Kept, TypeOK
  <2> QED
    BY <1>4, <1>5, <2>1 DEF Of, Columns
<1>7. Holding(r, NoCells) /\ Covered(c, r)
  BY <1>3, <1>4, <1>5, <1>6 DEF Holding, Covered
<1> QED
  BY <1>1, <1>2, <1>5, <1>7, WritingRow

LEMMA UpdatingRow ==
  ASSUME Kept, [Next]_vars, NEW c \in Clients, UpdateRow(c), ~Fail(c)
  PROVE  Kept'
<1>0. PICK r, cells, version : r = req[c].row /\ cells = req[c].base.cells /\ version = rows[r].version + 1
  OBVIOUS
<1>1. rows[r].version = req[c].base.version /\ rows[r].version < MaxVersion /\ Writes(c, r, cells, version)
  BY <1>0 DEF UpdateRow, Writing, Writes
<1>2. Updating(c)
  BY DEF UpdateRow, Updating
<1>3. r \in Rows /\ req[c].base \in RowsOf
  BY <1>0, <1>2, RequestShape DEF Kept
<1>4. rows[r] = req[c].base /\ Covered(c, r)
  BY <1>0, <1>1, <1>2 DEF Kept, RequestsKept, BaseKept, Covered, Writes
<1>5. /\ r \in There /\ cells = rows[r].cells /\ cells \in Cells
      /\ version \in 1..MaxVersion /\ rows[r].version < version
  <2>1. rows[r].version \in 1..MaxVersion /\ rows[r].cells \in Cells /\ cells = rows[r].cells
    BY <1>0, <1>3, <1>4 DEF RowsOf
  <2> QED
    BY <1>0, <1>1, <1>3, <2>1, BoundsAssumption DEF There
<1>6. Holding(r, cells)
  BY <1>5 DEF Kept, StraysComeFromOvertakenChecks, Typed, EdgesAreNamed, EdgesMissOnlyStrays, Holding
<1> QED
  BY <1>1, <1>3, <1>4, <1>5, <1>6, WritingRow

LEMMA DeletingRow ==
  ASSUME Kept, [Next]_vars, NEW r \in Rows, DeleteRow(r)
  PROVE  Kept'
<1>1. /\ r \in There /\ rows' = [rows EXCEPT ![r] = Gone] /\ edges' = {e \in edges : e[1] # r}
      /\ strays' = {s \in strays : s[1] # r} /\ UNCHANGED <<fields, live, made, req, late>>
  BY DEF DeleteRow
<1>2. rows'[r] = Gone /\ \A q \in Rows \ {r} : rows'[q] = rows[q]
  BY <1>1 DEF Kept, TypeOK
<1>3. There' = There \ {r} /\ Columns' = Columns /\ \A kinds : Of(kinds)' = Of(kinds)
  BY <1>1, <1>2, BoundsAssumption DEF There, Columns, Of, Gone
<1>4. TypeOK' /\ IdsKept'
  BY <1>1, <1>3, Types DEF Kept, IdsKept
<1>5. \A q, k : q # r => EdgesOf(q, k)' = EdgesOf(q, k)
  BY <1>1 DEF EdgesOf
<1>6. StraysComeFromOvertakenChecks'
  <2>1. ASSUME NEW q \in There, q # r, NEW k \in Keys
        PROVE  Typed(q, k)' \/ <<q, k>> \in strays'
    BY <1>1, <1>2, <1>3, <2>1 DEF Kept, StraysComeFromOvertakenChecks, Typed, There
  <2> QED
    BY <1>3, <2>1 DEF StraysComeFromOvertakenChecks
<1>7. EdgesAreNamed'
  BY <1>1, <1>2, <1>3 DEF Kept, EdgesAreNamed, There
<1>8. EdgesMissOnlyStrays'
  BY <1>1, <1>2, <1>3, <1>5 DEF Kept, EdgesMissOnlyStrays, There
<1>9. CyclesComeFromOvertakenChecks'
  BY <1>1, <1>3 DEF Kept, CyclesComeFromOvertakenChecks, Cyclic
<1>10. ASSUME NEW d \in Clients
       PROVE  (EditsKept(d) /\ BaseKept(d) /\ FreshKept(d))'
  <2>1. EditsKept(d)'
    BY <1>1, <1>3 DEF Kept, RequestsKept, EditsKept, Writing
  <2>2. FreshKept(d)'
    <3>1. \A x : Acceptable(x)' = Acceptable(x)
      BY <1>1, <1>3 DEF Acceptable
    <3>2. FormulaSound(req[d].key, req[d].reads)' = FormulaSound(req[d].key, req[d].reads)
      BY <1>1, <1>3 DEF FormulaSound
    <3> QED
      BY <1>1, <3>1, <3>2 DEF Kept, RequestsKept, FreshKept
  <2>3. BaseKept(d)'
    <3> PICK q, base : q = req[d].row /\ base = req[d].base
      OBVIOUS
    <3>1. CASE Updating(d) /\ q = r
      <4>1. base \in RowsOf
        BY <3>1, RequestShape DEF Kept
      <4>2. base.version <= rows'[r].version /\ rows'[r].version # base.version
        BY <1>2, <4>1, BoundsAssumption DEF Gone, RowsOf
      <4>3. req'[d].base.version <= rows'[req'[d].row].version /\ rows'[req'[d].row].version # req'[d].base.version
        BY <1>1, <3>1, <4>2
      <4> QED
        BY <4>3, Zenon DEF BaseKept
    <3>2. CASE Updating(d) /\ q # r
      <4>1. q \in Rows /\ rows'[q] = rows[q] /\ \A k : EdgesOf(q, k)' = EdgesOf(q, k)
        BY <1>2, <1>5, <3>2, RequestShape DEF Kept
      <4> QED
        BY <1>1, <1>3, <4>1 DEF Kept, RequestsKept, BaseKept, EdgesOf, Writing, Updating
    <3>3. CASE ~Updating(d)
      BY <1>1, <3>3 DEF BaseKept, Updating
    <3> QED
      BY <3>1, <3>2, <3>3
  <2> QED
    BY <2>1, <2>2, <2>3
<1> QED
  BY <1>4, <1>6, <1>7, <1>8, <1>9, <1>10 DEF Kept, RequestsKept

LEMMA DeletingTarget ==
  ASSUME Kept, [Next]_vars, NEW t \in Targets, DeleteTarget(t)
  PROVE  Kept'
<1>1. /\ live' = live \ {t} /\ edges' = {e \in edges : e[3] # t}
      /\ UNCHANGED <<fields, rows, made, req, strays, late>>
  BY DEF DeleteTarget
<1>2. Columns' = Columns /\ There' = There /\ \A kinds : Of(kinds)' = Of(kinds)
  BY <1>1 DEF Columns, There, Of
<1>3. TypeOK' /\ IdsKept'
  BY <1>1, <1>2, Types DEF Kept, IdsKept
<1>4. \A q, k : EdgesOf(q, k)' = EdgesOf(q, k) \ {t}
  BY <1>1 DEF EdgesOf
<1>5. StraysComeFromOvertakenChecks'
  BY <1>1, <1>2 DEF Kept, StraysComeFromOvertakenChecks, Typed
<1>6. EdgesAreNamed'
  BY <1>1, <1>2 DEF Kept, EdgesAreNamed
<1>7. EdgesMissOnlyStrays'
  BY <1>1, <1>2, <1>4 DEF Kept, EdgesMissOnlyStrays
<1>8. CyclesComeFromOvertakenChecks'
  BY <1>1, <1>2 DEF Kept, CyclesComeFromOvertakenChecks, Cyclic
<1>9. ASSUME NEW d \in Clients
      PROVE  (EditsKept(d) /\ BaseKept(d) /\ FreshKept(d))'
  <2>1. EditsKept(d)'
    BY <1>1, <1>2 DEF Kept, RequestsKept, EditsKept, Writing
  <2>2. FreshKept(d)'
    <3>1. \A x : Acceptable(x)' = Acceptable(x)
      BY <1>1, <1>2 DEF Acceptable
    <3>2. FormulaSound(req[d].key, req[d].reads)' = FormulaSound(req[d].key, req[d].reads)
      BY <1>1, <1>2 DEF FormulaSound
    <3> QED
      BY <1>1, <3>1, <3>2 DEF Kept, RequestsKept, FreshKept
  <2>3. BaseKept(d)'
    BY <1>1, <1>2 DEF Kept, RequestsKept, BaseKept, Writing, Updating, EdgesOf
  <2> QED
    BY <2>1, <2>2, <2>3
<1> QED
  BY <1>3, <1>5, <1>6, <1>7, <1>8, <1>9 DEF Kept, RequestsKept

-----------------------------------------------------------------------------
(* The theorems *)

LEMMA Initially == Init => Kept
<1> SUFFICES ASSUME Init
             PROVE  Kept
  OBVIOUS
<1>1. Columns = {} /\ There = {} /\ \A kinds : Of(kinds) = {}
  BY BoundsAssumption DEF Init, Columns, There, Of, NoRow
<1>2. TypeOK
  <2>1. Idle \in Requests /\ 0 \in 0..MaxIds
    BY BoundsAssumption DEF Requests
  <2> QED
    BY <2>1 DEF Init, TypeOK
<1>3. IdsKept /\ EdgesAreNamed /\ EdgesMissOnlyStrays /\ StraysComeFromOvertakenChecks
  BY <1>1 DEF Init, IdsKept, EdgesAreNamed, EdgesMissOnlyStrays, StraysComeFromOvertakenChecks
<1>4. ~Cyclic
  <2>1. Of({"formula"}) = {}
    BY <1>1
  <2>2. \A S \in SUBSET Of({"formula"}) : S = {}
    BY <2>1
  <2> QED
    BY <2>2 DEF Cyclic, HasCycle
<1>5. RequestsKept
  BY DEF Init, RequestsKept, EditsKept, BaseKept, FreshKept, Writing, Updating, Idle
<1> QED
  BY <1>2, <1>3, <1>4, <1>5 DEF Kept, CyclesComeFromOvertakenChecks

LEMMA Preserved == Kept /\ [Next]_vars => Kept'
<1> SUFFICES ASSUME Kept, [Next]_vars
             PROVE  Kept'
  OBVIOUS
<1>1. CASE UNCHANGED vars
  BY <1>1, Types, Unwritten DEF vars
<1>2. ASSUME NEW c \in Clients, AddField(c)
      PROVE  Kept'
  BY <1>2, AddingField, Failing
<1>3. ASSUME NEW c \in Clients, PlanRow(c)
      PROVE  Kept'
  BY <1>3, PlanningRow, Failing
<1>4. ASSUME NEW c \in Clients, InsertRow(c)
      PROVE  Kept'
  BY <1>4, InsertingRow, Failing
<1>5. ASSUME NEW c \in Clients, UpdateRow(c)
      PROVE  Kept'
  BY <1>5, UpdatingRow, Failing
<1>6. ASSUME NEW c \in Clients, SaveView(c)
      PROVE  Kept'
  <2>1. CASE Fail(c)
    BY <2>1, Failing
  <2>2. CASE ~Fail(c)
    <3>1. End(c) /\ UNCHANGED <<fields, rows, edges, live, made, strays, late>>
      BY <1>6, <2>2 DEF SaveView
    <3> QED
      BY <3>1, MovesOn DEF End
  <2> QED
    BY <2>1, <2>2
<1>7. ASSUME NEW c \in Clients, Abandon(c)
      PROVE  Kept'
  BY <1>7, Failing DEF Abandon
<1>8. CASE Reveal
  BY <1>8, Types, Unwritten DEF Reveal
<1>9. ASSUME NEW v \in Views, DeleteView(v)
      PROVE  Kept'
  BY <1>9, Types, Unwritten DEF DeleteView
<1> QED
  BY <1>1, <1>2, <1>3, <1>4, <1>5, <1>6, <1>7, <1>8, <1>9, CheckingField, CheckingRow, CheckingForm,
     FetchingRow, CheckingView, DeletingField, DeletingRow, DeletingTarget
  DEF Next

LEMMA AlwaysKept == Spec => []Kept
  BY Initially, Preserved, PTL DEF Spec

\* Rows, columns, edges, views and what a request carries stay what the tables allow.
THEOREM TypesHold == Spec => []TypeOK
<1>1. Kept => TypeOK
  BY DEF Kept
<1> QED
  BY <1>1, AlwaysKept, PTL

\* A value without a column of its kind was written by a request whose columns changed after it had
\* checked: no delete of a column, and no column made again under an old name, leaves one behind.
THEOREM StraysAreExplained == Spec => []StraysComeFromOvertakenChecks
<1>1. Kept => StraysComeFromOvertakenChecks
  BY DEF Kept
<1> QED
  BY <1>1, AlwaysKept, PTL

\* Every edge has a row, a relation column, a target and the cell that names it; a cell that names a
\* row and has no edge was written by a request whose columns changed.
THEOREM EdgesAlwaysFollow == Spec => []EdgesFollowCells
<1>1. Kept => EdgesFollowCells
  BY DEF Kept, EdgesFollowCells
<1> QED
  BY <1>1, AlwaysKept, PTL

\* A ring of formulas has one that was checked against columns that changed before it was stored.
THEOREM RingsAreExplained == Spec => []CyclesComeFromOvertakenChecks
<1>1. Kept => CyclesComeFromOvertakenChecks
  BY DEF Kept
<1> QED
  BY <1>1, AlwaysKept, PTL

\* No update is lost: an edit goes over what the row holds when it is written, and the version moves.
THEOREM RowsAreNotLost == Spec => RowsKeepWhatIsNotNamed
<1> DEFINE kept ==
      \A r \in There :
        rows'[r] \notin {rows[r], Gone} =>
          rows'[r].version = rows[r].version + 1 /\ (LosesColumn(r) \/ TakesPatch(r))
<1>1. ASSUME Kept, Next
      PROVE  kept
  <2>1. ASSUME NEW key \in Keys, DeleteField(key)
        PROVE  kept
    <3>1. key \in Columns /\ fields'[key] = NoField
      BY <1>1, <2>1 DEF DeleteField, Kept, TypeOK
    <3>2. ASSUME NEW r \in There, rows'[r] # rows[r]
          PROVE  rows'[r].version = rows[r].version + 1 /\ rows'[r].cells = [rows[r].cells EXCEPT ![key] = Empty]
      <4> PICK x, n : x = [rows[r].cells EXCEPT ![key] = Empty] /\ n = rows[r].version + 1
        OBVIOUS
      <4>1. rows'[r] = [cells |-> x, version |-> n]
        BY <2>1, <3>2 DEF DeleteField, There
      <4> QED
        BY <4>1
    <3>4. \A r \in There : rows'[r] # rows[r] => LosesColumn(r)
      BY <3>1, <3>2 DEF LosesColumn
    <3> QED
      BY <3>2, <3>4
  <2>2. ASSUME NEW c \in Clients, InsertRow(c), ~Fail(c)
        PROVE  kept
    <3>1. PICK q \in Rows : rows[q] = NoRow /\ \A r \in Rows \ {q} : rows'[r] = rows[r]
      BY <1>1, <2>2 DEF InsertRow, Kept, TypeOK
    <3> QED
      BY <3>1 DEF There, NoRow
  <2>3. ASSUME NEW c \in Clients, UpdateRow(c), ~Fail(c)
        PROVE  kept
    <3>1. Updating(c) /\ req[c] # Idle /\ req[c].stage = "write" /\ End(c)
      BY <2>3 DEF UpdateRow, Updating, Idle
    <3>2. req[c].row \in Rows /\ req'[c] = Idle
      BY <1>1, <3>1, RequestShape DEF Kept, End, TypeOK
    <3>3. rows[req[c].row] = req[c].base
      BY <1>1, <2>3, <3>1 DEF UpdateRow, Kept, RequestsKept, BaseKept
    <3>4. /\ rows' = [rows EXCEPT ![req[c].row] = [cells |-> Merged(req[c].base.cells, req[c].patch), version |-> @.version + 1]]
      BY <2>3 DEF UpdateRow
    <3>5. ASSUME NEW r \in There, rows'[r] # rows[r]
          PROVE  rows'[r].version = rows[r].version + 1 /\ rows'[r].cells = Merged(rows[r].cells, req[c].patch)
      <4> PICK x, n : x = Merged(rows[r].cells, req[c].patch) /\ n = rows[r].version + 1
        OBVIOUS
      <4>1. rows'[r] = [cells |-> x, version |-> n]
        BY <1>1, <3>2, <3>3, <3>4, <3>5 DEF Kept, TypeOK, There
      <4> QED
        BY <4>1
    <3>6. \A r \in There : rows'[r] # rows[r] => TakesPatch(r)
      BY <3>1, <3>2, <3>5 DEF TakesPatch
    <3> QED
      BY <3>5, <3>6
  <2>4. ASSUME NEW q \in Rows, DeleteRow(q)
        PROVE  kept
    BY <1>1, <2>4 DEF DeleteRow, Kept, TypeOK, There
  <2>5. CASE UNCHANGED rows
    BY <2>5
  <2> QED
    BY <1>1, <2>1, <2>2, <2>3, <2>4, <2>5
    DEF Next, Fail, CheckField, AddField, CheckRow, CheckForm, FetchRow, PlanRow, CheckView, SaveView, Abandon,
        DeleteTarget, Reveal, DeleteView
<1>2. Kept /\ [Next]_vars => [kept]_vars
  BY <1>1
<1> QED
  BY <1>2, AlwaysKept, PTL DEF Spec, RowsKeepWhatIsNotNamed

\* The cap on rows holds however many requests insert at once: they are counted where they are written.
THEOREM CapHolds == Spec => []RowsWithinCap
<1> DEFINE Capped == IsFiniteSet(There) /\ RowsWithinCap
<1>1. Init => Capped
  <2>1. Init => There = {}
    BY BoundsAssumption DEF Init, There, NoRow
  <2> QED
    BY <2>1, FS_EmptySet, BoundsAssumption DEF RowsWithinCap
<1>2. ASSUME Kept, Capped, Next
      PROVE  Capped'
  <2>1. ASSUME NEW key \in Keys, DeleteField(key)
        PROVE  There' \subseteq There
    <3>1. ASSUME NEW r \in Rows \ There
          PROVE  rows'[r] = rows[r]
      BY <2>1, <3>1 DEF DeleteField
    <3> QED
      BY <3>1 DEF There
  <2>2. ASSUME NEW c \in Clients, InsertRow(c), ~Fail(c)
        PROVE  Cardinality(There) < MaxRows /\ \E r \in Rows : There' \subseteq There \cup {r}
    <3>1. Cardinality(There) \in Nat /\ ~(Cardinality(There) >= MaxRows)
      BY <1>2, <2>2, FS_CardinalityType DEF InsertRow
    <3>2. PICK r \in Rows : \A q \in Rows \ {r} : rows'[q] = rows[q]
      BY <1>2, <2>2 DEF InsertRow, Kept, TypeOK
    <3> QED
      BY <3>1, <3>2, BoundsAssumption DEF There
  <2>3. ASSUME NEW c \in Clients, UpdateRow(c), ~Fail(c)
        PROVE  There' \subseteq There
    <3>1. Updating(c)
      BY <2>3 DEF UpdateRow, Updating
    <3>2. req[c].base \in RowsOf /\ rows[req[c].row].version = req[c].base.version
      BY <1>2, <2>3, <3>1, RequestShape DEF Kept, UpdateRow
    <3>3. rows[req[c].row].version \in 1..MaxVersion
      BY <3>2 DEF RowsOf
    <3>4. \A q \in Rows : q # req[c].row => rows'[q] = rows[q]
      BY <1>2, <2>3 DEF UpdateRow, Kept, TypeOK
    <3> QED
      BY <3>3, <3>4 DEF There
  <2>4. ASSUME NEW q \in Rows, DeleteRow(q)
        PROVE  There' \subseteq There
    <3>1. q \in There /\ \A r \in Rows : r # q => rows'[r] = rows[r]
      BY <1>2, <2>4 DEF DeleteRow, Kept, TypeOK
    <3> QED
      BY <3>1 DEF There
  <2>5. ASSUME UNCHANGED rows
        PROVE  There' \subseteq There
    BY <2>5 DEF There
  <2>6. ASSUME There' \subseteq There
        PROVE  Capped'
    <3>1. IsFiniteSet(There') /\ Cardinality(There') <= Cardinality(There)
      BY <1>2, <2>6, FS_Subset
    <3>2. Cardinality(There) \in Nat /\ Cardinality(There') \in Nat
      BY <1>2, <3>1, FS_CardinalityType
    <3> QED
      BY <1>2, <3>1, <3>2, BoundsAssumption DEF RowsWithinCap
  <2>7. ASSUME NEW r \in Rows, Cardinality(There) < MaxRows, There' \subseteq There \cup {r}
        PROVE  Capped'
    <3>1. IsFiniteSet(There \cup {r}) /\ Cardinality(There \cup {r}) <= Cardinality(There) + 1
      <4>1. IsFiniteSet(There) /\ Cardinality(There) \in Nat
        BY <1>2, FS_CardinalityType
      <4>2. IsFiniteSet(There \cup {r}) /\ Cardinality(There \cup {r}) = IF r \in There THEN Cardinality(There) ELSE Cardinality(There) + 1
        BY <4>1, FS_AddElement
      <4> QED
        BY <4>1, <4>2
    <3>2. IsFiniteSet(There') /\ Cardinality(There') <= Cardinality(There \cup {r})
      BY <2>7, <3>1, FS_Subset
    <3>3. Cardinality(There) \in Nat /\ Cardinality(There') \in Nat /\ Cardinality(There \cup {r}) \in Nat
      BY <1>2, <3>1, <3>2, FS_CardinalityType
    <3> QED
      BY <2>7, <3>1, <3>2, <3>3, BoundsAssumption DEF RowsWithinCap
  <2>8. CASE UNCHANGED rows
    BY <2>5, <2>6, <2>8
  <2> QED
    BY <1>2, <2>1, <2>2, <2>3, <2>4, <2>6, <2>7, <2>8
    DEF Next, Fail, CheckField, AddField, CheckRow, CheckForm, FetchRow, PlanRow, CheckView, SaveView, Abandon,
        DeleteTarget, Reveal, DeleteView
<1>3. Capped /\ UNCHANGED vars => Capped'
  BY DEF vars, There, RowsWithinCap
<1> QED
  BY <1>1, <1>2, <1>3, AlwaysKept, PTL DEF Spec

=============================================================================
