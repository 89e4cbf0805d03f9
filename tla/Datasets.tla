------------------------------ MODULE Datasets ------------------------------
(***************************************************************************)
(* One dataset: its columns, its rows, the edges behind its relation cells *)
(* and its saved views.  The code is gw-store/src/datasets.rs with         *)
(* datasets/relation.rs, rollup.rs and views.rs and migrations 0020-0022.  *)
(*                                                                         *)
(* A request asks its questions in queries of their own (what columns are  *)
(* there, what does the row hold, do the linked rows exist) and writes in  *)
(* one transaction, or one statement, after them.  Between two of its      *)
(* steps other requests run.  Foreign keys are enforced: a transaction     *)
(* that breaks one is rolled back as a whole.                              *)
(*                                                                         *)
(* Left out: who may write (PageTree, AccessRule), labels and positions,   *)
(* person and file cells, list-valued cells, sizes in bytes.  All relation *)
(* columns point at one other dataset, whose rows are Targets.             *)
(***************************************************************************)
EXTENDS Naturals, FiniteSets

CONSTANTS
  Keys,      \* names of columns
  Rows,      \* row ids, each used once
  Targets,   \* rows of the dataset that relations point at
  Views,     \* view ids, each used once
  Clients,   \* requests at one time
  Number, Option,   \* a cell that is a number, and one that is an option of a select
  Kinds,     \* the kinds of column that are offered
  MaxRows, MaxViews,            \* the caps of the code
  MaxIds, MaxVersion, MaxNamed  \* bounds of the model: columns ever made, versions of a row,
                                \* cells and references that one request names

ASSUME KindsAssumption == Kinds \subseteq {"number", "select", "relation", "rollup", "formula"}
ASSUME NamesAssumption == "new" \notin Keys
ASSUME ValuesAssumption ==
  Number # Option /\ {Number, Option} \cap Targets = {} /\ {"empty", "null"} \cap ({Number, Option} \cup Targets) = {}
ASSUME BoundsAssumption == {MaxRows, MaxViews, MaxIds, MaxVersion, MaxNamed} \subseteq Nat /\ MaxVersion # 0

VARIABLES
  fields,    \* dataset_field: [Keys -> the column of that name]
  rows,      \* dataset_row: [Rows -> cells and version]
  edges,     \* dataset_relation: triples of row, column id, target row
  live,      \* the target rows there are
  readable,  \* whether the callers may read the target dataset
  views,     \* dataset_view: [Views -> kind and the column named]
  made,      \* how many columns were ever made: their ids
  req,       \* [Clients -> the request under way]
  strays,    \* cells written by a request whose columns had changed since it looked at them
  late       \* whether a formula was stored by such a request

vars == <<fields, rows, edges, live, readable, views, made, req, strays, late>>

Computed == {"rollup", "formula"}
Values   == {Number, Option} \cup Targets
FieldIds == 1..MaxIds

NoField == [kind |-> "none"]
NoRow   == [version |-> 0]   \* not made yet, or deleted: see Gone
Gone    == [version |-> MaxVersion + 1]
NoView  == [kind |-> "none"]
Deleted == [kind |-> "deleted"]
Empty   == "empty"   \* no such member in the JSON object
Null    == "null"    \* a patch that clears the cell
Idle    == [stage |-> "idle"]

Fields  == [id : FieldIds, kind : Kinds, reads : SUBSET Keys]
Cells   == [Keys -> Values \cup {Empty}]
RowsOf  == [cells : Cells, version : 1..MaxVersion]
ViewsOf == [kind : {"table", "board", "form"}, key : Keys]
Patches == UNION {[K -> Values \cup {Null}] : K \in SUBSET Keys}
Edits   == UNION {[F -> SUBSET Targets] : F \in SUBSET FieldIds}

Columns == {k \in Keys : fields[k] # NoField}
There   == {r \in Rows : rows[r].version \in 1..MaxVersion}
Saved   == {v \in Views : views[v] \notin {NoView, Deleted}}
Of(kinds) == {k \in Columns : fields[k].kind \in kinds}

-----------------------------------------------------------------------------
(* What the requests ask *)

\* find_cycle finds one: some nodes each read another of them.
HasCycle(nodes, reads) ==
  \E S \in (SUBSET nodes) \ {{}} : \A n \in S : reads[n] \cap S # {}

Cyclic == HasCycle(Of({"formula"}), [k \in Of({"formula"}) |-> fields[k].reads])

\* Mutant of FormulaSound: only the formulas that are there are looked at.
FormulaSoundWithoutIt(key, reads) == reads \subseteq Columns \cup {key} /\ ~Cyclic

\* formula_check: what it reads is there, or is the new column; and the graph of all formulas
\* and the new one is free of cycles.  The new node is not the one that its name leads to when
\* a formula of that name is still there.
FormulaSound(key, reads) ==
  LET old  == Of({"formula"})
      self == IF key \in old THEN "new" ELSE key
  IN /\ reads \subseteq Columns \cup {key}
     /\ ~HasCycle(old \cup {self}, [n \in old \cup {self} |-> IF n = self THEN reads ELSE fields[n].reads])

\* link_config_check, resolve_target, rollup_check, formula_check.
MayAdd(key, kind, reads) ==
  CASE kind = "relation" -> reads = {} /\ readable
    [] kind = "rollup"   -> readable /\ \E r \in Of({"relation"}) : reads = {r}
    [] kind = "formula"  -> FormulaSound(key, reads)
    [] OTHER             -> reads = {}

\* hidden_field_keys: relations to what the caller may not read, rollups over them, and what
\* formulas make of either.
Hidden ==
  LET closed(S) == \A c \in Columns :
        (\/ fields[c].kind = "relation" /\ ~readable
         \/ fields[c].kind = "rollup" /\ ~readable /\ fields[c].reads \cap Of({"relation"}) # {}
         \/ fields[c].kind = "formula" /\ fields[c].reads \cap S # {}) => c \in S
  IN {k \in Keys : \A S \in SUBSET Keys : closed(S) => k \in S}

Visible == Columns \ Hidden

\* validate_value: by its shape.  A relation cell is any string.
Fits(kind, value) ==
  CASE kind = "number"   -> value = Number
    [] kind = "select"   -> value = Option
    [] kind = "relation" -> value # Number
    [] OTHER             -> FALSE

\* checked_values.
Acceptable(patch) ==
  \A k \in DOMAIN patch : k \in Columns /\ fields[k].kind \notin Computed
                          /\ (patch[k] # Null => Fits(fields[k].kind, patch[k]))

\* plan_write: a cell that is cleared asks nothing, any other names a row that is there, of a
\* dataset that the caller may read.
Plannable(patch) ==
  \A k \in DOMAIN patch \cap Of({"relation"}) : patch[k] # Null => readable /\ patch[k] \in live

\* Mutant of Planned: only what is cleared.
PlannedClears(patch) == [f \in {fields[k].id : k \in DOMAIN patch \cap Of({"relation"})} |-> {}]

Planned(patch) ==
  LET touched == DOMAIN patch \cap Of({"relation"})
  IN [f \in {fields[k].id : k \in touched} |->
        LET k == CHOOSE k \in touched : fields[k].id = f
        IN IF patch[k] = Null THEN {} ELSE {patch[k]}]

\* validate and validate_form in views.rs, by kind of view.  The key of a board is its lanes, of a
\* form what it asks for, of a table what it groups by: whatever else these name need only be visible.
MayName(view, key) ==
  /\ key \in Visible
  /\ CASE view = "board" -> fields[key].kind = "select"
       [] view = "form"  -> fields[key].kind \notin Computed
       [] view = "table" -> fields[key].kind \notin Computed \cup {"relation"}

-----------------------------------------------------------------------------
(* What the transactions do *)

\* The foreign keys of the edges that are inserted.
KeysHold(edits) ==
  \A f \in DOMAIN edits : edits[f] # {} => (\E k \in Columns : fields[k].id = f) /\ edits[f] \subseteq live

\* Mutant of Rewritten: the old edges stay.
RewrittenAdding(r, edits) ==
  edges \cup {e \in {r} \X FieldIds \X Targets : e[2] \in DOMAIN edits /\ e[3] \in edits[e[2]]}

\* rewrite_edges: every cell that is touched loses its edges and gets those it names.
Rewritten(r, edits) ==
  {e \in edges : e[1] # r \/ e[2] \notin DOMAIN edits}
    \cup {e \in {r} \X FieldIds \X Targets : e[2] \in DOMAIN edits /\ e[3] \in edits[e[2]]}

\* Mutant of Merged: a null is stored.
MergedNulls(cells, patch) == [k \in Keys |-> IF k \in DOMAIN patch THEN patch[k] ELSE cells[k]]

Merged(cells, patch) ==
  [k \in Keys |-> IF k \notin DOMAIN patch THEN cells[k] ELSE IF patch[k] = Null THEN Empty ELSE patch[k]]

NoCells == [k \in Keys |-> Empty]

\* A request to write a row, as far as its patch was looked at.
RowRequest(stage, op, patch) ==
  [stage |-> stage, op |-> op, patch |-> patch, fresh |-> TRUE, row |-> "none", base |-> NoRow,
   edits |-> [f \in {} |-> {}]]

\* The requests under way, after the columns have changed.
Overtaken == [c \in Clients |-> IF req[c] = Idle THEN Idle ELSE [req[c] EXCEPT !.fresh = FALSE]]

Strays(r, c) ==
  {s \in strays : s[1] # r \/ s[2] \notin DOMAIN req[c].patch}
    \cup IF req[c].fresh THEN {} ELSE {r} \X DOMAIN req[c].patch

-----------------------------------------------------------------------------
Init ==
  /\ fields = [k \in Keys |-> NoField]
  /\ rows = [r \in Rows |-> NoRow]
  /\ edges = {}
  /\ live = Targets
  /\ readable = TRUE
  /\ views = [v \in Views |-> NoView]
  /\ made = 0
  /\ req = [c \in Clients |-> Idle]
  /\ strays = {}
  /\ late = FALSE

End(c) == req' = [req EXCEPT ![c] = Idle]

\* A request that is refused, or whose transaction fails, changes nothing.
Fail(c) == End(c) /\ UNCHANGED <<fields, rows, edges, live, readable, views, made, strays, late>>

\* add_dataset_field, up to the transaction.
CheckField(c, key, kind, reads) ==
  /\ req[c] = Idle
  /\ MayAdd(key, kind, reads)
  /\ req' = [req EXCEPT ![c] = [stage |-> "add", key |-> key, kind |-> kind, reads |-> reads, fresh |-> TRUE]]
  /\ UNCHANGED <<fields, rows, edges, live, readable, views, made, strays, late>>

\* add_dataset_field, the transaction.  A name that is taken is a conflict.
AddField(c) ==
  /\ req[c].stage = "add"
  /\ IF req[c].key \in Columns THEN Fail(c)
     ELSE /\ made < MaxIds
          /\ made' = made + 1
          /\ fields' = [fields EXCEPT ![req[c].key] =
                          [id |-> made + 1, kind |-> req[c].kind, reads |-> req[c].reads]]
          /\ late' = (late \/ (req[c].kind = "formula" /\ ~req[c].fresh))
          /\ req' = [Overtaken EXCEPT ![c] = Idle]
          /\ UNCHANGED <<rows, edges, live, readable, views, strays>>

\* Mutant of DeleteField: the rows are not moved on.
DeleteFieldQuietly(key) ==
  /\ key \in Columns
  /\ fields' = [fields EXCEPT ![key] = NoField]
  /\ rows' = [r \in Rows |-> IF r \in There THEN [rows[r] EXCEPT !.cells[key] = Empty] ELSE rows[r]]
  /\ edges' = {e \in edges : e[2] # fields[key].id}
  /\ strays' = {s \in strays : s[2] # key}
  /\ req' = Overtaken
  /\ UNCHANGED <<live, readable, views, made, late>>

\* Mutant of DeleteField: the values stay.
DeleteFieldAlone(key) ==
  /\ key \in Columns
  /\ fields' = [fields EXCEPT ![key] = NoField]
  /\ edges' = {e \in edges : e[2] # fields[key].id}
  /\ strays' = {s \in strays : s[2] # key}
  /\ req' = Overtaken
  /\ UNCHANGED <<rows, live, readable, views, made, late>>

\* delete_dataset_field: the values go with the column, in one transaction, and rows that had
\* one move to their next version.  The edges go by cascade.
DeleteField(key) ==
  /\ key \in Columns
  /\ \A r \in There : rows[r].cells[key] # Empty => rows[r].version < MaxVersion
  /\ fields' = [fields EXCEPT ![key] = NoField]
  /\ rows' = [r \in Rows |->
                IF r \in There /\ rows[r].cells[key] # Empty
                THEN [cells |-> [rows[r].cells EXCEPT ![key] = Empty], version |-> rows[r].version + 1]
                ELSE rows[r]]
  /\ edges' = {e \in edges : e[2] # fields[key].id}
  /\ strays' = {s \in strays : s[2] # key}
  /\ req' = Overtaken
  /\ UNCHANGED <<live, readable, views, made, late>>

\* create_dataset_row_via_form: what the form asks for, and nothing else; its field may be
\* optional, and is left out or left empty then.
CheckForm(c, v, patch) ==
  /\ req[c] = Idle
  /\ v \in Saved /\ views[v].kind = "form"
  /\ DOMAIN patch \subseteq {views[v].key} \cap Visible
  /\ req' = [req EXCEPT ![c] = RowRequest("form", "create", patch)]
  /\ UNCHANGED <<fields, rows, edges, live, readable, views, made, strays, late>>

\* create_dataset_row and update_dataset_row begin with checked_values; a row that is made
\* has no nulls.  What came through a form goes on as any row that is made.
CheckRow(c, patch, op) ==
  /\ \/ req[c] = Idle
     \/ req[c].stage = "form" /\ op = "create" /\ patch = req[c].patch
  /\ Acceptable(patch)
  /\ LET clean == [k \in {k \in DOMAIN patch : patch[k] # Null} |-> patch[k]]
     IN req' = [req EXCEPT ![c] = IF op = "create" THEN RowRequest("plan", op, clean) ELSE RowRequest("fetch", op, patch)]
  /\ UNCHANGED <<fields, rows, edges, live, readable, views, made, strays, late>>

\* update_dataset_row: fetch_row.  The caller's version is that of the row it looked at.
FetchRow(c, r) ==
  /\ req[c].stage = "fetch"
  /\ r \in There
  /\ req' = [req EXCEPT ![c].stage = "plan", ![c].row = r, ![c].base = rows[r]]
  /\ UNCHANGED <<fields, rows, edges, live, readable, views, made, strays, late>>

\* plan_write.
PlanRow(c) ==
  /\ req[c].stage = "plan"
  /\ IF ~Plannable(req[c].patch) THEN Fail(c)
     ELSE /\ req' = [req EXCEPT ![c].stage = "write", ![c].edits = Planned(req[c].patch)]
          /\ UNCHANGED <<fields, rows, edges, live, readable, views, made, strays, late>>

\* create_dataset_row, the transaction.  The rows are counted in it.
InsertRow(c) ==
  /\ req[c].stage = "write" /\ req[c].op = "create"
  /\ IF Cardinality(There) >= MaxRows \/ ~KeysHold(req[c].edits) THEN Fail(c)
     ELSE \E r \in Rows :
            /\ rows[r] = NoRow
            /\ rows' = [rows EXCEPT ![r] = [cells |-> Merged(NoCells, req[c].patch), version |-> 1]]
            /\ edges' = Rewritten(r, req[c].edits)
            /\ strays' = Strays(r, c)
            /\ End(c)
            /\ UNCHANGED <<fields, live, readable, views, made, late>>

\* update_dataset_row, the transaction: what was read with the patch over it, if the version is
\* still the one that was read.
UpdateRow(c) ==
  /\ req[c].stage = "write" /\ req[c].op = "update"
  /\ LET r == req[c].row
     IN IF rows[r].version # req[c].base.version \/ ~KeysHold(req[c].edits) THEN Fail(c)
        ELSE /\ rows[r].version < MaxVersion
             /\ rows' = [rows EXCEPT ![r] = [cells |-> Merged(req[c].base.cells, req[c].patch),
                                             version |-> @.version + 1]]
             /\ edges' = Rewritten(r, req[c].edits)
             /\ strays' = Strays(r, c)
             /\ End(c)
             /\ UNCHANGED <<fields, live, readable, views, made, late>>

\* delete_dataset_row, here and in the dataset that relations point at; the edges cascade.
DeleteRow(r) ==
  /\ r \in There
  /\ rows' = [rows EXCEPT ![r] = Gone]
  /\ edges' = {e \in edges : e[1] # r}
  /\ strays' = {s \in strays : s[1] # r}
  /\ UNCHANGED <<fields, live, readable, views, made, req, late>>

DeleteTarget(t) ==
  /\ t \in live
  /\ live' = live \ {t}
  /\ edges' = {e \in edges : e[3] # t}
  /\ UNCHANGED <<fields, rows, readable, views, made, req, strays, late>>

\* The target dataset is trashed or closed to the callers, or restored or opened again.
Reveal ==
  /\ readable' = ~readable
  /\ UNCHANGED <<fields, rows, edges, live, views, made, req, strays, late>>

\* create_dataset_view and update_dataset_view, up to the statement.  The kind of a view stays.
CheckView(c, v, kind, key) ==
  /\ req[c] = Idle
  /\ \/ views[v] = NoView
     \/ v \in Saved /\ kind = views[v].kind
  /\ MayName(kind, key)
  /\ req' = [req EXCEPT ![c] = [stage |-> "view", op |-> IF v \in Saved THEN "update" ELSE "create", view |-> v, kind |-> kind, key |-> key,
                                fresh |-> TRUE]]
  /\ UNCHANGED <<fields, rows, edges, live, readable, views, made, strays, late>>

\* The statement: an insert below the cap, or an update of a row that may be gone.
SaveView(c) ==
  /\ req[c].stage = "view"
  /\ LET v == req[c].view
     IN IF IF req[c].op = "create" THEN views[v] # NoView \/ Cardinality(Saved) >= MaxViews ELSE v \notin Saved
        THEN Fail(c)
        ELSE /\ views' = [views EXCEPT ![v] = [kind |-> req[c].kind, key |-> req[c].key]]
             /\ End(c)
             /\ UNCHANGED <<fields, rows, edges, live, readable, made, strays, late>>

\* delete_dataset_view.
DeleteView(v) ==
  /\ v \in Saved
  /\ views' = [views EXCEPT ![v] = Deleted]
  /\ UNCHANGED <<fields, rows, edges, live, readable, made, req, strays, late>>

\* The process dies, or the caller goes away: what was asked is forgotten, what was written stays.
Abandon(c) == req[c] # Idle /\ Fail(c)

Next ==
  \/ \E c \in Clients :
       \/ \E key \in Keys, kind \in Kinds, reads \in SUBSET Keys :
            Cardinality(reads) <= MaxNamed /\ CheckField(c, key, kind, reads)
       \/ AddField(c)
       \/ \E patch \in Patches, op \in {"create", "update"} :
            Cardinality(DOMAIN patch) <= MaxNamed /\ CheckRow(c, patch, op)
       \/ \E v \in Views, patch \in Patches : CheckForm(c, v, patch)
       \/ \E r \in Rows : FetchRow(c, r)
       \/ PlanRow(c)
       \/ InsertRow(c)
       \/ UpdateRow(c)
       \/ \E v \in Views, kind \in {"table", "board", "form"}, key \in Keys : CheckView(c, v, kind, key)
       \/ SaveView(c)
       \/ Abandon(c)
  \/ \E key \in Keys : DeleteField(key)
  \/ \E r \in Rows : DeleteRow(r)
  \/ \E t \in Targets : DeleteTarget(t)
  \/ Reveal
  \/ \E v \in Views : DeleteView(v)

Spec == Init /\ [][Next]_vars

-----------------------------------------------------------------------------
(* Properties *)

Requests ==
  {Idle}
    \cup [stage : {"add"}, key : Keys, kind : Kinds, reads : SUBSET Keys, fresh : BOOLEAN]
    \cup [stage : {"form", "plan", "write"}, op : {"create"}, patch : Patches, fresh : BOOLEAN,
          row : {"none"}, base : {NoRow}, edits : Edits]
    \cup [stage : {"fetch"}, op : {"update"}, patch : Patches, fresh : BOOLEAN,
          row : {"none"}, base : {NoRow}, edits : Edits]
    \cup [stage : {"plan", "write"}, op : {"update"}, patch : Patches, fresh : BOOLEAN,
          row : Rows, base : RowsOf, edits : Edits]
    \cup [stage : {"view"}, op : {"create", "update"}, view : Views, kind : {"table", "board", "form"}, key : Keys,
          fresh : BOOLEAN]

TypeOK ==
  /\ fields \in [Keys -> Fields \cup {NoField}]
  /\ rows \in [Rows -> RowsOf \cup {NoRow, Gone}]
  /\ edges \subseteq Rows \X FieldIds \X Targets
  /\ live \subseteq Targets
  /\ readable \in BOOLEAN
  /\ views \in [Views -> ViewsOf \cup {NoView, Deleted}]
  /\ made \in 0..MaxIds
  /\ req \in [Clients -> Requests]
  /\ strays \subseteq Rows \X Keys
  /\ late \in BOOLEAN

\* A cell has a column, and is what a cell of that column may be.
Typed(r, k) == rows[r].cells[k] # Empty => k \in Columns /\ Fits(fields[k].kind, rows[r].cells[k])

\* "Every stored row is keyed by the one and typed by the other": what a row holds are columns
\* of the dataset, with values of their kinds.  Broken by what overtakes a check.
ValuesFollowTheSchema == \A r \in There, k \in Keys : Typed(r, k)

\* A value without a column of its kind was put there by a request whose columns changed between
\* its check and its transaction; whatever else happens, deleting a column takes its values along
\* and the next column of that name starts empty.
StraysComeFromOvertakenChecks == \A r \in There, k \in Keys : Typed(r, k) \/ <<r, k>> \in strays

\* The edges behind a cell.
EdgesOf(r, k) == {t \in Targets : <<r, fields[k].id, t>> \in edges}

\* "A cell and the edges that back it can never disagree": the edges of a relation cell are what
\* it names, if that is still there.  Broken when the column goes between the check and the plan.
CellsAgreeWithEdges ==
  \A r \in There, k \in Of({"relation"}) : EdgesOf(r, k) = {rows[r].cells[k]} \cap live

\* Every edge stands for a cell: of a row that is there, under a column that is there, naming a row
\* that is there.  So what is counted over edges (rollups, what points at a row) is never more
\* than the cells say, whatever columns, rows and targets were deleted while it was written.
EdgesAreNamed ==
  \A e \in edges :
    /\ e[1] \in There /\ e[3] \in live
    /\ \E k \in Of({"relation"}) : fields[k].id = e[2] /\ rows[e[1]].cells[k] = e[3]

\* A cell that names a row that is there and has no edge (a reader is shown an empty cell) was
\* written by a request whose columns changed under it.
EdgesMissOnlyStrays ==
  \A r \in There, k \in Of({"relation"}) :
    EdgesOf(r, k) = {rows[r].cells[k]} \cap live \/ <<r, k>> \in strays

\* What is counted over the edges follows from the cells: never more, and less only where a
\* check was overtaken.
EdgesFollowCells == EdgesAreNamed /\ EdgesMissOnlyStrays

\* "A cycle is refused when the column is saved": no formulas read each other in a ring.
\* Broken when the columns change between the check and the insert.
FormulasAreAcyclic == ~Cyclic

\* A ring of formulas has one that was stored after the columns it was checked against changed.
CyclesComeFromOvertakenChecks == Cyclic => late

\* "A form asks for stored, visible columns and nothing else".  Broken by deleting a column and
\* making a computed one of the same name: the form asks for what no answer is accepted for.
FormsAskForStoredColumns ==
  \A v \in Saved :
    views[v].kind = "form" /\ views[v].key \in Columns => fields[views[v].key].kind \notin Computed

\* Racing writers do not pass the cap on rows.
RowsWithinCap == Cardinality(There) <= MaxRows

\* How a row may change.
LosesColumn(r) ==
  \E k \in Columns : fields'[k] = NoField /\ rows'[r].cells = [rows[r].cells EXCEPT ![k] = Empty]

TakesPatch(r) ==
  \E c \in Clients :
    req[c] # Idle /\ req'[c] = Idle /\ req[c].stage = "write" /\ rows'[r].cells = Merged(rows[r].cells, req[c].patch)

\* No update is lost: while a row is there, it changes only by a column going or by a patch to what
\* it holds at that moment, and each time its version moves on by one.  What an editor read before
\* somebody else wrote, or before a column went, never comes back with its own patch.
RowsKeepWhatIsNotNamed ==
  [][\A r \in There :
       rows'[r] \notin {rows[r], Gone} =>
         rows'[r].version = rows[r].version + 1 /\ (LosesColumn(r) \/ TakesPatch(r))]_vars

=============================================================================
