----------------------------- MODULE EventsRepo -----------------------------
(***************************************************************************)
(* The event log behind db/provider.py: what save and update_status may    *)
(* leave in the store, for each backend.  Both are called through the      *)
(* _safe_ wrappers of handler.py, so a call that raises looks to the       *)
(* dispatch loop like one that returned.                                   *)
(*                                                                         *)
(* A row is [id, at, status]; "at" numbers the saves of an id and stands   *)
(* for received_at, which differs between any two deliveries.              *)
(***************************************************************************)
EXTENDS Naturals, FiniteSets

CONSTANTS
  EVENT_LOG_BACKEND,  \* "", "sqlite" or "dynamodb"
  LogFails,           \* TRUE if calls into the store may fail
  IndexLags           \* TRUE if the DynamoDB index may miss recent rows

ASSUME RepoAssumption ==
  /\ EVENT_LOG_BACKEND \in {"", "sqlite", "dynamodb"}
  /\ LogFails \in BOOLEAN /\ IndexLags \in BOOLEAN

RowsOf(rows, id) == {r \in rows : r.id = id}

NewRow(rows, id) ==
  [id |-> id, at |-> 1 + Cardinality(RowsOf(rows, id)), status |-> "received"]

\* A store call that fails leaves the store as it was.
OrFails(rows, results) == results \cup (IF LogFails THEN {rows} ELSE {})

\* INSERT under PRIMARY KEY (id): the insert of a redelivery raises.
SqliteSave(rows, id) ==
  IF RowsOf(rows, id) = {} THEN rows \cup {NewRow(rows, id)} ELSE rows

\* PutItem under (user_id, received_at#id): each delivery has its own row.
DynamoSave(rows, id) == rows \cup {NewRow(rows, id)}

\* The stores that _safe_save(repo, id=id, ...) may leave behind.
Saved(rows, id) ==
  CASE EVENT_LOG_BACKEND = "sqlite"   -> OrFails(rows, {SqliteSave(rows, id)})
    [] EVENT_LOG_BACKEND = "dynamodb" -> OrFails(rows, {DynamoSave(rows, id)})
    [] OTHER -> {rows}

SetStatus(rows, which, status) ==
  (rows \ which) \cup {[r EXCEPT !.status = status] : r \in which}

\* Broken: only failures are written down.
BrokenSqliteUpdate(rows, id, status) ==
  IF status = "failed" THEN SetStatus(rows, RowsOf(rows, id), status) ELSE rows

\* UPDATE ... WHERE id = ?
SqliteUpdate(rows, id, status) == SetStatus(rows, RowsOf(rows, id), status)

\* The GSI is keyed by id alone, so Limit=1 gives any one of the id's rows,
\* or none that it has caught up with.
DynamoUpdates(rows, id, status) ==
  {SetStatus(rows, {r}, status) : r \in RowsOf(rows, id)}
    \cup (IF RowsOf(rows, id) = {} \/ IndexLags THEN {rows} ELSE {})

\* The stores that _safe_update_status(repo, id=id, ...) may leave behind.
Updated(rows, id, status) ==
  CASE EVENT_LOG_BACKEND = "sqlite" ->
         OrFails(rows, {SqliteUpdate(rows, id, status)})
    [] EVENT_LOG_BACKEND = "dynamodb" ->
         OrFails(rows, DynamoUpdates(rows, id, status))
    [] OTHER -> {rows}

\* The constructor runs CREATE TABLE and a PRAGMA on sqlite; the DynamoDB one
\* only builds a client.
ConstructorRaises == EVENT_LOG_BACKEND = "sqlite" /\ LogFails
=============================================================================
