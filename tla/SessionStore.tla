---------------------------- MODULE SessionStore ----------------------------
(***************************************************************************)
(* The SQLite session store of the gateway (session_store.c): the         *)
(* sessions and messages tables and the calls that read and write them.   *)
(*                                                                         *)
(* A message row is abstracted to its session id and its created_at; its  *)
(* row id is its position in msgs (AUTOINCREMENT, rows are never deleted). *)
(* time(NULL) is the variable now, in whole seconds, so several rows can   *)
(* share a created_at.  Each SQLite call may fail (prepare or step); the  *)
(* outcome is a nondeterministic choice.  The order SQLite returns rows   *)
(* whose ORDER BY keys are equal is unspecified, so get_history may return *)
(* them in any order.                                                      *)
(***************************************************************************)
EXTENDS Integers, FiniteSets, Sequences, SequencesExt

CONSTANTS SessionIds,  \* the ids generate_session_id can produce
          MaxRows,     \* bound on message rows
          MaxTime,     \* bound on the clock
          Limits,      \* limit arguments passed to get_history
          None         \* no session row

Time == 0..MaxTime

\* the LIMIT get_history binds: limit > 0 ? limit : 50
EffectiveLimit(limit) == IF limit > 0 THEN limit ELSE 50

VARIABLES db,        \* "closed" or "open" (store->db)
          sessions,  \* sessions table: id -> [created, updated] or None
          msgs,      \* messages table: row id -> [sid, at]
          now,       \* time(NULL)
          history    \* rows returned by the last get_history, newest first

vars == <<db, sessions, msgs, now, history>>

Row == [sid : SessionIds, at : Time]

TypeOK ==
  /\ db \in {"closed", "open"}
  /\ sessions \in [SessionIds -> [created : Time, updated : Time] \cup {None}]
  /\ msgs \in Seq(Row) /\ Len(msgs) <= MaxRows
  /\ now \in Time
  /\ history \in Seq(1..MaxRows)

Init ==
  /\ db = "closed"
  /\ sessions = [s \in SessionIds |-> None]
  /\ msgs = <<>>
  /\ now = 0
  /\ history = <<>>

\* the clock advances
Tick == /\ now < MaxTime
        /\ now' = now + 1
        /\ UNCHANGED <<db, sessions, msgs, history>>

\* session_store_open: sqlite3_open, WAL, ensure_tables (CREATE ... IF NOT
\* EXISTS leaves existing rows); either step may fail and return NULL
session_store_open ==
  /\ db = "closed"
  /\ db' \in {"closed", "open"}
  /\ UNCHANGED <<sessions, msgs, now, history>>

session_store_close ==
  /\ db = "open"
  /\ db' = "closed"
  /\ UNCHANGED <<sessions, msgs, now, history>>

\* session_store_create: a random id; reading /dev/urandom or preparing may
\* fail, and the INSERT fails on an id already present (PRIMARY KEY)
session_store_create ==
  /\ db = "open"
  /\ \E id \in SessionIds, ok \in BOOLEAN :
       IF ok /\ sessions[id] = None
       THEN sessions' = [sessions EXCEPT ![id] = [created |-> now, updated |-> now]]
       ELSE UNCHANGED sessions
  /\ UNCHANGED <<db, msgs, now, history>>

\* session_store_add_message: INSERT the row (no foreign key check: SQLite
\* enforces none unless PRAGMA foreign_keys is on), then the UPDATE of
\* updated_at, run by sqlite3_exec with its '?' never bound, so it compares
\* id with NULL and changes nothing; OC_OK iff the INSERT stepped to DONE.
session_store_add_message(sid) ==
  /\ db = "open"
  /\ Len(msgs) < MaxRows
  /\ \/ UNCHANGED msgs                      \* prepare or step fails
     \/ msgs' = Append(msgs, [sid |-> sid, at |-> now])
  /\ UNCHANGED <<db, sessions, now, history>>

\* rows of session sid
RowsOf(sid) == {i \in DOMAIN msgs : msgs[i].sid = sid}

\* The results "SELECT ... WHERE session_id = ? ORDER BY created_at DESC
\* LIMIT ?" may return: the newest rows, by created_at, in any order among
\* equal keys.
HistoryResults(sid, limit) ==
  LET rows == RowsOf(sid)
      k    == IF EffectiveLimit(limit) < Cardinality(rows)
              THEN EffectiveLimit(limit) ELSE Cardinality(rows)
  IN {h \in [1..k -> rows] :
        /\ IsInjective(h)
        /\ \A j \in 1..(k - 1) : msgs[h[j]].at >= msgs[h[j + 1]].at
        /\ \A r \in rows \ Range(h) : k > 0 => msgs[r].at <= msgs[h[k]].at}

\* session_store_get_history: the JSON array of the rows, or NULL when
\* prepare or malloc fails (then the caller has no history)
session_store_get_history(sid, limit) ==
  /\ db = "open"
  /\ \/ history' \in HistoryResults(sid, limit)
     \/ history' = <<>>
  /\ UNCHANGED <<db, sessions, msgs, now>>

\* session_store_get_message_count, count_sessions, count_messages
MessageCount(sid) == Cardinality(RowsOf(sid))
SessionCount == Cardinality({s \in SessionIds : sessions[s] /= None})
TotalMessages == Len(msgs)

Next ==
  \/ Tick
  \/ session_store_open \/ session_store_close
  \/ session_store_create
  \/ \E sid \in SessionIds : session_store_add_message(sid)
  \/ \E sid \in SessionIds, limit \in Limits : session_store_get_history(sid, limit)

Spec == Init /\ [][Next]_vars

=============================================================================
