---------------------------- MODULE StorageSync ----------------------------
(***************************************************************************)
(* ServerState::sync_sessions_to_storage and load_sessions_from_storage    *)
(* (kfcode-server, server.rs) over the SQLite repositories of              *)
(* kfcode-storage.  Each request changes the session table under its lock  *)
(* and then writes ALL sessions to the database, statement by statement,   *)
(* without a transaction and without a lock: requests overlap, the program *)
(* may die between two statements, and a statement may fail.               *)
(*                                                                         *)
(* A message is its id; what a session holds is the set of its messages.   *)
(***************************************************************************)
EXTENDS FiniteSets

CONSTANTS
    Requests,   \* the requests that may be under way at once
    Sessions,   \* session ids
    Msgs,       \* message ids
    Gone,       \* no session
    NoRow       \* no row

ASSUME NoRowAssumption == NoRow \notin Sessions
ASSUME GoneAssumption == \A held \in SUBSET Msgs : held # Gone

VARIABLES
    patient,    \* whether users wait for the answer of one request before
                \*   they make another, and never fork; it stays as it is
    mem,        \* the session table: the messages of each session, or Gone
    owner,      \* message.session_id, set when the message is made
    usedSess,   \* session ids handed out
    sessRows,   \* the rows of table sessions
    msgRows,    \* table messages: the session_id of each row, or NoRow
    pc,         \* of each request: the statement it executes next
    snap,       \* of each request: its snapshot of the table
    stale,      \* of each request: persisted sessions it still has to delete
    todo,       \* of each request: sessions it still has to write
    cur,        \* of each request: the session it deletes or writes
    rows,       \* of each request: messages of cur it still has to insert
    lost,       \* ghost: the last sync to end was broken off; if requests
                \*   overlap, some sync was since the start
    refused,    \* ghost: a key constraint refused some statement
    kept,       \* ghost: what each session held since the last complete sync
    damaged     \* ghost: sessions at which a sync broke off since then

vars == <<patient, mem, owner, usedSess, sessRows, msgRows, pc, snap, stale, todo, cur,
          rows, lost, refused, kept, damaged>>

db == <<sessRows, msgRows>>
locals == <<snap, stale, todo, cur, rows>>
ghosts == <<lost, refused, kept, damaged>>

PC == {"idle", "snapshot", "list", "purge", "deleteMsgs", "deleteSess",
       "next", "get", "update", "create", "clear", "insert"}

Nothing == [s \in Sessions |-> Gone]

Init ==
    /\ patient \in BOOLEAN
    /\ mem = Nothing
    /\ owner = [m \in Msgs |-> NoRow]
    /\ usedSess = {}
    /\ sessRows = {}
    /\ msgRows = [m \in Msgs |-> NoRow]
    /\ pc = [r \in Requests |-> "idle"]
    /\ snap = [r \in Requests |-> Nothing]
    /\ stale = [r \in Requests |-> {}]
    /\ todo = [r \in Requests |-> {}]
    /\ cur = [r \in Requests |-> NoRow]
    /\ rows = [r \in Requests |-> {}]
    /\ lost = FALSE
    /\ refused = FALSE
    /\ kept = [s \in Sessions |-> {Gone}]
    /\ damaged = {}

Live == {s \in Sessions : mem[s] # Gone}
Goto(r, label) == pc' = [pc EXCEPT ![r] = label]

\* The sync returns: what it holds goes out of scope.
Return(r) ==
    /\ Goto(r, "idle")
    /\ snap' = [snap EXCEPT ![r] = Nothing]
    /\ cur' = [cur EXCEPT ![r] = NoRow]

-----------------------------------------------------------------------------
\* A request changes the table under its lock.
Change(r) ==
    /\ pc[r] = "idle"
    /\ patient => \A other \in Requests : pc[other] = "idle"
    /\ Goto(r, "snapshot")
    /\ \/ \E s \in Sessions \ usedSess :
             /\ mem' = [mem EXCEPT ![s] = {}]
             /\ usedSess' = usedSess \cup {s}
             /\ UNCHANGED owner
       \/ \E s \in Live, m \in {n \in Msgs : owner[n] = NoRow} :
             /\ mem' = [mem EXCEPT ![s] = @ \cup {m}]
             /\ owner' = [owner EXCEPT ![m] = s]
             /\ UNCHANGED usedSess
       \/ \E s \in Live : \E m \in mem[s] :
             /\ mem' = [mem EXCEPT ![s] = @ \ {m}]
             /\ UNCHANGED <<owner, usedSess>>
       \/ \* SessionManager::delete: a session and its children
          \E tree \in SUBSET Live \ {{}} :
             /\ mem' = [s \in Sessions |-> IF s \in tree THEN Gone ELSE mem[s]]
             /\ UNCHANGED <<owner, usedSess>>
       \/ \* SessionManager::fork copies the messages as they are, id and
          \* session_id included
          /\ ~patient
          /\ \E s \in Sessions \ usedSess, from \in Live :
                /\ mem' = [mem EXCEPT ![s] = mem[from]]
                /\ usedSess' = usedSess \cup {s}
          /\ UNCHANGED owner
    /\ kept' = IF patient THEN [s \in Sessions |-> kept[s] \cup {mem'[s]}] ELSE kept
    /\ UNCHANGED <<db, locals, lost, refused, damaged>>

\* The snapshot is taken under the lock, which is then given back.
Snapshot(r) ==
    /\ pc[r] = "snapshot"
    /\ snap' = [snap EXCEPT ![r] = mem]
    /\ Goto(r, "list")
    /\ UNCHANGED <<mem, owner, usedSess, db, stale, todo, cur, rows, ghosts>>

\* (mutant) nothing is deleted.
ListNothing(r) ==
    /\ pc[r] = "list"
    /\ todo' = [todo EXCEPT ![r] = {s \in Sessions : snap[r][s] # Gone}]
    /\ Goto(r, "purge")
    /\ UNCHANGED <<mem, owner, usedSess, db, snap, stale, cur, rows, ghosts>>

\* session_repo.list: the persisted sessions that the snapshot lacks go.
ListPersisted(r) ==
    /\ pc[r] = "list"
    /\ stale' = [stale EXCEPT ![r] = {s \in sessRows : snap[r][s] = Gone}]
    /\ todo' = [todo EXCEPT ![r] = {s \in Sessions : snap[r][s] # Gone}]
    /\ Goto(r, "purge")
    /\ UNCHANGED <<mem, owner, usedSess, db, snap, cur, rows, ghosts>>

Purge(r) ==
    /\ pc[r] = "purge"
    /\ \/ /\ stale[r] = {}
          /\ Goto(r, "next")
          /\ UNCHANGED <<stale, cur>>
       \/ \E s \in stale[r] :
             /\ cur' = [cur EXCEPT ![r] = s]
             /\ stale' = [stale EXCEPT ![r] = @ \ {s}]
             /\ Goto(r, "deleteMsgs")
    /\ UNCHANGED <<mem, owner, usedSess, db, snap, todo, rows, ghosts>>

\* DELETE FROM messages WHERE session_id = ?
ClearMessagesOf(s) ==
    msgRows' = [m \in Msgs |-> IF msgRows[m] = s THEN NoRow ELSE msgRows[m]]

DeleteStaleMessages(r) ==
    /\ pc[r] = "deleteMsgs"
    /\ ClearMessagesOf(cur[r])
    /\ Goto(r, "deleteSess")
    /\ UNCHANGED <<mem, owner, usedSess, sessRows, locals, ghosts>>

\* DELETE FROM sessions; the foreign key cascades to messages.
DeleteStaleSession(r) ==
    /\ pc[r] = "deleteSess"
    /\ sessRows' = sessRows \ {cur[r]}
    /\ ClearMessagesOf(cur[r])
    /\ Goto(r, "purge")
    /\ UNCHANGED <<mem, owner, usedSess, locals, ghosts>>

\* for session in snapshot, in the order of a HashMap.  When none is left the
\* sync returns Ok.
NextSession(r) ==
    /\ pc[r] = "next"
    /\ \/ \E s \in todo[r] :
             /\ cur' = [cur EXCEPT ![r] = s]
             /\ todo' = [todo EXCEPT ![r] = @ \ {s}]
             /\ Goto(r, "get")
             /\ UNCHANGED <<lost, kept, damaged>>
             /\ UNCHANGED snap
       \/ /\ todo[r] = {}
          /\ Return(r)
          /\ kept' = IF patient THEN [s \in Sessions |-> {snap[r][s]}] ELSE kept
          /\ damaged' = {}
          /\ lost' = (lost /\ ~patient)
          /\ UNCHANGED todo
    /\ UNCHANGED <<mem, owner, usedSess, db, stale, rows, refused>>

\* session_repo.get decides between UPDATE and INSERT.
GetSession(r) ==
    /\ pc[r] = "get"
    /\ Goto(r, IF cur[r] \in sessRows THEN "update" ELSE "create")
    /\ UNCHANGED <<mem, owner, usedSess, db, locals, ghosts>>

\* UPDATE ... WHERE id = ?; that no row matches is not an error.
UpdateSession(r) ==
    /\ pc[r] = "update"
    /\ Goto(r, "clear")
    /\ UNCHANGED <<mem, owner, usedSess, db, locals, ghosts>>

\* A failed statement ends the sync; the caller logs it and goes on.
BreakOff(r) ==
    /\ Return(r)
    /\ stale' = [stale EXCEPT ![r] = {}]
    /\ todo' = [todo EXCEPT ![r] = {}]
    /\ rows' = [rows EXCEPT ![r] = {}]
    /\ lost' = TRUE
    /\ damaged' = IF patient /\ pc[r] # "list" THEN damaged \cup {cur[r]} ELSE damaged
    /\ UNCHANGED kept

\* Any statement of a sync, the first is session_repo.list.
StatementFails(r) ==
    /\ pc[r] \notin {"idle", "snapshot", "purge", "next"}
    /\ BreakOff(r)
    /\ UNCHANGED <<mem, owner, usedSess, db, refused>>

CreateSession(r) ==
    /\ pc[r] = "create"
    /\ IF cur[r] \in sessRows
       THEN BreakOff(r) /\ refused' = TRUE /\ UNCHANGED sessRows
       ELSE /\ sessRows' = sessRows \cup {cur[r]}
            /\ Goto(r, "clear")
            /\ UNCHANGED <<locals, ghosts>>
    /\ UNCHANGED <<mem, owner, usedSess, msgRows>>

\* (mutant) all the messages go before the loop over the sessions.
ClearAllMessages(r) ==
    /\ pc[r] = "clear"
    /\ msgRows' = [m \in Msgs |-> NoRow]
    /\ rows' = [rows EXCEPT ![r] = snap[r][cur[r]]]
    /\ Goto(r, "insert")
    /\ UNCHANGED <<mem, owner, usedSess, sessRows, snap, stale, todo, cur, ghosts>>

\* (mutant) the messages already there stay.
ClearNothing(r) ==
    /\ pc[r] = "clear"
    /\ rows' = [rows EXCEPT ![r] = snap[r][cur[r]]]
    /\ Goto(r, "insert")
    /\ UNCHANGED <<mem, owner, usedSess, db, snap, stale, todo, cur, ghosts>>

ClearMessages(r) ==
    /\ pc[r] = "clear"
    /\ ClearMessagesOf(cur[r])
    /\ rows' = [rows EXCEPT ![r] = snap[r][cur[r]]]
    /\ Goto(r, "insert")
    /\ UNCHANGED <<mem, owner, usedSess, sessRows, snap, stale, todo, cur, ghosts>>

\* (mutant) the row is filed under the session that is being written.
InsertUnderCurrent(r) ==
    /\ pc[r] = "insert"
    /\ IF rows[r] = {}
       THEN Goto(r, "next") /\ UNCHANGED <<msgRows, locals, ghosts>>
       ELSE \E m \in rows[r] :
              IF msgRows[m] # NoRow \/ cur[r] \notin sessRows
              THEN BreakOff(r) /\ refused' = TRUE /\ UNCHANGED msgRows
              ELSE /\ msgRows' = [msgRows EXCEPT ![m] = cur[r]]
                   /\ rows' = [rows EXCEPT ![r] = @ \ {m}]
                   /\ UNCHANGED <<pc, snap, stale, todo, cur, ghosts>>
    /\ UNCHANGED <<mem, owner, usedSess, sessRows>>

\* INSERT INTO messages: fails on a known id (PRIMARY KEY) and on a
\* session_id without a row (FOREIGN KEY).
InsertMessage(r) ==
    /\ pc[r] = "insert"
    /\ IF rows[r] = {}
       THEN Goto(r, "next") /\ UNCHANGED <<msgRows, locals, ghosts>>
       ELSE \E m \in rows[r] :
              IF msgRows[m] # NoRow \/ owner[m] \notin sessRows
              THEN BreakOff(r) /\ refused' = TRUE /\ UNCHANGED msgRows
              ELSE /\ msgRows' = [msgRows EXCEPT ![m] = owner[m]]
                   /\ rows' = [rows EXCEPT ![r] = @ \ {m}]
                   /\ UNCHANGED <<pc, snap, stale, todo, cur, ghosts>>
    /\ UNCHANGED <<mem, owner, usedSess, sessRows>>

\* What load_sessions_from_storage finds.
OnDisk == [s \in Sessions |->
              IF s \in sessRows THEN {m \in Msgs : msgRows[m] = s} ELSE Gone]

\* The server dies at any moment; the next start loads the database.
Restart ==
    /\ mem' = OnDisk
    /\ kept' = IF patient THEN [s \in Sessions |-> {OnDisk[s]}] ELSE kept
    /\ damaged' = {}
    /\ pc' = [r \in Requests |-> "idle"]
    /\ snap' = [r \in Requests |-> Nothing]
    /\ cur' = [r \in Requests |-> NoRow]
    /\ stale' = [r \in Requests |-> {}]
    /\ todo' = [r \in Requests |-> {}]
    /\ rows' = [r \in Requests |-> {}]
    /\ lost' = FALSE
    /\ UNCHANGED <<owner, usedSess, db, refused>>

SyncStep(r) ==
    \/ Snapshot(r) \/ ListPersisted(r) \/ Purge(r) \/ DeleteStaleMessages(r)
    \/ DeleteStaleSession(r) \/ NextSession(r) \/ GetSession(r)
    \/ UpdateSession(r) \/ CreateSession(r) \/ ClearMessages(r) \/ InsertMessage(r)
    \/ StatementFails(r)

Next ==
    /\ (\E r \in Requests : Change(r) \/ SyncStep(r)) \/ Restart
    /\ UNCHANGED patient

Spec == Init /\ [][Next]_vars

-----------------------------------------------------------------------------
Contents == {Gone} \cup SUBSET Msgs

TypeOK ==
    /\ patient \in BOOLEAN
    /\ mem \in [Sessions -> Contents]
    /\ owner \in [Msgs -> Sessions \cup {NoRow}]
    /\ usedSess \subseteq Sessions
    /\ sessRows \subseteq usedSess
    /\ msgRows \in [Msgs -> Sessions \cup {NoRow}]
    /\ pc \in [Requests -> PC]
    /\ snap \in [Requests -> [Sessions -> Contents]]
    /\ stale \in [Requests -> SUBSET Sessions]
    /\ todo \in [Requests -> SUBSET Sessions]
    /\ cur \in [Requests -> Sessions \cup {NoRow}]
    /\ rows \in [Requests -> SUBSET Msgs]
    /\ {lost, refused} \subseteq BOOLEAN
    /\ kept \in [Sessions -> SUBSET Contents]
    /\ damaged \subseteq Sessions

\* While requests come one at a time and none forks, no statement of a sync
\* meets a key constraint, whatever an earlier crash or failure left behind.
NoStatementRefused == patient => ~refused

\* While requests come one at a time, the table is on disk whenever none is
\* under way, unless the last sync was broken off: a sync repairs whatever an
\* earlier one left undone.
SavedWhenIdle ==
    patient /\ (\A r \in Requests : pc[r] = "idle") /\ ~lost => OnDisk = mem

\* The promise to users who make one request at a time; the others see
\* nothing of it.  What a session held since the last save (kept) and where
\* syncs broke off (damaged) are kept as ghosts here.
Durable == INSTANCE DurableSessions WITH
    mem <- IF patient THEN mem ELSE Nothing, kept <- kept, damaged <- damaged
ImplementsDurableSessions == Durable!Spec

\* Whatever overlaps, the database never holds a message under a session
\* other than the one it was made in, and none without its session: a load
\* never mixes conversations.
RowsBelong ==
    \A m \in Msgs : msgRows[m] # NoRow =>
        msgRows[m] = owner[m] /\ msgRows[m] \in sessRows

-----------------------------------------------------------------------------
\* Refuted by the code (see the findings in README.md).

\* "Persists all in-memory sessions and their messages": also when requests
\* overlap, the table is on disk once all of them are through, none broken off.
OverlappingSyncsSave ==
    (\A r \in Requests : pc[r] = "idle") /\ ~lost => OnDisk = mem
=============================================================================
