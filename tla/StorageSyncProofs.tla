------------------------- MODULE StorageSyncProofs -------------------------
(***************************************************************************)
(* StorageSync for any requests, sessions and messages.  Whatever overlaps *)
(* a row stays with its session (Rows).  When one request is made at a     *)
(* time, which "patient" says, the sync under way knows the table (Phase): *)
(* what it has written is what the table holds, what it still has to       *)
(* insert is not there, and of a session it is at a part may be missing    *)
(* (Found).  That gives that no key is ever refused, that a sync that ends *)
(* has saved all there is, and the refinement of DurableSessions.          *)
(***************************************************************************)
EXTENDS StorageSync, TLAPS

Writing == {"get", "update", "create", "clear", "insert"}
Deleting == {"deleteMsgs", "deleteSess"}

\* What a request knows, whoever else is under way.
Req(r) ==
    /\ \A s \in Sessions : snap[r][s] # Gone => s \in usedSess
    /\ \A s \in todo[r] : snap[r][s] # Gone
    /\ pc[r] \in {"idle", "snapshot", "list"} => todo[r] = {}
    /\ pc[r] \in Writing => cur[r] \in Sessions /\ snap[r][cur[r]] # Gone
    /\ pc[r] \in Deleting => cur[r] \in Sessions

General ==
    /\ TypeOK
    /\ RowsBelong
    /\ \A s \in Sessions : mem[s] # Gone => s \in usedSess
    /\ \A r \in Requests : Req(r)
    /\ ~patient => damaged = {}

\* The messages that are stored under s.
Stored(s) == {m \in Msgs : msgRows[m] = s}

\* Session s is stored as the table has it.
Written(s) == s \in sessRows /\ Stored(s) = mem[s]

\* How far the sync of r is, when no other is under way.
Phase(r) ==
    /\ pc[r] \notin {"idle", "snapshot"} => snap[r] = mem
    /\ pc[r] \in {"purge"} \cup Deleting =>
          /\ \A s \in stale[r] : mem[s] = Gone
          /\ \A s \in Sessions : mem[s] # Gone => s \in todo[r]
    /\ pc[r] \in Deleting => mem[cur[r]] = Gone
    /\ pc[r] = "purge" => \A s \in sessRows : mem[s] = Gone => s \in stale[r]
    /\ pc[r] \in Deleting => \A s \in sessRows : mem[s] = Gone => s \in stale[r] \cup {cur[r]}
    /\ pc[r] \in Writing \cup {"next"} =>
          /\ \A s \in sessRows : mem[s] # Gone
          /\ \A s \in Sessions \ todo[r] : mem[s] # Gone => Written(s) \/ (pc[r] # "next" /\ s = cur[r])
    /\ pc[r] = "create" => cur[r] \notin sessRows
    /\ pc[r] \in {"update", "clear", "insert"} => cur[r] \in sessRows
    /\ pc[r] = "insert" => rows[r] \subseteq mem[cur[r]] /\ Stored(cur[r]) = mem[cur[r]] \ rows[r]

\* Turn: one sync at a time.
Turn == \A r, q \in Requests : r # q => pc[r] = "idle" \/ pc[q] = "idle"

\* Session s is on disk as it once was, or it is one at which a sync broke
\* off or may yet break off, and a part of it is there.
Found(s) ==
    \/ OnDisk[s] \in kept[s]
    \/ /\ s \in sessRows
       /\ \E whole \in kept[s] \ {Gone} : Stored(s) \subseteq whole
       /\ s \in damaged \/ \E r \in Requests : cur[r] = s /\ pc[r] \in {"deleteSess", "clear", "insert"}

Solo ==
    /\ ~refused
    /\ Turn
    /\ \A s \in Sessions : mem[s] # Gone => \A m \in mem[s] : owner[m] = s
    /\ \A r \in Requests : Phase(r)
    /\ (\A r \in Requests : pc[r] = "idle") /\ ~lost => OnDisk = mem
    /\ \A s \in Sessions : mem[s] \in kept[s]
    /\ \A s \in Sessions : Found(s)

IInv == General /\ (patient => Solo)

-----------------------------------------------------------------------------
(* Whatever overlaps.                                                      *)

\* A step of request r: the others stay where they are.
Others(r) ==
    \A d \in Requests \ {r} :
        /\ pc'[d] = pc[d] /\ snap'[d] = snap[d] /\ stale'[d] = stale[d]
        /\ todo'[d] = todo[d] /\ cur'[d] = cur[d] /\ rows'[d] = rows[d]

LEMMA KeepsGeneral ==
  ASSUME General, patient' = patient, NEW r \in Requests, Others(r), TypeOK', RowsBelong', Req(r)',
         usedSess \subseteq usedSess', \A s \in Sessions : mem'[s] # Gone => s \in usedSess',
         ~patient => damaged' = {}
  PROVE  General'
<1>1. ASSUME NEW d \in Requests \ {r} PROVE Req(d)'
  BY DEF Others, General, Req
<1> QED
  BY <1>1 DEF General

LEMMA ChangeGeneral == ASSUME General, patient' = patient, NEW r \in Requests, Change(r) PROVE General'
<1> USE DEF General
<1>a. /\ pc[r] = "idle" /\ pc' = [pc EXCEPT ![r] = "snapshot"]
      /\ UNCHANGED <<sessRows, msgRows, snap, stale, todo, cur, rows, lost, refused, damaged>>
  BY DEF Change, Goto, db, locals
<1>b. Others(r) /\ Req(r)
  BY <1>a DEF Others, TypeOK
<1>1. /\ mem' \in [Sessions -> Contents] /\ owner' \in [Msgs -> Sessions \cup {NoRow}]
      /\ usedSess' \subseteq Sessions /\ usedSess \subseteq usedSess'
      /\ \A s \in Sessions : mem'[s] # Gone => s \in usedSess'
      /\ \A m \in Msgs : owner[m] # NoRow => owner'[m] = owner[m]
  <2>1. CASE \E s \in Sessions \ usedSess :
             /\ mem' = [mem EXCEPT ![s] = {}]
             /\ usedSess' = usedSess \cup {s}
             /\ UNCHANGED owner
    BY <2>1 DEF TypeOK, Contents
  <2>2. CASE \E s \in Live, m \in {n \in Msgs : owner[n] = NoRow} :
             /\ mem' = [mem EXCEPT ![s] = @ \cup {m}]
             /\ owner' = [owner EXCEPT ![m] = s]
             /\ UNCHANGED usedSess
    BY <2>2 DEF TypeOK, Contents, Live
  <2>3. CASE \E s \in Live : \E m \in mem[s] :
             /\ mem' = [mem EXCEPT ![s] = @ \ {m}]
             /\ UNCHANGED <<owner, usedSess>>
    BY <2>3 DEF TypeOK, Contents, Live
  <2>4. CASE \E tree \in SUBSET Live \ {{}} :
             /\ mem' = [s \in Sessions |-> IF s \in tree THEN Gone ELSE mem[s]]
             /\ UNCHANGED <<owner, usedSess>>
    BY <2>4 DEF TypeOK, Contents, Live
  <2>5. CASE /\ \E s \in Sessions \ usedSess, from \in Live :
                   /\ mem' = [mem EXCEPT ![s] = mem[from]]
                   /\ usedSess' = usedSess \cup {s}
             /\ UNCHANGED owner
    BY <2>5 DEF TypeOK, Contents, Live
  <2> QED
    BY <2>1, <2>2, <2>3, <2>4, <2>5 DEF Change
<1>2. kept' \in [Sessions -> SUBSET Contents]
  <2>1. \A s \in Sessions : kept[s] \cup {mem'[s]} \in SUBSET Contents
    BY <1>1 DEF TypeOK
  <2>2. kept' = kept \/ kept' = [s \in Sessions |-> kept[s] \cup {mem'[s]}]
    BY DEF Change
  <2> QED
    BY <2>1, <2>2 DEF TypeOK
<1>3. TypeOK'
  BY <1>a, <1>1, <1>2 DEF TypeOK, PC
<1>4. RowsBelong'
  BY <1>a, <1>1 DEF RowsBelong, TypeOK
<1>5. Req(r)'
  BY <1>a, <1>b, <1>1 DEF Req, TypeOK, Writing, Deleting
<1> QED
  BY <1>a, <1>b, <1>1, <1>3, <1>4, <1>5, KeepsGeneral

LEMMA SnapshotGeneral == ASSUME General, patient' = patient, NEW r \in Requests, Snapshot(r) PROVE General'
<1> USE DEF General
<1>1. TypeOK' /\ Others(r) /\ RowsBelong'
  BY DEF Snapshot, Goto, TypeOK, PC, db, ghosts, Others, RowsBelong
<1>2. Req(r)'
  BY DEF Snapshot, Goto, TypeOK, db, ghosts, Req, Writing, Deleting
<1> QED
  BY <1>1, <1>2, KeepsGeneral DEF Snapshot, ghosts

LEMMA ListGeneral == ASSUME General, patient' = patient, NEW r \in Requests, ListPersisted(r) PROVE General'
<1> USE DEF General
<1>1. TypeOK' /\ Others(r) /\ RowsBelong'
  BY DEF ListPersisted, Goto, TypeOK, PC, db, ghosts, Others, RowsBelong
<1>2. Req(r)'
  BY DEF ListPersisted, Goto, TypeOK, db, ghosts, Req, Writing, Deleting
<1> QED
  BY <1>1, <1>2, KeepsGeneral DEF ListPersisted, ghosts

LEMMA PurgeGeneral == ASSUME General, patient' = patient, NEW r \in Requests, Purge(r) PROVE General'
<1> USE DEF General
<1>a. pc[r] = "purge" /\ UNCHANGED <<patient, mem, owner, usedSess, db, snap, todo, rows, ghosts>>
  BY DEF Purge
<1>1. TypeOK' /\ Others(r) /\ RowsBelong'
  <2>1. CASE Goto(r, "next") /\ UNCHANGED <<stale, cur>>
    BY <1>a, <2>1 DEF Goto, TypeOK, PC, db, ghosts, Others, RowsBelong
  <2>2. CASE \E s \in stale[r] :
               /\ cur' = [cur EXCEPT ![r] = s]
               /\ stale' = [stale EXCEPT ![r] = @ \ {s}]
               /\ Goto(r, "deleteMsgs")
    BY <1>a, <2>2 DEF Goto, TypeOK, PC, db, ghosts, Others, RowsBelong
  <2> QED
    BY <2>1, <2>2 DEF Purge
<1>2. Req(r)'
  BY DEF Purge, Goto, TypeOK, db, ghosts, Req, Writing, Deleting
<1> QED
  BY <1>1, <1>2, KeepsGeneral DEF Purge, ghosts

LEMMA DeleteMessagesGeneral ==
  ASSUME General, patient' = patient, NEW r \in Requests, DeleteStaleMessages(r) PROVE General'
<1> USE DEF General
<1>1. TypeOK' /\ Others(r)
  BY DEF DeleteStaleMessages, ClearMessagesOf, Goto, TypeOK, PC, locals, ghosts, Others
<1>2. RowsBelong'
  BY DEF DeleteStaleMessages, ClearMessagesOf, RowsBelong, TypeOK
<1>3. Req(r)'
  BY DEF DeleteStaleMessages, Goto, TypeOK, locals, ghosts, Req, Writing, Deleting
<1> QED
  BY <1>1, <1>2, <1>3, KeepsGeneral DEF DeleteStaleMessages, ghosts

LEMMA DeleteSessionGeneral ==
  ASSUME General, patient' = patient, NEW r \in Requests, DeleteStaleSession(r) PROVE General'
<1> USE DEF General
<1>1. TypeOK' /\ Others(r)
  BY DEF DeleteStaleSession, ClearMessagesOf, Goto, TypeOK, PC, locals, ghosts, Others
<1>2. RowsBelong'
  BY DEF DeleteStaleSession, ClearMessagesOf, RowsBelong, TypeOK
<1>3. Req(r)'
  BY DEF DeleteStaleSession, Goto, TypeOK, locals, ghosts, Req, Writing, Deleting
<1> QED
  BY <1>1, <1>2, <1>3, KeepsGeneral DEF DeleteStaleSession, ghosts

LEMMA NextSessionGeneral ==
  ASSUME General, patient' = patient, NEW r \in Requests, NextSession(r) PROVE General'
<1> USE DEF General
<1>1. CASE \E s \in todo[r] :
             /\ cur' = [cur EXCEPT ![r] = s]
             /\ todo' = [todo EXCEPT ![r] = @ \ {s}]
             /\ Goto(r, "get")
             /\ UNCHANGED <<lost, kept, damaged>>
             /\ UNCHANGED snap
  <2>1. TypeOK' /\ Others(r) /\ RowsBelong'
    BY <1>1 DEF NextSession, Goto, TypeOK, PC, db, Others, RowsBelong
  <2>2. Req(r)'
    BY <1>1 DEF NextSession, Goto, TypeOK, Req, Writing, Deleting
  <2> QED
    BY <1>1, <2>1, <2>2, KeepsGeneral DEF NextSession
<1>2. CASE /\ todo[r] = {}
           /\ Return(r)
           /\ kept' = IF patient THEN [s \in Sessions |-> {snap[r][s]}] ELSE kept
           /\ damaged' = {}
           /\ lost' = (lost /\ ~patient)
           /\ UNCHANGED todo
  <2>1. kept' \in [Sessions -> SUBSET Contents] /\ Nothing \in [Sessions -> Contents]
    BY <1>2 DEF TypeOK, Nothing, Contents
  <2>2. TypeOK' /\ Others(r) /\ RowsBelong'
    BY <1>2, <2>1 DEF NextSession, Return, Goto, TypeOK, PC, db, Others, RowsBelong
  <2>3. Req(r)'
    BY <1>2, <2>1 DEF NextSession, Return, Nothing, Goto, TypeOK, Req, Writing, Deleting
  <2> QED
    BY <1>2, <2>2, <2>3, KeepsGeneral DEF NextSession
<1> QED
  BY <1>1, <1>2 DEF NextSession

LEMMA GetGeneral ==
  ASSUME General, patient' = patient, NEW r \in Requests, GetSession(r) \/ UpdateSession(r) PROVE General'
<1> USE DEF General
<1>1. TypeOK' /\ Others(r) /\ RowsBelong'
  BY DEF GetSession, UpdateSession, Goto, TypeOK, PC, db, locals, ghosts, Others, RowsBelong
<1>2. Req(r)'
  BY DEF GetSession, UpdateSession, Goto, TypeOK, locals, ghosts, Req, Writing, Deleting
<1> QED
  BY <1>1, <1>2, KeepsGeneral DEF GetSession, UpdateSession, ghosts

\* A sync that breaks off, for whatever reason, leaves the database alone.
LEMMA BreakOffGeneral ==
  ASSUME General, patient' = patient, NEW r \in Requests, BreakOff(r), pc[r] \in {"list"} \cup Deleting \cup Writing,
         UNCHANGED <<mem, owner, usedSess, sessRows, msgRows>>, refused' \in BOOLEAN
  PROVE  General'
<1> USE DEF General
<1>1. damaged' \subseteq Sessions /\ (~patient => damaged' = {})
  BY DEF BreakOff, TypeOK, Req
<1>2. Nothing \in [Sessions -> Contents]
  BY DEF Nothing, Contents
<1>3. TypeOK' /\ Others(r) /\ RowsBelong'
  BY <1>1, <1>2 DEF BreakOff, Return, Goto, TypeOK, PC, Others, RowsBelong
<1>4. Req(r)'
  BY <1>2 DEF BreakOff, Return, Goto, Nothing, TypeOK, Req, Writing, Deleting
<1> QED
  BY <1>1, <1>3, <1>4, KeepsGeneral

LEMMA FailsGeneral ==
  ASSUME General, patient' = patient, NEW r \in Requests, StatementFails(r) PROVE General'
<1>1. pc[r] \in {"list"} \cup Deleting \cup Writing
  BY DEF StatementFails, General, TypeOK, PC, Deleting, Writing
<1> QED
  BY <1>1, BreakOffGeneral DEF StatementFails, db, General, TypeOK

LEMMA CreateGeneral ==
  ASSUME General, patient' = patient, NEW r \in Requests, CreateSession(r) PROVE General'
<1> USE DEF General
<1>1. CASE cur[r] \in sessRows
  <2>1. BreakOff(r) /\ refused' = TRUE /\ pc[r] \in Writing /\ UNCHANGED <<mem, owner, usedSess, sessRows, msgRows>>
    BY <1>1 DEF CreateSession, Writing
  <2> QED
    BY <2>1, BreakOffGeneral
<1>2. CASE cur[r] \notin sessRows
  <2>1. /\ pc[r] = "create" /\ sessRows' = sessRows \cup {cur[r]} /\ Goto(r, "clear")
        /\ UNCHANGED <<mem, owner, usedSess, msgRows, locals, ghosts>>
    BY <1>2 DEF CreateSession
  <2>2. cur[r] \in usedSess
    BY <2>1 DEF Req, Writing
  <2>3. TypeOK' /\ Others(r) /\ RowsBelong'
    BY <2>1, <2>2 DEF Goto, TypeOK, PC, locals, ghosts, Others, RowsBelong
  <2>4. Req(r)'
    BY <2>1 DEF Goto, TypeOK, locals, Req, Writing, Deleting
  <2> QED
    BY <2>1, <2>3, <2>4, KeepsGeneral DEF ghosts
<1> QED
  BY <1>1, <1>2

LEMMA ClearGeneral ==
  ASSUME General, patient' = patient, NEW r \in Requests, ClearMessages(r) PROVE General'
<1> USE DEF General
<1>1. snap[r][cur[r]] \in SUBSET Msgs
  BY DEF ClearMessages, Req, Writing, TypeOK, Contents
<1>2. TypeOK' /\ Others(r)
  BY <1>1 DEF ClearMessages, ClearMessagesOf, Goto, TypeOK, PC, ghosts, Others
<1>3. RowsBelong'
  BY DEF ClearMessages, ClearMessagesOf, RowsBelong, TypeOK
<1>4. Req(r)'
  BY DEF ClearMessages, Goto, TypeOK, Req, Writing, Deleting
<1> QED
  BY <1>2, <1>3, <1>4, KeepsGeneral DEF ClearMessages, ghosts

LEMMA InsertGeneral ==
  ASSUME General, patient' = patient, NEW r \in Requests, InsertMessage(r) PROVE General'
<1> USE DEF General
<1>0. pc[r] = "insert" /\ UNCHANGED <<mem, owner, usedSess, sessRows>>
  BY DEF InsertMessage
<1>1. CASE rows[r] = {}
  <2>1. Goto(r, "next") /\ UNCHANGED <<msgRows, locals, ghosts>>
    BY <1>1 DEF InsertMessage
  <2>2. TypeOK' /\ Others(r) /\ RowsBelong'
    BY <1>0, <2>1 DEF Goto, TypeOK, PC, locals, ghosts, Others, RowsBelong
  <2>3. Req(r)'
    BY <1>0, <2>1 DEF Goto, TypeOK, locals, Req, Writing, Deleting
  <2> QED
    BY <1>0, <2>1, <2>2, <2>3, KeepsGeneral DEF ghosts
<1>2. ASSUME NEW m \in rows[r], BreakOff(r), refused' = TRUE, UNCHANGED msgRows PROVE General'
  BY <1>0, <1>2, BreakOffGeneral DEF Writing
<1>3. ASSUME NEW m \in rows[r], owner[m] \in sessRows, msgRows' = [msgRows EXCEPT ![m] = owner[m]],
             rows' = [rows EXCEPT ![r] = @ \ {m}], UNCHANGED <<pc, snap, stale, todo, cur, ghosts>>
      PROVE General'
  <2>1. TypeOK' /\ Others(r) /\ RowsBelong'
    BY <1>0, <1>3 DEF TypeOK, ghosts, Others, RowsBelong
  <2>2. Req(r)'
    BY <1>0, <1>3 DEF TypeOK, Req, Writing, Deleting
  <2> QED
    BY <1>0, <1>3, <2>1, <2>2, KeepsGeneral DEF ghosts
<1> QED
  BY <1>1, <1>2, <1>3 DEF InsertMessage

LEMMA RestartGeneral == ASSUME General, patient' = patient, Restart PROVE General'
<1> USE DEF General
<1>1. OnDisk \in [Sessions -> Contents] /\ Nothing \in [Sessions -> Contents]
  BY DEF OnDisk, Nothing, Contents
<1>2. kept' \in [Sessions -> SUBSET Contents]
  BY <1>1 DEF Restart, TypeOK
<1>3. TypeOK'
  BY <1>1, <1>2 DEF Restart, TypeOK, PC, db
<1>4. RowsBelong'
  BY DEF Restart, RowsBelong, db
<1>5. \A r \in Requests : Req(r)'
  BY DEF Restart, Req, Nothing, Writing, Deleting
<1>6. \A s \in Sessions : mem'[s] # Gone => s \in usedSess'
  BY DEF Restart, OnDisk, TypeOK
<1> QED
  BY <1>3, <1>4, <1>5, <1>6 DEF Restart

-----------------------------------------------------------------------------
(* One request at a time.                                                  *)

LEMMA DiskIs ==
  ASSUME NEW s \in Sessions
  PROVE  /\ s \in sessRows => OnDisk[s] = Stored(s) /\ Stored(s) # Gone /\ Stored(s) \in SUBSET Msgs
         /\ s \notin sessRows => OnDisk[s] = Gone
         /\ s \in sessRows' => OnDisk'[s] = Stored(s)' /\ Stored(s)' # Gone
         /\ s \notin sessRows' => OnDisk'[s] = Gone
<1>1. Stored(s) \in SUBSET Msgs /\ Stored(s)' \in SUBSET Msgs
  BY DEF Stored
<1> QED
  BY <1>1, GoneAssumption DEF OnDisk, Stored

\* A step of the one sync that is under way.
LEMMA StepKeepsSolo ==
  ASSUME IInv, patient, General', NEW r \in Requests, pc[r] # "idle", Others(r), ~refused',
         UNCHANGED <<mem, owner>>, Phase(r)', \A s \in Sessions : mem[s] \in kept'[s] /\ Found(s)',
         pc'[r] = "idle" /\ ~lost' => OnDisk' = mem
  PROVE  Solo'
<1>1. \A d \in Requests \ {r} : pc[d] = "idle" /\ pc'[d] = "idle"
  BY DEF IInv, Solo, Turn, Others
<1>2. Turn'
  BY <1>1 DEF Turn
<1>3. \A d \in Requests : Phase(d)'
  <2>1. ASSUME NEW d \in Requests \ {r} PROVE Phase(d)'
    BY <1>1, <2>1 DEF Phase, Deleting, Writing
  <2> QED
    BY <2>1
<1> QED
  BY <1>2, <1>3 DEF IInv, Solo

\* The sessions found on disk, when the step wrote nothing.
LEMMA FoundStays ==
  ASSUME IInv, patient, NEW r \in Requests, Others(r), UNCHANGED <<mem, sessRows, msgRows, kept>>,
         damaged \subseteq damaged',
         pc[r] \in {"deleteSess", "clear", "insert"} =>
            (pc'[r] \in {"deleteSess", "clear", "insert"} /\ cur'[r] = cur[r]) \/ cur[r] \in damaged'
            \/ OnDisk[cur[r]] = mem[cur[r]]
  PROVE  \A s \in Sessions : mem[s] \in kept'[s] /\ Found(s)'
<1> SUFFICES ASSUME NEW s \in Sessions PROVE mem[s] \in kept'[s] /\ Found(s)'
  OBVIOUS
<1>1. mem[s] \in kept[s] /\ Found(s)
  BY DEF IInv, Solo
<1>2. OnDisk' = OnDisk /\ Stored(s)' = Stored(s)
  BY DEF OnDisk, Stored
<1>3. CASE OnDisk[s] \in kept[s]
  BY <1>1, <1>2, <1>3 DEF Found
<1>4. CASE /\ s \in sessRows
           /\ \E whole \in kept[s] \ {Gone} : Stored(s) \subseteq whole
           /\ s \in damaged \/ \E q \in Requests : cur[q] = s /\ pc[q] \in {"deleteSess", "clear", "insert"}
  <2>1. CASE s \in damaged
    BY <1>1, <1>2, <1>4, <2>1 DEF Found
  <2>2. ASSUME NEW q \in Requests, cur[q] = s, pc[q] \in {"deleteSess", "clear", "insert"} PROVE Found(s)'
    <3>1. CASE q # r
      <4>1. cur'[q] = cur[q] /\ pc'[q] = pc[q]
        BY <3>1 DEF Others
      <4> QED
        BY <1>2, <1>4, <2>2, <4>1 DEF Found
    <3>2. CASE q = r
      BY <1>1, <1>2, <1>4, <2>2, <3>2 DEF Found
    <3> QED
      BY <3>1, <3>2
  <2> QED
    BY <1>1, <1>4, <2>1, <2>2
<1> QED
  BY <1>1, <1>3, <1>4 DEF Found

\* The same, when the step wrote session cur[r] only.
LEMMA FoundElsewhere ==
  ASSUME IInv, patient, NEW r \in Requests, pc[r] # "idle", Others(r), UNCHANGED <<mem, kept, damaged, cur>>,
         \A s \in Sessions \ {cur[r]} : (s \in sessRows' <=> s \in sessRows) /\ Stored(s)' = Stored(s),
         cur[r] \in Sessions => Found(cur[r])'
  PROVE  \A s \in Sessions : mem[s] \in kept'[s] /\ Found(s)'
<1>0. \A s \in Sessions : mem[s] \in kept'[s]
  BY DEF IInv, Solo
<1> SUFFICES ASSUME NEW s \in Sessions, s # cur[r] PROVE Found(s)'
  BY <1>0
<1>1. mem[s] \in kept[s] /\ Found(s) /\ Stored(s)' = Stored(s) /\ (s \in sessRows' <=> s \in sessRows)
  BY DEF IInv, Solo
<1>2. OnDisk'[s] = OnDisk[s]
  BY <1>1, DiskIs
<1>3. \A d \in Requests \ {r} : pc[d] = "idle"
  BY DEF IInv, Solo, Turn
<1> QED
  BY <1>1, <1>2, <1>3 DEF Found

LEMMA SnapshotSolo ==
  ASSUME IInv, patient, General', NEW r \in Requests, Snapshot(r) \/ ListPersisted(r) PROVE Solo'
<1>1. /\ pc[r] \in {"snapshot", "list"} /\ Others(r) /\ pc'[r] \in {"list", "purge"}
      /\ UNCHANGED <<mem, owner, sessRows, msgRows, kept, damaged, refused>>
  BY DEF Snapshot, ListPersisted, Goto, Others, db, ghosts, IInv, General, TypeOK
<1>2. Phase(r)'
  BY DEF Snapshot, ListPersisted, Goto, db, IInv, General, TypeOK, Solo, Phase, Deleting, Writing
<1>3. \A s \in Sessions : mem[s] \in kept'[s] /\ Found(s)'
  BY <1>1, FoundStays
<1> QED
  BY <1>1, <1>2, <1>3, StepKeepsSolo DEF IInv, Solo

LEMMA PurgeSolo ==
  ASSUME IInv, patient, General', NEW r \in Requests, Purge(r) PROVE Solo'
<1>1. /\ pc[r] = "purge" /\ Others(r) /\ pc'[r] \in {"next", "deleteMsgs"}
      /\ UNCHANGED <<mem, owner, sessRows, msgRows, kept, damaged, refused, snap, todo>>
  BY DEF Purge, Goto, Others, db, ghosts, IInv, General, TypeOK
<1>2. Phase(r)'
  <2>1. Phase(r)
    BY DEF IInv, Solo
  <2>2. CASE stale[r] = {} /\ Goto(r, "next")
    BY <1>1, <2>1, <2>2 DEF Goto, IInv, General, TypeOK, Phase, Deleting, Writing
  <2>3. ASSUME NEW s \in stale[r], cur' = [cur EXCEPT ![r] = s], stale' = [stale EXCEPT ![r] = @ \ {s}],
               Goto(r, "deleteMsgs")
        PROVE  Phase(r)'
    <3>1. pc'[r] = "deleteMsgs" /\ cur'[r] = s /\ stale'[r] = stale[r] \ {s}
      BY <2>3 DEF Goto, IInv, General, TypeOK
    <3> QED
      BY <1>1, <2>1, <3>1 DEF Phase, Deleting, Writing
  <2> QED
    BY <2>2, <2>3 DEF Purge
<1>3. \A s \in Sessions : mem[s] \in kept'[s] /\ Found(s)'
  BY <1>1, FoundStays
<1> QED
  BY <1>1, <1>2, <1>3, StepKeepsSolo DEF IInv, Solo

LEMMA DeleteMessagesSolo ==
  ASSUME IInv, patient, General', NEW r \in Requests, DeleteStaleMessages(r) PROVE Solo'
<1>1. /\ pc[r] = "deleteMsgs" /\ Others(r) /\ pc'[r] = "deleteSess" /\ cur[r] \in Sessions
      /\ UNCHANGED <<mem, owner, sessRows, kept, damaged, refused, snap, todo, stale, cur>>
  BY DEF DeleteStaleMessages, Goto, Others, locals, ghosts, IInv, General, Req, Deleting, TypeOK
<1>2. Phase(r)' /\ mem[cur[r]] = Gone
  <2>1. Phase(r)
    BY DEF IInv, Solo
  <2> QED
    BY <1>1, <2>1 DEF Phase, Deleting, Writing
<1>3. Stored(cur[r])' = {} /\ \A s \in Sessions \ {cur[r]} : Stored(s)' = Stored(s)
  BY <1>1, NoRowAssumption DEF DeleteStaleMessages, ClearMessagesOf, Stored, IInv, General, TypeOK
<1>4. Found(cur[r])'
  <2>1. mem[cur[r]] \in kept[cur[r]] /\ Found(cur[r])
    BY <1>1 DEF IInv, Solo
  <2>2. CASE cur[r] \notin sessRows
    BY <1>1, <1>2, <2>1, <2>2, DiskIs DEF Found
  <2>3. CASE cur[r] \in sessRows
    <3>1. \E whole \in kept[cur[r]] \ {Gone} : Stored(cur[r]) \subseteq whole
      BY <1>1, <2>1, <2>3, DiskIs DEF Found
    <3> QED
      BY <1>1, <1>3, <2>3, <3>1 DEF Found
  <2> QED
    BY <2>2, <2>3
<1>5. \A s \in Sessions : mem[s] \in kept'[s] /\ Found(s)'
  BY <1>1, <1>3, <1>4, FoundElsewhere
<1> QED
  BY <1>1, <1>2, <1>5, StepKeepsSolo DEF IInv, Solo

LEMMA DeleteSessionSolo ==
  ASSUME IInv, patient, General', NEW r \in Requests, DeleteStaleSession(r) PROVE Solo'
<1>1. /\ pc[r] = "deleteSess" /\ Others(r) /\ pc'[r] = "purge" /\ cur[r] \in Sessions
      /\ sessRows' = sessRows \ {cur[r]}
      /\ UNCHANGED <<mem, owner, kept, damaged, refused, snap, todo, stale, cur>>
  BY DEF DeleteStaleSession, Goto, Others, locals, ghosts, IInv, General, Req, Deleting, TypeOK
<1>2. Phase(r)' /\ mem[cur[r]] = Gone
  <2>1. Phase(r)
    BY DEF IInv, Solo
  <2> QED
    BY <1>1, <2>1 DEF Phase, Deleting, Writing
<1>3. \A s \in Sessions \ {cur[r]} : Stored(s)' = Stored(s)
  BY <1>1, NoRowAssumption DEF DeleteStaleSession, ClearMessagesOf, Stored, IInv, General, TypeOK
<1>4. Found(cur[r])'
  <2>1. mem[cur[r]] \in kept[cur[r]]
    BY <1>1 DEF IInv, Solo
  <2> QED
    BY <1>1, <1>2, <2>1, DiskIs DEF Found
<1>5. \A s \in Sessions : mem[s] \in kept'[s] /\ Found(s)'
  BY <1>1, <1>3, <1>4, FoundElsewhere
<1> QED
  BY <1>1, <1>2, <1>5, StepKeepsSolo DEF IInv, Solo

LEMMA NextSessionSolo ==
  ASSUME IInv, patient, General', NEW r \in Requests, NextSession(r) PROVE Solo'
<1>1. pc[r] = "next" /\ UNCHANGED <<mem, owner, sessRows, msgRows, refused>> /\ Phase(r) /\ snap[r] = mem
  BY DEF NextSession, db, IInv, Solo, Phase
<1>2. ASSUME NEW s \in todo[r], cur' = [cur EXCEPT ![r] = s], todo' = [todo EXCEPT ![r] = @ \ {s}],
             Goto(r, "get"), UNCHANGED <<lost, kept, damaged>>, UNCHANGED snap
      PROVE  Solo'
  <2>1. pc'[r] = "get" /\ cur'[r] = s /\ todo'[r] = todo[r] \ {s}
    BY <1>2 DEF Goto, IInv, General, TypeOK
  <2>2. Others(r)
    BY <1>2 DEF NextSession, Goto, Others, IInv, General, TypeOK
  <2>3. Phase(r)'
    <3>1. \A q \in Sessions : Written(q)' <=> Written(q)
      BY <1>1 DEF Written, Stored
    <3> QED
      BY <1>1, <1>2, <2>1, <3>1 DEF Phase, Deleting, Writing
  <2>4. \A q \in Sessions : mem[q] \in kept'[q] /\ Found(q)'
    BY <1>1, <1>2, <2>2, FoundStays
  <2> QED
    BY <1>1, <2>1, <2>2, <2>3, <2>4, StepKeepsSolo DEF IInv, Solo
<1>3. CASE /\ todo[r] = {}
           /\ Return(r)
           /\ kept' = IF patient THEN [s \in Sessions |-> {snap[r][s]}] ELSE kept
           /\ damaged' = {}
           /\ lost' = FALSE
           /\ UNCHANGED todo
  <2>1. pc'[r] = "idle" /\ Others(r)
    BY <1>3 DEF NextSession, Return, Goto, Others, IInv, General, TypeOK
  <2>2. \A s \in Sessions : OnDisk[s] = mem[s]
    BY <1>1, <1>3, DiskIs DEF Phase, Written
  <2>3. OnDisk = mem /\ OnDisk' = OnDisk
    <3>1. OnDisk = [s \in Sessions |-> OnDisk[s]] /\ OnDisk' = OnDisk
      BY <1>1 DEF OnDisk
    <3>2. mem = [s \in Sessions |-> mem[s]]
      BY DEF IInv, General, TypeOK
    <3> QED
      BY <2>2, <3>1, <3>2
  <2>4. Phase(r)'
    BY <2>1 DEF Phase, Deleting, Writing
  <2>5. \A s \in Sessions : mem[s] \in kept'[s] /\ Found(s)'
    BY <1>1, <1>3, <2>3 DEF Found
  <2> QED
    BY <1>1, <2>1, <2>3, <2>4, <2>5, StepKeepsSolo DEF IInv, Solo
<1> QED
  BY <1>2, <1>3 DEF NextSession

LEMMA GetSolo ==
  ASSUME IInv, patient, General', NEW r \in Requests, GetSession(r) \/ UpdateSession(r) PROVE Solo'
<1>1. /\ pc[r] \in {"get", "update"} /\ Others(r) /\ Phase(r)
      /\ UNCHANGED <<mem, owner, sessRows, msgRows, kept, damaged, refused, snap, todo, stale, cur, rows>>
  BY DEF GetSession, UpdateSession, Goto, Others, db, locals, ghosts, IInv, General, TypeOK, Solo
<1>2. \/ pc'[r] = "update" /\ cur[r] \in sessRows
      \/ pc'[r] = "create" /\ cur[r] \notin sessRows
      \/ pc'[r] = "clear" /\ pc[r] = "update"
  BY DEF GetSession, UpdateSession, Goto, IInv, General, TypeOK
<1>3. \A q \in Sessions : Written(q)' <=> Written(q)
  BY <1>1 DEF Written, Stored
<1>4. Phase(r)'
  BY <1>1, <1>2, <1>3 DEF Phase, Deleting, Writing
<1>5. \A s \in Sessions : mem[s] \in kept'[s] /\ Found(s)'
  BY <1>1, FoundStays
<1> QED
  BY <1>1, <1>2, <1>4, <1>5, StepKeepsSolo DEF IInv, Solo

LEMMA FailsSolo ==
  ASSUME IInv, patient, General', NEW r \in Requests, StatementFails(r) PROVE Solo'
<1>1. /\ pc[r] \in {"list"} \cup Deleting \cup Writing /\ pc'[r] = "idle" /\ Others(r) /\ lost'
      /\ UNCHANGED <<mem, owner, sessRows, msgRows, refused, kept>>
      /\ damaged \subseteq damaged' /\ (pc[r] # "list" => cur[r] \in damaged')
  BY DEF StatementFails, BreakOff, Return, Goto, db, Others, IInv, General, TypeOK, PC, Deleting, Writing
<1>2. Phase(r)'
  BY <1>1 DEF Phase, Deleting, Writing
<1>3. \A s \in Sessions : mem[s] \in kept'[s] /\ Found(s)'
  BY <1>1, FoundStays
<1> QED
  BY <1>1, <1>2, <1>3, StepKeepsSolo DEF IInv, Solo, Deleting, Writing

LEMMA CreateSolo ==
  ASSUME IInv, patient, General', NEW r \in Requests, CreateSession(r) PROVE Solo'
<1>1. pc[r] = "create" /\ Phase(r) /\ cur[r] \notin sessRows /\ cur[r] \in Sessions /\ mem[cur[r]] # Gone
  BY DEF CreateSession, IInv, Solo, Phase, General, Req, Writing
<1>2. /\ Others(r) /\ pc'[r] = "clear" /\ sessRows' = sessRows \cup {cur[r]}
      /\ UNCHANGED <<mem, owner, msgRows, kept, damaged, refused, snap, todo, stale, cur, rows>>
  BY <1>1 DEF CreateSession, Goto, Others, locals, ghosts, IInv, General, TypeOK
<1>3. \A s \in Sessions : Stored(s)' = Stored(s)
  BY <1>2 DEF Stored
<1>4. Phase(r)'
  BY <1>1, <1>2, <1>3 DEF Phase, Written, Deleting, Writing
<1>5. Found(cur[r])'
  <2>1. Stored(cur[r]) = {}
    BY <1>1, NoRowAssumption DEF Stored, IInv, General, RowsBelong
  <2>2. mem[cur[r]] \in kept[cur[r]] \ {Gone}
    BY <1>1 DEF IInv, Solo
  <2> QED
    BY <1>1, <1>2, <1>3, <2>1, <2>2 DEF Found
<1>6. \A s \in Sessions : mem[s] \in kept'[s] /\ Found(s)'
  BY <1>1, <1>2, <1>3, <1>5, FoundElsewhere
<1> QED
  BY <1>1, <1>2, <1>4, <1>6, StepKeepsSolo DEF IInv, Solo

LEMMA ClearSolo ==
  ASSUME IInv, patient, General', NEW r \in Requests, ClearMessages(r) PROVE Solo'
<1>1. /\ pc[r] = "clear" /\ Phase(r) /\ cur[r] \in sessRows /\ cur[r] \in Sessions /\ mem[cur[r]] # Gone
      /\ snap[r] = mem
  BY DEF ClearMessages, IInv, Solo, Phase, General, Req, Writing
<1>2. /\ Others(r) /\ pc'[r] = "insert" /\ rows'[r] = mem[cur[r]]
      /\ UNCHANGED <<mem, owner, sessRows, kept, damaged, refused, snap, todo, stale, cur>>
  BY <1>1 DEF ClearMessages, Goto, Others, ghosts, IInv, General, TypeOK
<1>3. Stored(cur[r])' = {} /\ \A s \in Sessions \ {cur[r]} : Stored(s)' = Stored(s)
  BY <1>1, NoRowAssumption DEF ClearMessages, ClearMessagesOf, Stored, IInv, General, TypeOK
<1>4. Phase(r)'
  BY <1>1, <1>2, <1>3 DEF Phase, Written, Deleting, Writing
<1>5. Found(cur[r])'
  <2>1. mem[cur[r]] \in kept[cur[r]] \ {Gone}
    BY <1>1 DEF IInv, Solo
  <2> QED
    BY <1>1, <1>2, <1>3, <2>1 DEF Found
<1>6. \A s \in Sessions : mem[s] \in kept'[s] /\ Found(s)'
  BY <1>1, <1>2, <1>3, <1>5, FoundElsewhere
<1> QED
  BY <1>1, <1>2, <1>4, <1>6, StepKeepsSolo DEF IInv, Solo

LEMMA InsertSolo ==
  ASSUME IInv, patient, General', NEW r \in Requests, InsertMessage(r) PROVE Solo'
<1> DEFINE s == cur[r]
<1>1. /\ pc[r] = "insert" /\ Phase(r) /\ s \in sessRows /\ s \in Sessions /\ mem[s] # Gone
      /\ rows[r] \subseteq mem[s] /\ Stored(s) = mem[s] \ rows[r] /\ mem[s] \in SUBSET Msgs
      /\ UNCHANGED <<mem, owner, sessRows>>
  <2>1. pc[r] = "insert" /\ UNCHANGED <<mem, owner, sessRows>>
    BY DEF InsertMessage
  <2>2. Phase(r) /\ s \in Sessions /\ snap[r][s] # Gone
    BY <2>1 DEF IInv, Solo, General, Req, Writing
  <2>3. snap[r] = mem /\ s \in sessRows /\ rows[r] \subseteq mem[s] /\ Stored(s) = mem[s] \ rows[r]
    BY <2>1, <2>2 DEF Phase
  <2>4. mem[s] \in SUBSET Msgs
    BY <2>2, <2>3 DEF IInv, General, TypeOK, Contents
  <2> QED
    BY <2>1, <2>2, <2>3, <2>4
<1>2. CASE rows[r] = {}
  <2>1. Others(r) /\ pc'[r] = "next" /\ UNCHANGED <<msgRows, kept, damaged, refused, snap, todo, stale, cur, rows>>
    BY <1>1, <1>2 DEF InsertMessage, Goto, Others, locals, ghosts, IInv, General, TypeOK
  <2>2. Written(s) /\ \A q \in Sessions : Written(q)' <=> Written(q)
    BY <1>1, <1>2, <2>1 DEF Written, Stored
  <2>3. Phase(r)'
    BY <1>1, <2>1, <2>2 DEF Phase, Deleting, Writing
  <2>4. \A q \in Sessions : mem[q] \in kept'[q] /\ Found(q)'
    BY <1>1, <2>1, <2>2, DiskIs, FoundStays DEF Written
  <2> QED
    BY <1>1, <2>1, <2>3, <2>4, StepKeepsSolo DEF IInv, Solo
<1>3. CASE rows[r] # {}
  <2>1. ASSUME NEW m \in rows[r] PROVE msgRows[m] = NoRow /\ owner[m] = s /\ m \in Msgs
    <3>1. m \in mem[s] /\ m \in Msgs /\ owner[m] = s /\ m \notin Stored(s)
      BY <1>1, <2>1 DEF IInv, Solo
    <3> QED
      BY <3>1 DEF Stored, IInv, General, RowsBelong
  <2>2. PICK m \in rows[r] :
           /\ msgRows' = [msgRows EXCEPT ![m] = s] /\ rows' = [rows EXCEPT ![r] = @ \ {m}]
           /\ UNCHANGED <<pc, snap, stale, todo, cur, ghosts>>
    BY <1>1, <1>3, <2>1 DEF InsertMessage
  <2>3. /\ Others(r) /\ pc'[r] = "insert" /\ rows'[r] = rows[r] \ {m}
        /\ UNCHANGED <<kept, damaged, refused, snap, todo, stale, cur>>
    BY <1>1, <2>2 DEF Others, ghosts, IInv, General, TypeOK
  <2>4. Stored(s)' = Stored(s) \cup {m} /\ \A q \in Sessions \ {s} : Stored(q)' = Stored(q)
    BY <2>1, <2>2, NoRowAssumption DEF Stored, IInv, General, TypeOK
  <2>5. Stored(s)' = mem[s] \ rows'[r] /\ rows'[r] \subseteq mem[s]
    BY <1>1, <2>2, <2>3, <2>4
  <2>6. Phase(r)'
    BY <1>1, <2>3, <2>4, <2>5 DEF Phase, Written, Deleting, Writing
  <2>7. Found(s)'
    <3>1. mem[s] \in kept[s] \ {Gone}
      BY <1>1 DEF IInv, Solo
    <3> QED
      BY <1>1, <2>3, <2>5, <3>1 DEF Found
  <2>8. \A q \in Sessions : mem[q] \in kept'[q] /\ Found(q)'
    BY <1>1, <2>3, <2>4, <2>7, FoundElsewhere
  <2> QED
    BY <1>1, <2>3, <2>6, <2>8, StepKeepsSolo DEF IInv, Solo
<1> QED
  BY <1>2, <1>3

LEMMA ChangeSolo ==
  ASSUME IInv, patient, General', NEW r \in Requests, Change(r) PROVE Solo'
<1>1. /\ \A d \in Requests : pc[d] = "idle" /\ pc'[d] = IF d = r THEN "snapshot" ELSE "idle"
      /\ UNCHANGED <<sessRows, msgRows, refused, damaged, lost>>
      /\ kept' = [s \in Sessions |-> kept[s] \cup {mem'[s]}]
  BY DEF Change, Goto, db, IInv, General, TypeOK
<1>2. Turn' /\ \A d \in Requests : Phase(d)'
  BY <1>1 DEF Turn, Phase, Deleting, Writing
<1>3. \A s \in Sessions : mem'[s] # Gone => \A m \in mem'[s] : owner'[m] = s
  <2>0. /\ \A s \in Sessions : mem[s] # Gone => \A m \in mem[s] : owner[m] = s
        /\ mem \in [Sessions -> Contents] /\ owner \in [Msgs -> Sessions \cup {NoRow}]
    BY DEF IInv, Solo, General, TypeOK
  <2>1. CASE \E s \in Sessions \ usedSess :
             /\ mem' = [mem EXCEPT ![s] = {}]
             /\ usedSess' = usedSess \cup {s}
             /\ UNCHANGED owner
    BY <2>0, <2>1
  <2>2. CASE \E s \in Live, m \in {n \in Msgs : owner[n] = NoRow} :
             /\ mem' = [mem EXCEPT ![s] = @ \cup {m}]
             /\ owner' = [owner EXCEPT ![m] = s]
             /\ UNCHANGED usedSess
    BY <2>0, <2>2, NoRowAssumption DEF Live, Contents
  <2>3. CASE \E s \in Live : \E m \in mem[s] :
             /\ mem' = [mem EXCEPT ![s] = @ \ {m}]
             /\ UNCHANGED <<owner, usedSess>>
    BY <2>0, <2>3 DEF Live
  <2>4. CASE \E tree \in SUBSET Live \ {{}} :
             /\ mem' = [s \in Sessions |-> IF s \in tree THEN Gone ELSE mem[s]]
             /\ UNCHANGED <<owner, usedSess>>
    BY <2>0, <2>4 DEF Live
  <2> QED
    BY <2>1, <2>2, <2>3, <2>4 DEF Change
<1>4. ASSUME NEW s \in Sessions PROVE mem'[s] \in kept'[s] /\ Found(s)'
  <2>1. mem'[s] \in kept'[s] /\ kept[s] \subseteq kept'[s] /\ Found(s)
    BY <1>1 DEF IInv, Solo
  <2>2. OnDisk' = OnDisk /\ Stored(s)' = Stored(s)
    BY <1>1 DEF OnDisk, Stored
  <2> QED
    BY <1>1, <2>1, <2>2 DEF Found
<1> QED
  BY <1>1, <1>2, <1>3, <1>4 DEF IInv, Solo

LEMMA RestartSolo == ASSUME IInv, patient, General', Restart PROVE Solo'
<1>1. /\ \A d \in Requests : pc'[d] = "idle"
      /\ mem' = OnDisk /\ OnDisk' = OnDisk /\ UNCHANGED <<sessRows, msgRows, owner, refused>>
      /\ kept' = [s \in Sessions |-> {OnDisk[s]}]
  BY DEF Restart, db, OnDisk
<1>2. Turn' /\ \A d \in Requests : Phase(d)'
  BY <1>1 DEF Turn, Phase, Deleting, Writing
<1>3. \A s \in Sessions : mem'[s] # Gone => \A m \in mem'[s] : owner'[m] = s
  BY <1>1, NoRowAssumption DEF OnDisk, IInv, General, RowsBelong
<1> QED
  BY <1>1, <1>2, <1>3 DEF IInv, Solo, Found

-----------------------------------------------------------------------------
LEMMA Initial == Init => IInv
<1> SUFFICES ASSUME Init PROVE IInv
  OBVIOUS
<1>1. TypeOK
  BY DEF Init, TypeOK, Nothing, Contents, PC
<1>2. General
  BY <1>1 DEF Init, General, Nothing, RowsBelong, Req, Writing, Deleting
<1>3. OnDisk = Nothing
  BY DEF Init, OnDisk, Nothing
<1>4. Solo
  BY <1>3 DEF Init, Solo, Turn, Nothing, Phase, Found, Writing, Deleting
<1> QED
  BY <1>2, <1>4 DEF IInv

LEMMA Inductive == IInv /\ [Next]_vars => IInv'
<1> SUFFICES ASSUME IInv, [Next]_vars PROVE IInv'
  OBVIOUS
<1>1. ASSUME NEW r \in Requests, Change(r) \/ SyncStep(r), patient' = patient PROVE IInv'
  <2>1. General'
    BY <1>1, ChangeGeneral, SnapshotGeneral, ListGeneral, PurgeGeneral, DeleteMessagesGeneral,
       DeleteSessionGeneral, NextSessionGeneral, GetGeneral, FailsGeneral, CreateGeneral, ClearGeneral,
       InsertGeneral DEF SyncStep, IInv
  <2>2. patient => Solo'
    BY <1>1, <2>1, ChangeSolo, SnapshotSolo, PurgeSolo, DeleteMessagesSolo, DeleteSessionSolo,
       NextSessionSolo, GetSolo, FailsSolo, CreateSolo, ClearSolo, InsertSolo DEF SyncStep
  <2> QED
    BY <1>1, <2>1, <2>2 DEF IInv
<1>2. CASE Restart /\ patient' = patient
  BY <1>2, RestartGeneral, RestartSolo DEF IInv
<1>3. CASE UNCHANGED vars
  <2>1. General'
    BY <1>3 DEF vars, IInv, General, TypeOK, RowsBelong, Req
  <2>2. OnDisk' = OnDisk /\ \A s \in Sessions : Stored(s)' = Stored(s)
    BY <1>3 DEF vars, OnDisk, Stored
  <2>3. \A s \in Sessions : Found(s) => Found(s)'
    BY <1>3, <2>2 DEF vars, Found
  <2>4. \A r \in Requests : Phase(r) => Phase(r)'
    <3>1. \A s \in Sessions : Written(s)' <=> Written(s)
      BY <1>3, <2>2 DEF vars, Written
    <3>2. \A r \in Requests : pc[r] = "insert" => cur[r] \in Sessions
      BY DEF IInv, General, Req, Writing
    <3> QED
      BY <1>3, <2>2, <3>1, <3>2 DEF vars, Phase
  <2> QED
    BY <1>3, <2>1, <2>2, <2>3, <2>4 DEF vars, IInv, Solo, Turn
<1> QED
  BY <1>1, <1>2, <1>3 DEF Next

LEMMA Invariant == Spec => []IInv
BY Initial, Inductive, PTL DEF Spec

\* For any requests, sessions and messages every variable keeps its type, and
\* only sessions whose id was handed out have rows.
THEOREM TypeCorrect == Spec => []TypeOK
<1>1. IInv => TypeOK
  BY DEF IInv, General
<1> QED
  BY Invariant, <1>1, PTL

\* However many syncs overlap, fork and crash, a message is stored in the
\* session it was made in, and never without it.
THEOREM RowsStayTogether == Spec => []RowsBelong
<1>1. IInv => RowsBelong
  BY DEF IInv, General
<1> QED
  BY Invariant, <1>1, PTL

\* Crashes and failures leave nothing behind on which a later sync trips.
THEOREM NothingIsRefused == Spec => []NoStatementRefused
<1>1. IInv => NoStatementRefused
  BY DEF IInv, Solo, NoStatementRefused
<1> QED
  BY Invariant, <1>1, PTL

\* A sync that ends has saved the table, whatever earlier ones left undone.
THEOREM SyncSaves == Spec => []SavedWhenIdle
<1>1. IInv => SavedWhenIdle
  BY DEF IInv, Solo, SavedWhenIdle
<1> QED
  BY Invariant, <1>1, PTL

-----------------------------------------------------------------------------
(* The promise.                                                            *)

\* A crash leaves of each session what it was once, or a part of it if it is
\* one at which a sync broke off or was.
LEMMA CrashIsRestart ==
  ASSUME IInv, patient, patient' = patient, Restart PROVE [Durable!Next]_(Durable!vars)
<1>1. /\ mem \in [Sessions -> Contents] /\ mem' = OnDisk /\ OnDisk \in [Sessions -> Contents]
      /\ kept \in [Sessions -> SUBSET Contents]
      /\ kept' = [s \in Sessions |-> {OnDisk[s]}] /\ damaged' = {} /\ damaged \subseteq Sessions
  BY DEF Restart, OnDisk, Contents, IInv, General, TypeOK
<1>2. CASE Sessions = {}
  BY <1>1, <1>2 DEF Durable!vars
<1>3. CASE Sessions # {}
  <2>1. PICK last \in Sessions :
           \A r \in Requests, s \in Sessions :
              cur[r] = s /\ pc[r] \in {"deleteSess", "clear", "insert"} => s = last
    BY <1>3 DEF IInv, Solo, Turn
  <2>2. ASSUME NEW s \in Sessions
        PROVE  \/ OnDisk[s] \in kept[s]
               \/ /\ s \in damaged \cup {last}
                  /\ OnDisk[s] # Gone
                  /\ \E whole \in kept[s] \ {Gone} : OnDisk[s] \subseteq whole
    BY <2>1, DiskIs DEF IInv, Solo, Found
  <2>3. Durable!Restart
    <3>1. OnDisk \in [Sessions -> Durable!States]
      BY <1>1 DEF Durable!States, Contents
    <3> QED
      BY <1>1, <2>2, <3>1 DEF Durable!Restart
  <2> QED
    BY <2>3 DEF Durable!Next
<1> QED
  BY <1>2, <1>3

LEMMA ChangeIsRequest ==
  ASSUME IInv, patient, patient' = patient, NEW r \in Requests, Change(r) PROVE Durable!Request
<1>1. kept' = [s \in Sessions |-> kept[s] \cup {mem'[s]}] /\ damaged' = damaged
  BY DEF Change
<1>2. \/ \E s \in Sessions, state \in Durable!States : mem' = [mem EXCEPT ![s] = state]
      \/ \E tree \in SUBSET Sessions : mem' = [s \in Sessions |-> IF s \in tree THEN Gone ELSE mem[s]]
  <2>0. mem \in [Sessions -> Contents] /\ Durable!States = Contents
    BY DEF IInv, General, TypeOK, Contents, Durable!States
  <2>1. ASSUME NEW s \in Sessions, mem' = [mem EXCEPT ![s] = {}] PROVE <1>2!1
    BY <2>1 DEF Durable!States
  <2>2. ASSUME NEW s \in Live, NEW m \in Msgs, mem' = [mem EXCEPT ![s] = @ \cup {m}] PROVE <1>2!1
    <3>1. s \in Sessions /\ mem[s] \cup {m} \in Contents /\ mem' = [mem EXCEPT ![s] = mem[s] \cup {m}]
      BY <2>0, <2>2 DEF Live, Contents
    <3> QED
      BY <2>0, <3>1
  <2>3. ASSUME NEW s \in Live, NEW m \in mem[s], mem' = [mem EXCEPT ![s] = @ \ {m}] PROVE <1>2!1
    <3>1. s \in Sessions /\ mem[s] \ {m} \in Contents /\ mem' = [mem EXCEPT ![s] = mem[s] \ {m}]
      BY <2>0, <2>3 DEF Live, Contents
    <3> QED
      BY <2>0, <3>1
  <2>4. ASSUME NEW tree \in SUBSET Live \ {{}}, mem' = [s \in Sessions |-> IF s \in tree THEN Gone ELSE mem[s]]
        PROVE <1>2!2
    BY <2>4 DEF Live
  <2> QED
    BY <2>1, <2>2, <2>3, <2>4 DEF Change
<1> QED
  BY <1>1, <1>2 DEF Durable!Request

\* A step of a sync is none for its user, or the sync ends or breaks off.
LEMMA SyncStepRefines ==
  ASSUME IInv, patient, patient' = patient, NEW r \in Requests, SyncStep(r)
  PROVE  [Durable!Next]_(Durable!vars)
<1>0. mem' = mem
  BY DEF SyncStep, Snapshot, ListPersisted, Purge, DeleteStaleMessages, DeleteStaleSession, NextSession,
         GetSession, UpdateSession, CreateSession, ClearMessages, InsertMessage, StatementFails
<1>1. CASE UNCHANGED <<kept, damaged>>
  BY <1>0, <1>1 DEF Durable!vars
<1>2. CASE BreakOff(r) /\ pc[r] \in {"list"} \cup Deleting \cup Writing
  <2>1. CASE pc[r] = "list"
    BY <1>1, <1>2, <2>1 DEF BreakOff
  <2>2. CASE pc[r] # "list"
    <3>1. cur[r] \in Sessions /\ damaged' = damaged \cup {cur[r]} /\ kept' = kept
      BY <1>2, <2>2 DEF BreakOff, IInv, General, Req
    <3> QED
      BY <1>0, <3>1 DEF Durable!Next, Durable!BrokenOff
  <2> QED
    BY <2>1, <2>2
<1>3. CASE NextSession(r)
  <2>1. CASE kept' = [s \in Sessions |-> {snap[r][s]}] /\ damaged' = {}
    <3>1. snap[r] = mem
      BY <1>3 DEF NextSession, IInv, Solo, Phase
    <3> QED
      BY <1>0, <2>1, <3>1 DEF Durable!Next, Durable!Saved
  <2> QED
    BY <1>1, <1>3, <2>1 DEF NextSession
<1>4. CASE StatementFails(r)
  <2>1. pc[r] \in {"list"} \cup Deleting \cup Writing
    BY <1>4 DEF StatementFails, IInv, General, TypeOK, PC, Deleting, Writing
  <2> QED
    BY <1>2, <1>4, <2>1 DEF StatementFails
<1>5. CASE CreateSession(r) \/ InsertMessage(r)
  BY <1>1, <1>2, <1>5 DEF CreateSession, InsertMessage, ghosts, Writing
<1>6. CASE \/ Snapshot(r) \/ ListPersisted(r) \/ Purge(r) \/ DeleteStaleMessages(r) \/ DeleteStaleSession(r)
           \/ GetSession(r) \/ UpdateSession(r) \/ ClearMessages(r)
  BY <1>1, <1>6 DEF Snapshot, ListPersisted, Purge, DeleteStaleMessages, DeleteStaleSession, GetSession,
                    UpdateSession, ClearMessages, ghosts
<1> QED
  BY <1>3, <1>4, <1>5, <1>6 DEF SyncStep

LEMMA StepRefines == IInv /\ [Next]_vars => [Durable!Next]_(Durable!vars)
<1> SUFFICES ASSUME IInv, [Next]_vars PROVE [Durable!Next]_(Durable!vars)
  OBVIOUS
<1>1. CASE patient /\ Next
  BY <1>1, CrashIsRestart, ChangeIsRequest, SyncStepRefines DEF Next, Durable!Next
<1>2. CASE ~patient /\ Next
  <2>1. patient' = patient /\ damaged = {}
    BY <1>2 DEF Next, IInv, General
  <2>2. kept' = kept /\ damaged' = {}
    <3>1. ASSUME NEW r \in Requests, Change(r) PROVE kept' = kept /\ damaged' = {}
      BY <1>2, <2>1, <3>1 DEF Change
    <3>2. CASE Restart
      BY <1>2, <3>2 DEF Restart
    <3>3. ASSUME NEW r \in Requests,
                 \/ Snapshot(r) \/ ListPersisted(r) \/ Purge(r) \/ NextSession(r) \/ GetSession(r)
          PROVE  kept' = kept /\ damaged' = {}
      BY <1>2, <2>1, <3>3 DEF Snapshot, ListPersisted, Purge, NextSession, GetSession, ghosts
    <3>4. ASSUME NEW r \in Requests,
                 \/ DeleteStaleMessages(r) \/ DeleteStaleSession(r) \/ UpdateSession(r)
                 \/ CreateSession(r) \/ ClearMessages(r)
          PROVE  kept' = kept /\ damaged' = {}
      BY <1>2, <2>1, <3>4
         DEF DeleteStaleMessages, DeleteStaleSession, UpdateSession, CreateSession, ClearMessages, BreakOff, ghosts
    <3>5. ASSUME NEW r \in Requests, InsertMessage(r) \/ StatementFails(r)
          PROVE  kept' = kept /\ damaged' = {}
      BY <1>2, <2>1, <3>5 DEF InsertMessage, StatementFails, BreakOff, ghosts
    <3> QED
      BY <1>2, <3>1, <3>2, <3>3, <3>4, <3>5 DEF Next, SyncStep
  <2> QED
    BY <1>2, <2>1, <2>2 DEF Durable!vars
<1>3. CASE UNCHANGED vars
  BY <1>3 DEF vars, Durable!vars
<1> QED
  BY <1>1, <1>2, <1>3

\* Whatever crashes and fails, a user who makes one request at a time finds
\* what DurableSessions promises.
THEOREM Implements == Spec => ImplementsDurableSessions
<1>1. Init => Durable!Init
  BY DEF Init, Nothing, Durable!Init
<1>2. IInv /\ [Next]_vars => [Durable!Next]_(Durable!vars)
  BY StepRefines
<1> QED
  BY Invariant, <1>1, <1>2, PTL DEF Spec, ImplementsDurableSessions, Durable!Spec

\* Whenever the server dies, a user who makes one request at a time finds no
\* session again whose deletion was saved, misses none that was saved, and
\* finds in none more than it once held.
THEOREM CrashesFindWhatWasSaved ==
  Spec => [](patient => \A s \in Sessions :
                /\ kept[s] = {Gone} => OnDisk[s] = Gone
                /\ OnDisk[s] = Gone => Gone \in kept[s]
                /\ OnDisk[s] # Gone => \E whole \in kept[s] \ {Gone} : OnDisk[s] \subseteq whole)
<1> DEFINE Promise(s) ==
             /\ kept[s] = {Gone} => OnDisk[s] = Gone
             /\ OnDisk[s] = Gone => Gone \in kept[s]
             /\ OnDisk[s] # Gone => \E whole \in kept[s] \ {Gone} : OnDisk[s] \subseteq whole
<1>1. ASSUME IInv, patient, NEW s \in Sessions PROVE Promise(s)
  <2>1. Found(s)
    BY <1>1 DEF IInv, Solo
  <2>2. OnDisk[s] = IF s \in sessRows THEN Stored(s) ELSE Gone
    BY DEF OnDisk, Stored
  <2>3. Stored(s) # Gone
    BY GoneAssumption DEF Stored
  <2> QED
    BY <2>1, <2>2, <2>3 DEF Found
<1>2. IInv => (patient => \A s \in Sessions : Promise(s))
  BY <1>1
<1> QED
  BY <1>2, Invariant, PTL
=============================================================================
