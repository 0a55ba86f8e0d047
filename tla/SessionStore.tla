---------------------------- MODULE SessionStore ----------------------------
(***************************************************************************)
(* The server's session table (kfcode-session, SessionManager behind       *)
(* ServerState::sessions) under the routes of kfcode-server that work on   *)
(* it concurrently.  Most handlers lock the table, change a session in     *)
(* place and are done.  Two are spawned and come back later:               *)
(*   POST /session/{id}/prompt   clones the session, lets a run change the *)
(*       clone, and writes whole snapshots of the clone back through an    *)
(*       unbounded channel and an update task;                             *)
(*   POST /session/{id}/stream   streams an answer, then looks session and *)
(*       message up again and adds to what it finds.                       *)
(* What a session holds is abstracted to the set of changes made to it:    *)
(* messages, parts, title, permission, revert, archive are all changes.    *)
(***************************************************************************)
EXTENDS Naturals, Sequences, FiniteSets

CONSTANTS
    Sessions,   \* session ids, in the supply of fresh uuids
    NoSession,  \* no session
    Prompts,    \* the tasks that POST .../prompt spawns
    Streams,    \* the tasks that POST .../stream spawns
    MaxRequests \* bound on sessions made, changes and tasks spawned together

ASSUME NoSessionAssumption == NoSession \notin Sessions
ASSUME TasksAssumption == Prompts \cap Streams = {}
ASSUME MaxRequestsAssumption == MaxRequests \in Nat

Tasks == Prompts \cup Streams

VARIABLES
    store,      \* SessionManager::sessions: the session of each id, or Absent
    used,       \* the ids handed out so far
    busy,       \* SESSION_RUN_STATUS: the sessions with a Busy entry
    changes,    \* how many changes were made; they are numbered
    spawned,    \* how many tasks were spawned
    pc,         \* of each task: where it is
    sess,       \* of each task: the session it was spawned for
    copy,       \* of each prompt task: its clone of the session
    updates,    \* of each prompt task: the channel to its update task
    deleted,    \* ghost: the sessions that were deleted
    quiet       \* ghost: changes made while no prompt task held a clone

vars == <<store, used, busy, changes, spawned, pc, sess, copy, updates, deleted, quiet>>

Record == [parent : Sessions \cup {NoSession}, has : SUBSET Nat]
Absent == [parent |-> NoSession, has |-> {}, absent |-> TRUE]
Fresh(p) == [parent |-> p, has |-> {}]

Exists(s) == store[s] # Absent
PromptPC == {"idle", "clone", "setBusy", "run", "drain", "setIdle"}

Init ==
    /\ store = [s \in Sessions |-> Absent]
    /\ used = {}
    /\ busy = {}
    /\ changes = 0
    /\ spawned = 0
    /\ pc = [t \in Tasks |-> "idle"]
    /\ sess = [t \in Tasks |-> NoSession]
    /\ copy = [t \in Prompts |-> Absent]
    /\ updates = [t \in Prompts |-> <<>>]
    /\ deleted = {}
    /\ quiet = {}

\* The prompt tasks that hold a clone of s.
Holders(s) == {t \in Prompts : sess[t] = s /\ pc[t] \in {"setBusy", "run", "drain"}}

Insert(s, record) == store' = [store EXCEPT ![s] = record]

\* The bound of the model.
Within == Cardinality(used) + changes + spawned < MaxRequests

\* Ids are fresh uuids, so it does not matter which one comes next.
FreshId == CHOOSE s \in Sessions : s \notin used

UNCHANGEDTasks == UNCHANGED <<spawned, pc, sess, copy, updates>>

-----------------------------------------------------------------------------
(* The handlers that are done when they give the lock back.                *)

\* create_session: a root session, or the child of an existing one.
CreateSession(s) ==
    /\ s \notin used
    /\ s = FreshId
    /\ Within
    /\ used' = used \cup {s}
    /\ \E p \in {NoSession} \cup {q \in Sessions : Exists(q)} : Insert(s, Fresh(p))
    /\ UNCHANGED <<busy, changes, deleted, quiet>> /\ UNCHANGEDTasks

\* fork_session: a root session with the messages of another up to some one.
ForkSession(s, from) ==
    /\ s \notin used
    /\ s = FreshId
    /\ Within
    /\ Exists(from)
    /\ used' = used \cup {s}
    /\ \E kept \in {{}, store[from].has} :
          Insert(s, [Fresh(NoSession) EXCEPT !.has = kept])
    /\ UNCHANGED <<busy, changes, deleted, quiet>> /\ UNCHANGEDTasks

\* The handlers that change a session in place: title, permission, summary,
\* revert, share, archive, compaction, PATCH, messages and parts.
ChangeSession(s) ==
    /\ Exists(s)
    /\ Within
    /\ changes' = changes + 1
    /\ Insert(s, [store[s] EXCEPT !.has = @ \cup {changes'}])
    /\ quiet' = IF Holders(s) = {} THEN quiet \cup {<<s, changes'>>} ELSE quiet
    /\ UNCHANGED <<used, busy, deleted>> /\ UNCHANGEDTasks

\* (mutant) only the direct children.
ChildrenOnly(s) == {s} \cup {c \in Sessions : Exists(c) /\ store[c].parent = s}

ClosedBelow(family) == \A c \in Sessions : Exists(c) /\ store[c].parent \in family => c \in family

\* SessionManager::delete takes the children first, and theirs, whether or not
\* the session itself is there: the least set with s that leaves no child out.
Descendants(s) ==
    {r \in Sessions :
        \A family \in SUBSET Sessions : s \in family /\ ClosedBelow(family) => r \in family}

DeleteSession(s) ==
    /\ s \in used
    /\ store' = [r \in Sessions |-> IF r \in Descendants(s) THEN Absent ELSE store[r]]
    /\ busy' = IF Exists(s) THEN busy \ {s} ELSE busy
    /\ deleted' = deleted \cup {r \in Sessions : Exists(r) /\ r \in Descendants(s)}
    /\ UNCHANGED <<used, changes, quiet>> /\ UNCHANGEDTasks

-----------------------------------------------------------------------------
(* POST /session/{id}/prompt.                                              *)

\* session_prompt looks whether the session exists and spawns the task.
SessionPrompt(t, s) ==
    /\ pc[t] = "idle"
    /\ Exists(s)
    /\ Within
    /\ spawned' = spawned + 1
    /\ pc' = [pc EXCEPT ![t] = "clone"]
    /\ sess' = [sess EXCEPT ![t] = s]
    /\ UNCHANGED <<store, used, busy, changes, copy, updates, deleted, quiet>>

\* (mutant) the task starts from a new session with the same id.
CloneSessionEmpty(t) ==
    /\ pc[t] = "clone"
    /\ IF Exists(sess[t])
       THEN /\ copy' = [copy EXCEPT ![t] = Fresh(store[sess[t]].parent)]
            /\ pc' = [pc EXCEPT ![t] = "setBusy"]
       ELSE /\ pc' = [pc EXCEPT ![t] = "idle"]
            /\ UNCHANGED copy
    /\ UNCHANGED <<store, used, busy, changes, spawned, sess, updates, deleted, quiet>>

\* The task clones the session, if it is still there.
CloneSession(t) ==
    /\ pc[t] = "clone"
    /\ IF Exists(sess[t])
       THEN /\ copy' = [copy EXCEPT ![t] = store[sess[t]]]
            /\ pc' = [pc EXCEPT ![t] = "setBusy"]
       ELSE /\ pc' = [pc EXCEPT ![t] = "idle"]
            /\ UNCHANGED copy
    /\ UNCHANGED <<store, used, busy, changes, spawned, sess, updates, deleted, quiet>>

\* set_session_run_status(Busy); the channel and the update task are made.
SetBusy(t) ==
    /\ pc[t] = "setBusy"
    /\ busy' = busy \cup {sess[t]}
    /\ pc' = [pc EXCEPT ![t] = "run"]
    /\ UNCHANGED <<store, used, changes, spawned, sess, copy, updates, deleted, quiet>>

\* The run changes its clone and the hook sends a snapshot of it.
RunEmits(t) ==
    /\ pc[t] = "run"
    /\ Within
    /\ changes' = changes + 1
    /\ copy' = [copy EXCEPT ![t].has = @ \cup {changes'}]
    /\ updates' = [updates EXCEPT ![t] = Append(@, copy'[t])]
    /\ UNCHANGED <<store, used, busy, spawned, pc, sess, deleted, quiet>>

\* The update task replaces the session by the next snapshot: insert, whether
\* or not the id is in the table.
ApplyUpdate(t) ==
    /\ updates[t] # <<>>
    /\ Insert(sess[t], Head(updates[t]))
    /\ updates' = [updates EXCEPT ![t] = Tail(@)]
    /\ UNCHANGED <<used, busy, changes, spawned, pc, sess, copy, deleted, quiet>>

\* (mutant) an error returns from the task.
RunEndsOrReturns(t) ==
    /\ pc[t] = "run"
    /\ \E next \in {"drain", "idle"} : pc' = [pc EXCEPT ![t] = next]
    /\ UNCHANGED <<store, used, busy, changes, spawned, copy, sess, updates, deleted, quiet>>

\* The run returns; when it failed, the clone gets one more message.
RunEnds(t) ==
    /\ pc[t] = "run"
    /\ pc' = [pc EXCEPT ![t] = "drain"]
    /\ \/ UNCHANGED <<copy, changes>>
       \/ /\ Within
          /\ changes' = changes + 1
          /\ copy' = [copy EXCEPT ![t].has = @ \cup {changes'}]
    /\ UNCHANGED <<store, used, busy, spawned, sess, updates, deleted, quiet>>

\* (mutant) the update task is detached.
FinalUpdateEarly(t) ==
    /\ pc[t] = "drain"
    /\ Insert(sess[t], copy[t])
    /\ pc' = [pc EXCEPT ![t] = "setIdle"]
    /\ copy' = [copy EXCEPT ![t] = Absent]
    /\ UNCHANGED <<used, busy, changes, spawned, sess, updates, deleted, quiet>>

\* update_task.await: the channel is closed and drained, then the clone
\* itself is written.
FinalUpdate(t) ==
    /\ pc[t] = "drain"
    /\ updates[t] = <<>>
    /\ Insert(sess[t], copy[t])
    /\ pc' = [pc EXCEPT ![t] = "setIdle"]
    /\ copy' = [copy EXCEPT ![t] = Absent]
    /\ UNCHANGED <<used, busy, changes, spawned, sess, updates, deleted, quiet>>

\* set_session_run_status(Idle) removes the entry, whoever made it.
SetIdle(t) ==
    /\ pc[t] = "setIdle"
    /\ busy' = busy \ {sess[t]}
    /\ pc' = [pc EXCEPT ![t] = "idle"]
    /\ UNCHANGED <<store, used, changes, spawned, sess, copy, updates, deleted, quiet>>

-----------------------------------------------------------------------------
(* POST /session/{id}/stream.                                              *)

\* stream_message adds the user message and a placeholder, then spawns.
StreamMessage(t, s) ==
    /\ pc[t] = "idle"
    /\ Exists(s)
    /\ Within
    /\ spawned' = spawned + 1
    /\ changes' = changes + 1
    /\ Insert(s, [store[s] EXCEPT !.has = @ \cup {changes'}])
    /\ quiet' = IF Holders(s) = {} THEN quiet \cup {<<s, changes'>>} ELSE quiet
    /\ pc' = [pc EXCEPT ![t] = "streaming"]
    /\ sess' = [sess EXCEPT ![t] = s]
    /\ UNCHANGED <<used, busy, copy, updates, deleted>>

\* (mutant) the task writes the session it knew back, as a prompt task does.
StreamWriteBackUpserts(t) ==
    /\ pc[t] = "streaming"
    /\ Within
    /\ changes' = changes + 1
    /\ pc' = [pc EXCEPT ![t] = "idle"]
    /\ Insert(sess[t], [Fresh(NoSession) EXCEPT !.has = store[sess[t]].has \cup {changes'}])
    /\ UNCHANGED <<used, busy, spawned, sess, copy, updates, deleted, quiet>>

\* When the stream is over the task looks the session up again.
StreamWriteBack(t) ==
    /\ pc[t] = "streaming"
    /\ pc' = [pc EXCEPT ![t] = "idle"]
    /\ LET s == sess[t] IN
       \/ /\ Exists(s)
          /\ Within
          /\ changes' = changes + 1
          /\ Insert(s, [store[s] EXCEPT !.has = @ \cup {changes'}])
          /\ quiet' = IF Holders(s) = {} THEN quiet \cup {<<s, changes'>>} ELSE quiet
       \/ \* the session is gone, or nothing came
          UNCHANGED <<store, changes, quiet>>
    /\ UNCHANGED <<used, busy, spawned, sess, copy, updates, deleted>>

-----------------------------------------------------------------------------
PromptStep(t) == CloneSession(t) \/ SetBusy(t) \/ ApplyUpdate(t)
                 \/ RunEnds(t) \/ FinalUpdate(t) \/ SetIdle(t)

Next ==
    \/ \E s \in Sessions :
          \/ CreateSession(s) \/ ChangeSession(s) \/ DeleteSession(s)
          \/ \E from \in Sessions : ForkSession(s, from)
          \/ \E t \in Prompts : SessionPrompt(t, s)
          \/ \E t \in Streams : StreamMessage(t, s)
    \/ \E t \in Prompts : RunEmits(t) \/ PromptStep(t)
    \/ \E t \in Streams : StreamWriteBack(t)

Spec == Init /\ [][Next]_vars

\* Spawned tasks go on, and a run comes back (PromptLoop, RunReturns).
Fairness == \A t \in Prompts : WF_vars(PromptStep(t))
FairSpec == Spec /\ Fairness

-----------------------------------------------------------------------------
TypeOK ==
    /\ store \in [Sessions -> Record \cup {Absent}]
    /\ used \subseteq Sessions
    /\ busy \subseteq Sessions
    /\ changes \in Nat
    /\ spawned \in Nat
    /\ pc \in [Tasks -> PromptPC \cup {"streaming"}]
    /\ sess \in [Tasks -> Sessions \cup {NoSession}]
    /\ copy \in [Prompts -> Record \cup {Absent}]
    /\ updates \in [Prompts -> Seq(Record)]
    /\ deleted \subseteq used
    /\ \A s \in Sessions : Exists(s) => s \in used

\* A change that a handler acknowledged while no prompt task held a clone of
\* the session is never lost, whatever prompts, deletes and streams follow:
\* every later clone contains it.
QuietChangesSurvive ==
    \A s \in Sessions : Exists(s) =>
        \A c \in 1..changes : <<s, c>> \in quiet => c \in store[s].has

\* A session is only reported busy while a task will still set it idle.
BusyHasATask ==
    \A s \in busy : \E t \in Prompts :
        sess[t] = s /\ pc[t] \in {"run", "drain", "setIdle"}

\* When a prompt task has written its final state no older snapshot of its
\* run can still arrive and undo it.
NoSnapshotOutlivesItsRun ==
    \A t \in Prompts : pc[t] \in {"setIdle", "idle"} => updates[t] = <<>>

\* Deleting takes the whole tree below a session: a child without its parent
\* is one that was deleted itself and that a prompt task wrote back.
OrphansWereDeleted ==
    \A s \in Sessions : Exists(s) /\ store[s].parent # NoSession =>
        Exists(store[s].parent) \/ s \in deleted

\* A busy session becomes idle again.
BusyEnds == \A s \in Sessions : s \in busy ~> s \notin busy

\* Only the final and streamed snapshots of a prompt put a session back that
\* is not in the table; the handlers and the stream's late write never do.
OnlyPromptsReinsert ==
    [][\A s \in used :
          ~Exists(s) /\ Exists(s)' =>
              \E t \in Prompts : sess[t] = s /\ (updates'[t] # updates[t] \/ pc'[t] # pc[t])]_vars

-----------------------------------------------------------------------------
\* Refuted by the code (see the findings in README.md).

\* SessionManager::delete: "Delete a session and all its children": a deleted
\* session is gone.
DeletedStaysDeleted == \A s \in deleted : ~Exists(s)
=============================================================================
