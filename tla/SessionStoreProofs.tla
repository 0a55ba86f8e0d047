------------------------- MODULE SessionStoreProofs -------------------------
(***************************************************************************)
(* SessionStore for any sessions and tasks.  A prompt task holds a clone   *)
(* while it is in setBusy, run or drain (Held), its channel is empty but   *)
(* in run and drain, and whatever it holds or has sent contains every      *)
(* change that was made while nobody held a clone (Keeps).  That deletes take *)
(* whole trees needs to know that all copies of a session name one parent  *)
(* (Family), which no task can see: a copy may come back after its tree.   *)
(***************************************************************************)
EXTENDS SessionStore, TLAPS

Holds(t) == pc[t] \in {"setBusy", "run", "drain"}

\* Where a task may be, and what it has then.
Held(t) ==
    /\ pc[t] \in PromptPC
    /\ pc[t] # "idle" => sess[t] \in used
    /\ Holds(t) => copy[t] \in Record
    /\ pc[t] \notin {"run", "drain"} => updates[t] = <<>>

Streaming(t) ==
    /\ pc[t] \in {"idle", "streaming"}
    /\ pc[t] # "idle" => sess[t] \in used

\* Change c of session s is wherever s is.
Keeps(s, c) ==
    /\ s \in used
    /\ Exists(s) => c \in store[s].has
    /\ \A t \in Prompts : sess[t] = s /\ Holds(t) =>
          /\ c \in copy[t].has
          /\ \A k \in 1 .. Len(updates[t]) : c \in updates[t][k].has

IInv ==
    /\ TypeOK
    /\ \A t \in Prompts : Held(t)
    /\ \A t \in Streams : Streaming(t)
    /\ BusyHasATask
    /\ quiet \subseteq Sessions \X Nat
    /\ \A s \in Sessions, c \in Nat : <<s, c>> \in quiet => Keeps(s, c)

-----------------------------------------------------------------------------
LEMMA Records ==
  /\ Absent \notin Record
  /\ \A p \in Sessions \cup {NoSession} : Fresh(p) \in Record
  /\ \A r \in Record, has \in SUBSET Nat : [r EXCEPT !.has = has] \in Record /\ [r EXCEPT !.has = has].has = has
<1>1. \A r \in Record : DOMAIN r = {"parent", "has"}
  BY DEF Record
<1>2. DOMAIN Absent = {"parent", "has", "absent"}
  BY DEF Absent
<1>3. Absent \notin Record
  BY <1>1, <1>2
<1> QED
  BY <1>3 DEF Record, Fresh

LEMMA Stored == ASSUME TypeOK, NEW s \in Sessions, Exists(s) PROVE store[s] \in Record /\ s \in used
BY DEF TypeOK, Exists

\* A handler that is done at once: no prompt task moves, what is stored only
\* grows, and a change is only quiet when nobody holds a clone.
LEMMA HandlerKeeps ==
  ASSUME IInv, TypeOK', UNCHANGED <<copy, updates>>,
         \A t \in Prompts : pc'[t] = pc[t] /\ sess'[t] = sess[t],
         \A t \in Streams : Streaming(t)',
         used \subseteq used', busy' \subseteq busy, quiet' \subseteq Sessions \X Nat,
         \A s \in used : Exists(s)' => Exists(s) /\ store[s].has \subseteq store'[s].has,
         \A s \in Sessions, c \in Nat : <<s, c>> \in quiet' \ quiet =>
             s \in used' /\ c \in store'[s].has /\ Holders(s) = {}
  PROVE  IInv'
<1>1. \A t \in Prompts : Held(t)'
  BY DEF IInv, Held, Holds
<1>2. BusyHasATask'
  BY DEF IInv, BusyHasATask
<1>3. ASSUME NEW s \in Sessions, NEW c \in Nat, <<s, c>> \in quiet' PROVE Keeps(s, c)'
  <2>1. CASE <<s, c>> \in quiet
    <3>1. Keeps(s, c)
      BY <2>1 DEF IInv
    <3> QED
      BY <3>1 DEF Keeps, Holds
  <2>2. CASE <<s, c>> \notin quiet
    <3>1. s \in used' /\ c \in store'[s].has /\ Holders(s) = {}
      BY <1>3, <2>2
    <3>2. \A t \in Prompts : ~(sess'[t] = s /\ Holds(t)')
      BY <3>1 DEF Holders, Holds
    <3> QED
      BY <3>1, <3>2 DEF Keeps
  <2> QED
    BY <2>1, <2>2
<1> QED
  BY <1>1, <1>2, <1>3 DEF IInv

LEMMA CreateKeeps ==
  ASSUME IInv, NEW s \in Sessions, CreateSession(s) \/ \E from \in Sessions : ForkSession(s, from) PROVE IInv'
<1>1. s \notin used /\ used' = used \cup {s} /\ UNCHANGED <<busy, changes, deleted, quiet, spawned, pc, sess, copy, updates>>
  BY DEF CreateSession, ForkSession, UNCHANGEDTasks
<1>2. PICK r \in Record : store' = [store EXCEPT ![s] = r]
  <2>1. CASE CreateSession(s)
    BY <2>1, Records DEF CreateSession, Insert
  <2>2. ASSUME NEW from \in Sessions, ForkSession(s, from) PROVE \E r \in Record : store' = [store EXCEPT ![s] = r]
    <3>1. Exists(from)
      BY <2>2 DEF ForkSession
    <3>2. store[from].has \in SUBSET Nat
      BY <3>1, Stored DEF IInv, Record
    <3>3. \A kept \in {{}, store[from].has} : [Fresh(NoSession) EXCEPT !.has = kept] \in Record
      BY <3>2, Records
    <3> QED
      BY <2>2, <3>3 DEF ForkSession, Insert
  <2> QED
    BY <2>1, <2>2
<1>3. TypeOK'
  BY <1>1, <1>2 DEF IInv, TypeOK, Exists
<1>4. \A q \in used : store'[q] = store[q]
  BY <1>1, <1>2 DEF IInv, TypeOK
<1>5. \A t \in Streams : Streaming(t)'
  BY <1>1 DEF IInv, Streaming
<1> QED
  BY <1>1, <1>3, <1>4, <1>5, HandlerKeeps DEF IInv, Exists

LEMMA ChangeKeeps == ASSUME IInv, NEW s \in Sessions, ChangeSession(s) PROVE IInv'
<1>1. /\ Exists(s) /\ changes' = changes + 1 /\ store' = [store EXCEPT ![s] = [store[s] EXCEPT !.has = store[s].has \cup {changes'}]]
      /\ quiet' = (IF Holders(s) = {} THEN quiet \cup {<<s, changes'>>} ELSE quiet)
      /\ UNCHANGED <<used, busy, deleted, spawned, pc, sess, copy, updates>>
  BY DEF ChangeSession, Insert, UNCHANGEDTasks
<1>2. store[s] \in Record /\ s \in used /\ changes' \in Nat
  BY <1>1, Stored DEF IInv, TypeOK
<1>3. store'[s] \in Record /\ store'[s].has = store[s].has \cup {changes'} /\ \A q \in Sessions \ {s} : store'[q] = store[q]
  <2>1. store[s].has \cup {changes'} \in SUBSET Nat
    BY <1>2 DEF Record
  <2> QED
    BY <1>1, <1>2, <2>1, Records DEF IInv, TypeOK
<1>4. TypeOK'
  BY <1>1, <1>2, <1>3 DEF IInv, TypeOK, Exists
<1>5. \A t \in Streams : Streaming(t)'
  BY <1>1 DEF IInv, Streaming
<1>6. quiet' \subseteq Sessions \X Nat /\ \A q \in Sessions, c \in Nat :
         <<q, c>> \in quiet' \ quiet => q = s /\ c = changes' /\ Holders(s) = {}
  BY <1>1, <1>2 DEF IInv
<1>7. \A q \in used : Exists(q)' => Exists(q) /\ store[q].has \subseteq store'[q].has
  BY <1>1, <1>3 DEF IInv, TypeOK, Exists
<1> QED
  BY <1>1, <1>2, <1>3, <1>4, <1>5, <1>6, <1>7, HandlerKeeps

LEMMA DeleteKeeps == ASSUME IInv, NEW s \in Sessions, DeleteSession(s) PROVE IInv'
<1>1. /\ \A q \in Sessions : store'[q] = Absent \/ store'[q] = store[q]
      /\ UNCHANGED <<used, changes, quiet, spawned, pc, sess, copy, updates>>
      /\ busy' \subseteq busy
  BY DEF DeleteSession, UNCHANGEDTasks
<1>2. TypeOK'
  <2>1. store' \in [Sessions -> Record \cup {Absent}] /\ deleted' \subseteq used
    BY DEF DeleteSession, IInv, TypeOK
  <2> QED
    BY <1>1, <2>1 DEF IInv, TypeOK, Exists
<1>3. \A t \in Streams : Streaming(t)'
  BY <1>1 DEF IInv, Streaming
<1>4. \A q \in used : Exists(q)' => Exists(q) /\ store[q].has \subseteq store'[q].has
  BY <1>1 DEF IInv, TypeOK, Exists
<1> QED
  BY <1>1, <1>2, <1>3, <1>4, HandlerKeeps DEF IInv

LEMMA StreamKeeps == ASSUME IInv, NEW s \in Sessions, NEW t \in Streams, StreamMessage(t, s) PROVE IInv'
<1>1. /\ Exists(s) /\ changes' = changes + 1 /\ store' = [store EXCEPT ![s] = [store[s] EXCEPT !.has = store[s].has \cup {changes'}]]
      /\ quiet' = (IF Holders(s) = {} THEN quiet \cup {<<s, changes'>>} ELSE quiet)
      /\ pc' = [pc EXCEPT ![t] = "streaming"] /\ sess' = [sess EXCEPT ![t] = s] /\ spawned' = spawned + 1
      /\ UNCHANGED <<used, busy, deleted, copy, updates>>
  BY DEF StreamMessage, Insert
<1>2. store[s] \in Record /\ s \in used /\ changes' \in Nat
  BY <1>1, Stored DEF IInv, TypeOK
<1>3. store'[s] \in Record /\ store'[s].has = store[s].has \cup {changes'} /\ \A q \in Sessions \ {s} : store'[q] = store[q]
  <2>1. store[s].has \cup {changes'} \in SUBSET Nat
    BY <1>2 DEF Record
  <2> QED
    BY <1>1, <1>2, <2>1, Records DEF IInv, TypeOK
<1>4. TypeOK'
  BY <1>1, <1>2, <1>3 DEF IInv, TypeOK, Exists, Tasks
<1>5. \A q \in Streams : Streaming(q)'
  BY <1>1, <1>2 DEF IInv, Streaming, TypeOK, Tasks
<1>6. quiet' \subseteq Sessions \X Nat /\ \A q \in Sessions, c \in Nat :
         <<q, c>> \in quiet' \ quiet => q = s /\ c = changes' /\ Holders(s) = {}
  BY <1>1, <1>2 DEF IInv
<1>7. \A q \in used : Exists(q)' => Exists(q) /\ store[q].has \subseteq store'[q].has
  BY <1>1, <1>3 DEF IInv, TypeOK, Exists
<1>8. \A q \in Prompts : pc'[q] = pc[q] /\ sess'[q] = sess[q]
  BY <1>1, TasksAssumption DEF IInv, TypeOK, Tasks
<1> QED
  BY <1>1, <1>2, <1>3, <1>4, <1>5, <1>6, <1>7, <1>8, HandlerKeeps

LEMMA WriteBackKeeps == ASSUME IInv, NEW t \in Streams, StreamWriteBack(t) PROVE IInv'
<1> DEFINE s == sess[t]
<1>1. /\ pc[t] = "streaming" /\ pc' = [pc EXCEPT ![t] = "idle"] /\ s \in used /\ s \in Sessions
      /\ UNCHANGED <<used, busy, spawned, sess, copy, updates, deleted>>
  BY DEF StreamWriteBack, IInv, Streaming, TypeOK
<1>2. \A q \in Prompts : pc'[q] = pc[q] /\ sess'[q] = sess[q]
  BY <1>1, TasksAssumption DEF IInv, TypeOK, Tasks
<1>3. \A q \in Streams : Streaming(q)'
  BY <1>1 DEF IInv, Streaming, TypeOK, Tasks
<1>4. CASE UNCHANGED <<store, changes, quiet>>
  <2>1. TypeOK'
    BY <1>1, <1>4 DEF IInv, TypeOK, Exists, Tasks, PromptPC
  <2> QED
    BY <1>1, <1>2, <1>3, <1>4, <2>1, HandlerKeeps DEF IInv, Exists
<1>5. CASE /\ Exists(s) /\ changes' = changes + 1
           /\ store' = [store EXCEPT ![s] = [store[s] EXCEPT !.has = store[s].has \cup {changes'}]]
           /\ quiet' = (IF Holders(s) = {} THEN quiet \cup {<<s, changes'>>} ELSE quiet)
  <2>1. store[s] \in Record /\ changes' \in Nat
    BY <1>1, <1>5, Stored DEF IInv, TypeOK
  <2>2. store'[s] \in Record /\ store'[s].has = store[s].has \cup {changes'} /\ \A q \in Sessions \ {s} : store'[q] = store[q]
    <3>1. store[s].has \cup {changes'} \in SUBSET Nat
      BY <2>1 DEF Record
    <3> QED
      BY <1>1, <1>5, <2>1, <3>1, Records DEF IInv, TypeOK
  <2>3. TypeOK'
    BY <1>1, <1>5, <2>1, <2>2 DEF IInv, TypeOK, Exists, Tasks, PromptPC
  <2>4. quiet' \subseteq Sessions \X Nat /\ \A q \in Sessions, c \in Nat :
           <<q, c>> \in quiet' \ quiet => q = s /\ c = changes' /\ Holders(s) = {}
    BY <1>1, <1>5, <2>1 DEF IInv
  <2>5. \A q \in used : Exists(q)' => Exists(q) /\ store[q].has \subseteq store'[q].has
    BY <1>1, <1>5, <2>2 DEF IInv, TypeOK, Exists
  <2> QED
    BY <1>1, <1>2, <1>3, <2>1, <2>2, <2>3, <2>4, <2>5, HandlerKeeps
<1> QED
  BY <1>4, <1>5 DEF StreamWriteBack, Insert

-----------------------------------------------------------------------------
\* A step of one prompt task: the others stay, and no change is made in place.
Others(t) ==
    /\ \A d \in Tasks \ {t} : pc'[d] = pc[d] /\ sess'[d] = sess[d]
    /\ \A d \in Prompts \ {t} : copy'[d] = copy[d] /\ updates'[d] = updates[d]

LEMMA PromptKeeps ==
  ASSUME IInv, TypeOK', NEW t \in Prompts, Others(t), UNCHANGED <<used, quiet>>, Held(t)', BusyHasATask',
         \A s \in Sessions, c \in Nat : Keeps(s, c) =>
            /\ Exists(s)' => c \in store'[s].has
            /\ sess'[t] = s /\ Holds(t)' =>
                  /\ c \in copy'[t].has
                  /\ \A k \in 1 .. Len(updates'[t]) : c \in updates'[t][k].has
  PROVE  IInv'
<1>1. \A d \in Prompts : Held(d)'
  <2>1. ASSUME NEW d \in Prompts \ {t} PROVE Held(d)'
    <3>1. d \in Tasks \ {t} /\ Held(d)
      BY DEF Tasks, IInv
    <3> QED
      BY <3>1 DEF Others, Held, Holds
  <2> QED
    BY <2>1
<1>2. \A d \in Streams : Streaming(d)'
  <2>1. \A d \in Streams : d \in Tasks \ {t}
    BY TasksAssumption DEF Tasks
  <2> QED
    BY <2>1 DEF Others, IInv, Streaming
<1>3. ASSUME NEW s \in Sessions, NEW c \in Nat, <<s, c>> \in quiet' PROVE Keeps(s, c)'
  <2>1. Keeps(s, c)
    BY <1>3 DEF IInv
  <2>2. ASSUME NEW d \in Prompts \ {t}, sess'[d] = s, Holds(d)'
        PROVE  c \in copy'[d].has /\ \A k \in 1 .. Len(updates'[d]) : c \in updates'[d][k].has
    <3>1. d \in Tasks \ {t}
      BY DEF Tasks
    <3> QED
      BY <2>1, <2>2, <3>1 DEF Others, Keeps, Holds
  <2> QED
    BY <2>1, <2>2 DEF Keeps
<1> QED
  BY <1>1, <1>2, <1>3 DEF IInv

\* Tasks stay busy when the table of busy sessions and the task's place in it stay.
LEMMA BusyStays ==
  ASSUME IInv, NEW t \in Prompts, Others(t), busy' = busy,
         pc[t] \in {"run", "drain", "setIdle"} => pc'[t] \in {"run", "drain", "setIdle"} /\ sess'[t] = sess[t]
  PROVE  BusyHasATask'
<1> SUFFICES ASSUME NEW s \in busy
             PROVE  \E d \in Prompts : sess'[d] = s /\ pc'[d] \in {"run", "drain", "setIdle"}
  BY DEF BusyHasATask
<1>1. PICK d \in Prompts : sess[d] = s /\ pc[d] \in {"run", "drain", "setIdle"}
  BY DEF IInv, BusyHasATask
<1>2. CASE d = t
  BY <1>1, <1>2
<1>3. CASE d # t
  BY <1>1, <1>3 DEF Others, Tasks
<1> QED
  BY <1>2, <1>3

LEMMA PromptStarts == ASSUME IInv, NEW t \in Prompts, NEW s \in Sessions, SessionPrompt(t, s) PROVE IInv'
<1>1. TypeOK' /\ Others(t)
  BY DEF SessionPrompt, IInv, TypeOK, Others, Tasks, PromptPC, Exists
<1>2. pc[t] = "idle" /\ pc'[t] = "clone" /\ sess'[t] = s /\ UNCHANGED <<store, used, busy, quiet, copy, updates>>
  BY DEF SessionPrompt, IInv, TypeOK, Tasks
<1>3. s \in used
  BY Stored DEF SessionPrompt, IInv
<1>4. Held(t)'
  BY <1>2, <1>3 DEF IInv, Held, Holds, PromptPC
<1> QED
  BY <1>1, <1>2, <1>4, BusyStays, PromptKeeps DEF Keeps, Holds, Exists

LEMMA CloneKeeps == ASSUME IInv, NEW t \in Prompts, CloneSession(t) PROVE IInv'
<1>1. /\ pc[t] = "clone" /\ sess[t] \in used /\ sess[t] \in Sessions /\ updates[t] = <<>>
      /\ UNCHANGED <<store, used, busy, changes, spawned, sess, updates, deleted, quiet>>
  BY DEF CloneSession, IInv, Held, TypeOK
<1>2. CASE Exists(sess[t])
  <2>1. store[sess[t]] \in Record /\ copy' = [copy EXCEPT ![t] = store[sess[t]]] /\ pc' = [pc EXCEPT ![t] = "setBusy"]
    BY <1>1, <1>2, Stored DEF CloneSession, IInv
  <2>2. TypeOK' /\ Others(t)
    BY <1>1, <2>1 DEF IInv, TypeOK, Others, Tasks, PromptPC, Exists
  <2>3. pc'[t] = "setBusy" /\ copy'[t] = store[sess[t]]
    BY <2>1 DEF IInv, TypeOK, Tasks
  <2>4. Held(t)'
    BY <1>1, <2>1, <2>3 DEF Held, Holds, PromptPC
  <2> QED
    BY <1>1, <1>2, <2>2, <2>3, <2>4, BusyStays, PromptKeeps DEF Keeps, Holds, Exists
<1>3. CASE ~Exists(sess[t])
  <2>1. copy' = copy /\ pc' = [pc EXCEPT ![t] = "idle"]
    BY <1>3 DEF CloneSession
  <2>2. TypeOK' /\ Others(t)
    BY <1>1, <2>1 DEF IInv, TypeOK, Others, Tasks, PromptPC, Exists
  <2>3. pc'[t] = "idle"
    BY <2>1 DEF IInv, TypeOK, Tasks
  <2>4. Held(t)'
    BY <1>1, <2>3 DEF Held, Holds, PromptPC
  <2> QED
    BY <1>1, <2>1, <2>2, <2>3, <2>4, BusyStays, PromptKeeps DEF Keeps, Holds, Exists
<1> QED
  BY <1>2, <1>3

LEMMA SetBusyKeeps == ASSUME IInv, NEW t \in Prompts, SetBusy(t) PROVE IInv'
<1>1. /\ pc[t] = "setBusy" /\ pc' = [pc EXCEPT ![t] = "run"] /\ pc'[t] = "run" /\ sess[t] \in used /\ Held(t)
      /\ busy' = busy \cup {sess[t]}
      /\ UNCHANGED <<store, used, changes, spawned, sess, copy, updates, deleted, quiet>>
  BY DEF SetBusy, IInv, Held, TypeOK, Tasks
<1>2. TypeOK' /\ Others(t)
  BY <1>1 DEF IInv, TypeOK, Others, Tasks, PromptPC, Exists
<1>3. Held(t)'
  BY <1>1 DEF Held, Holds, PromptPC
<1>4. BusyHasATask'
  <2> SUFFICES ASSUME NEW s \in busy, s # sess[t]
               PROVE  \E d \in Prompts : sess'[d] = s /\ pc'[d] \in {"run", "drain", "setIdle"}
    BY <1>1 DEF BusyHasATask
  <2>1. PICK d \in Prompts : sess[d] = s /\ pc[d] \in {"run", "drain", "setIdle"}
    BY DEF IInv, BusyHasATask
  <2> QED
    BY <1>1, <1>2, <2>1 DEF Others, Tasks
<1> QED
  BY <1>1, <1>2, <1>3, <1>4, PromptKeeps DEF Keeps, Holds, Exists

LEMMA EmitsKeeps == ASSUME IInv, NEW t \in Prompts, RunEmits(t) PROVE IInv'
<1>1. /\ pc[t] = "run" /\ Held(t) /\ copy[t] \in Record /\ changes' = changes + 1 /\ changes' \in Nat
      /\ copy' = [copy EXCEPT ![t] = [copy[t] EXCEPT !.has = copy[t].has \cup {changes'}]]
      /\ updates' = [updates EXCEPT ![t] = Append(updates[t], copy'[t])]
      /\ updates[t] \in Seq(Record)
      /\ UNCHANGED <<store, used, busy, spawned, pc, sess, deleted, quiet>>
  BY DEF RunEmits, IInv, Held, Holds, TypeOK
<1>2. copy'[t] \in Record /\ copy'[t].has = copy[t].has \cup {changes'}
  <2>1. copy[t].has \cup {changes'} \in SUBSET Nat
    BY <1>1 DEF Record
  <2> QED
    BY <1>1, <2>1, Records DEF IInv, TypeOK
<1>3. TypeOK' /\ Others(t)
  BY <1>1, <1>2 DEF IInv, TypeOK, Others, Exists
<1>4. Held(t)'
  BY <1>1, <1>2 DEF Held, Holds
<1>5. /\ Len(updates'[t]) = Len(updates[t]) + 1 /\ Len(updates[t]) \in Nat
      /\ \A k \in 1 .. Len(updates[t]) : updates'[t][k] = updates[t][k]
      /\ updates'[t][Len(updates[t]) + 1] = copy'[t]
  BY <1>1, <1>2 DEF IInv, TypeOK
<1>6. \A k \in 1 .. Len(updates'[t]) : k \in 1 .. Len(updates[t]) \/ k = Len(updates[t]) + 1
  BY <1>5
<1>7. \A c \in Nat : c \in copy[t].has /\ (\A k \in 1 .. Len(updates[t]) : c \in updates[t][k].has)
         => c \in copy'[t].has /\ \A k \in 1 .. Len(updates'[t]) : c \in updates'[t][k].has
  BY <1>2, <1>5, <1>6
<1> QED
  BY <1>1, <1>3, <1>4, <1>7, BusyStays, PromptKeeps DEF Keeps, Holds, Exists

LEMMA ApplyKeeps == ASSUME IInv, NEW t \in Prompts, ApplyUpdate(t) PROVE IInv'
<1>1. /\ updates[t] # <<>> /\ pc[t] \in {"run", "drain"} /\ Held(t) /\ sess[t] \in used /\ sess[t] \in Sessions
      /\ updates[t] \in Seq(Record) /\ store' = [store EXCEPT ![sess[t]] = Head(updates[t])]
      /\ updates' = [updates EXCEPT ![t] = Tail(updates[t])]
      /\ UNCHANGED <<used, busy, changes, spawned, pc, sess, copy, deleted, quiet>>
  BY DEF ApplyUpdate, Insert, IInv, Held, Holds, TypeOK, PromptPC
<1>2. /\ Head(updates[t]) = updates[t][1] /\ 1 \in 1 .. Len(updates[t]) /\ updates[t][1] \in Record
      /\ Tail(updates[t]) \in Seq(Record) /\ Len(Tail(updates[t])) = Len(updates[t]) - 1
      /\ \A k \in 1 .. Len(updates[t]) - 1 : Tail(updates[t])[k] = updates[t][k + 1] /\ k + 1 \in 1 .. Len(updates[t])
  <2>1. updates[t] \in Seq(Record) /\ updates[t] # <<>>
    BY <1>1
  <2> QED
    BY <2>1
<1>3. /\ updates'[t] = Tail(updates[t]) /\ store'[sess[t]] = updates[t][1]
      /\ \A s \in Sessions \ {sess[t]} : store'[s] = store[s]
  BY <1>1, <1>2 DEF IInv, TypeOK
<1>4. TypeOK' /\ Others(t)
  BY <1>1, <1>2 DEF IInv, TypeOK, Others, Exists
<1>5. Held(t)'
  BY <1>1 DEF Held, Holds
<1>6. ASSUME NEW s \in Sessions, NEW c \in Nat, Keeps(s, c)
      PROVE  /\ Exists(s)' => c \in store'[s].has
             /\ sess'[t] = s /\ Holds(t)' =>
                   c \in copy'[t].has /\ \A k \in 1 .. Len(updates'[t]) : c \in updates'[t][k].has
  <2>1. CASE s = sess[t]
    <3>1. c \in copy[t].has /\ \A k \in 1 .. Len(updates[t]) : c \in updates[t][k].has
      BY <1>1, <1>6, <2>1 DEF Keeps, Holds
    <3> QED
      BY <1>1, <1>2, <1>3, <2>1, <3>1
  <2>2. CASE s # sess[t]
    BY <1>1, <1>3, <1>6, <2>2 DEF Keeps, Exists
  <2> QED
    BY <2>1, <2>2
<1> QED
  BY <1>1, <1>4, <1>5, <1>6, BusyStays, PromptKeeps

LEMMA EndsKeeps == ASSUME IInv, NEW t \in Prompts, RunEnds(t) PROVE IInv'
<1>1. /\ pc[t] = "run" /\ pc' = [pc EXCEPT ![t] = "drain"] /\ pc'[t] = "drain" /\ Held(t) /\ copy[t] \in Record
      /\ UNCHANGED <<store, used, busy, spawned, sess, updates, deleted, quiet>>
  BY DEF RunEnds, IInv, Held, Holds, TypeOK, Tasks
<1>2. /\ changes' \in Nat /\ copy' \in [Prompts -> Record \cup {Absent}] /\ copy'[t] \in Record
      /\ copy[t].has \subseteq copy'[t].has /\ \A d \in Prompts \ {t} : copy'[d] = copy[d]
  <2>1. CASE UNCHANGED <<copy, changes>>
    BY <1>1, <2>1 DEF IInv, TypeOK
  <2>2. CASE changes' = changes + 1 /\ copy' = [copy EXCEPT ![t] = [copy[t] EXCEPT !.has = copy[t].has \cup {changes'}]]
    <3> DEFINE new == [copy[t] EXCEPT !.has = copy[t].has \cup {changes'}]
    <3>1. changes' \in Nat /\ copy[t].has \cup {changes'} \in SUBSET Nat
      BY <1>1, <2>2 DEF Record, IInv, TypeOK
    <3>2. new \in Record /\ new.has = copy[t].has \cup {changes'}
      BY <1>1, <3>1, Records
    <3>3. copy' = [copy EXCEPT ![t] = new] /\ copy \in [Prompts -> Record \cup {Absent}]
      BY <2>2 DEF IInv, TypeOK
    <3> HIDE DEF new
    <3> QED
      BY <3>1, <3>2, <3>3
  <2> QED
    BY <2>1, <2>2 DEF RunEnds
<1>3. TypeOK' /\ Others(t)
  BY <1>1, <1>2 DEF IInv, TypeOK, Others, Tasks, PromptPC, Exists
<1>4. Held(t)'
  BY <1>1, <1>2 DEF Held, Holds, PromptPC
<1> QED
  BY <1>1, <1>2, <1>3, <1>4, BusyStays, PromptKeeps DEF Keeps, Holds, Exists

LEMMA FinalKeeps == ASSUME IInv, NEW t \in Prompts, FinalUpdate(t) PROVE IInv'
<1>1. /\ pc[t] = "drain" /\ updates[t] = <<>> /\ Held(t) /\ copy[t] \in Record /\ sess[t] \in used /\ sess[t] \in Sessions
      /\ pc' = [pc EXCEPT ![t] = "setIdle"] /\ pc'[t] = "setIdle"
      /\ store' = [store EXCEPT ![sess[t]] = copy[t]] /\ copy' = [copy EXCEPT ![t] = Absent]
      /\ UNCHANGED <<used, busy, changes, spawned, sess, updates, deleted, quiet>>
  BY DEF FinalUpdate, Insert, IInv, Held, Holds, TypeOK, Tasks
<1>2. TypeOK' /\ Others(t)
  BY <1>1 DEF IInv, TypeOK, Others, Tasks, PromptPC, Exists
<1>3. Held(t)'
  BY <1>1 DEF Held, Holds, PromptPC
<1>4. ASSUME NEW s \in Sessions, NEW c \in Nat, Keeps(s, c) PROVE Exists(s)' => c \in store'[s].has
  <2>1. CASE s = sess[t]
    BY <1>1, <1>4, <2>1 DEF Keeps, Holds, IInv, TypeOK
  <2>2. CASE s # sess[t]
    BY <1>1, <1>4, <2>2 DEF Keeps, Exists, IInv, TypeOK
  <2> QED
    BY <2>1, <2>2
<1> QED
  BY <1>1, <1>2, <1>3, <1>4, BusyStays, PromptKeeps DEF Holds

LEMMA SetIdleKeeps == ASSUME IInv, NEW t \in Prompts, SetIdle(t) PROVE IInv'
<1>1. /\ pc[t] = "setIdle" /\ pc' = [pc EXCEPT ![t] = "idle"] /\ pc'[t] = "idle" /\ Held(t)
      /\ busy' = busy \ {sess[t]}
      /\ UNCHANGED <<store, used, changes, spawned, sess, copy, updates, deleted, quiet>>
  BY DEF SetIdle, IInv, TypeOK, Tasks
<1>2. TypeOK' /\ Others(t)
  BY <1>1 DEF IInv, TypeOK, Others, Tasks, PromptPC, Exists
<1>3. Held(t)'
  BY <1>1 DEF Held, Holds, PromptPC
<1>4. BusyHasATask'
  BY <1>1, <1>2 DEF BusyHasATask, IInv, Others, Tasks
<1> QED
  BY <1>1, <1>2, <1>3, <1>4, PromptKeeps DEF Keeps, Holds, Exists

-----------------------------------------------------------------------------
LEMMA Initial == Init => IInv
<1> SUFFICES ASSUME Init PROVE IInv
  OBVIOUS
<1>1. TypeOK
  <2>1. <<>> \in Seq(Record)
    OBVIOUS
  <2> QED
    BY <2>1 DEF Init, TypeOK, PromptPC, Exists, Tasks
<1>2. \A t \in Prompts : Held(t)
  BY DEF Init, Held, Holds, PromptPC, Tasks
<1>3. \A t \in Streams : Streaming(t)
  BY DEF Init, Streaming, Tasks
<1> QED
  BY <1>1, <1>2, <1>3 DEF Init, IInv, BusyHasATask

LEMMA Inductive == IInv /\ [Next]_vars => IInv'
<1> SUFFICES ASSUME IInv, [Next]_vars PROVE IInv'
  OBVIOUS
<1>1. CASE UNCHANGED vars
  BY <1>1 DEF vars, IInv, TypeOK, Held, Holds, Streaming, BusyHasATask, Keeps, Exists
<1>2. ASSUME NEW s \in Sessions,
             \/ CreateSession(s) \/ ChangeSession(s) \/ DeleteSession(s)
             \/ \E from \in Sessions : ForkSession(s, from)
             \/ \E t \in Prompts : SessionPrompt(t, s)
             \/ \E t \in Streams : StreamMessage(t, s)
      PROVE  IInv'
  BY <1>2, CreateKeeps, ChangeKeeps, DeleteKeeps, PromptStarts, StreamKeeps
<1>3. ASSUME NEW t \in Prompts, RunEmits(t) \/ PromptStep(t) PROVE IInv'
  BY <1>3, EmitsKeeps, CloneKeeps, SetBusyKeeps, ApplyKeeps, EndsKeeps, FinalKeeps, SetIdleKeeps DEF PromptStep
<1> QED
  BY <1>1, <1>2, <1>3, WriteBackKeeps DEF Next

LEMMA Invariant == Spec => []IInv
BY Initial, Inductive, PTL DEF Spec

\* For any sessions and tasks every variable keeps its type, and a session in
\* the table, or deleted, has an id that was handed out.
THEOREM TypeCorrect == Spec => []TypeOK
<1>1. IInv => TypeOK
  BY DEF IInv
<1> QED
  BY Invariant, <1>1, PTL

\* However many prompts, streams and deletes overlap, a change made while no
\* prompt task held a clone of the session is never lost.
THEOREM QuietChangesStay == Spec => []QuietChangesSurvive
<1>1. IInv => QuietChangesSurvive
  <2> SUFFICES ASSUME IInv, NEW s \in Sessions, Exists(s), NEW c \in 1 .. changes, <<s, c>> \in quiet
               PROVE  c \in store[s].has
    BY DEF QuietChangesSurvive
  <2>1. c \in Nat
    BY DEF IInv, TypeOK
  <2> QED
    BY <2>1 DEF IInv, Keeps
<1> QED
  BY Invariant, <1>1, PTL

\* However prompts of one session overlap, none stays busy without a task.
THEOREM BusyMeansBusy == Spec => []BusyHasATask
<1>1. IInv => BusyHasATask
  BY DEF IInv
<1> QED
  BY Invariant, <1>1, PTL

\* No snapshot is on its way when the task that sent it is over.
THEOREM SnapshotsAreApplied == Spec => []NoSnapshotOutlivesItsRun
<1>1. IInv => NoSnapshotOutlivesItsRun
  BY DEF IInv, Held, NoSnapshotOutlivesItsRun
<1> QED
  BY Invariant, <1>1, PTL

\* Only a prompt task puts a session back that is not in the table.
THEOREM NobodyElseReinserts == Spec => OnlyPromptsReinsert
<1> DEFINE A == \A s \in used :
                   ~Exists(s) /\ Exists(s)' =>
                      \E t \in Prompts : sess[t] = s /\ (updates'[t] # updates[t] \/ pc'[t] # pc[t])
<1>1. IInv /\ [Next]_vars => [A]_vars
  <2> SUFFICES ASSUME IInv, Next, NEW s \in used, ~Exists(s), Exists(s)'
               PROVE  \E t \in Prompts : sess[t] = s /\ (updates'[t] # updates[t] \/ pc'[t] # pc[t])
    BY DEF A
  <2>0. store \in [Sessions -> Record \cup {Absent}] /\ s \in Sessions
    BY DEF IInv, TypeOK
  <2>1. ASSUME NEW t \in Prompts, ApplyUpdate(t) PROVE sess[t] = s /\ updates'[t] # updates[t]
    <3>1. updates[t] \in Seq(Record) /\ updates[t] # <<>> /\ updates' = [updates EXCEPT ![t] = Tail(updates[t])]
      BY <2>1 DEF ApplyUpdate, IInv, TypeOK
    <3>2. Len(Tail(updates[t])) = Len(updates[t]) - 1 /\ Len(updates[t]) \in Nat
      BY <3>1
    <3>3. updates'[t] = Tail(updates[t])
      BY <3>1 DEF IInv, TypeOK
    <3>4. sess[t] = s
      BY <2>0, <2>1 DEF ApplyUpdate, Insert, Exists
    <3>5. Tail(updates[t]) # updates[t]
      <4>1. Len(Tail(updates[t])) # Len(updates[t])
        BY <3>2
      <4> QED
        BY <4>1, Zenon
    <3> QED
      BY <3>3, <3>4, <3>5
  <2>2. ASSUME NEW t \in Prompts, FinalUpdate(t) PROVE sess[t] = s /\ pc'[t] # pc[t]
    <3>1. sess[t] = s
      BY <2>0, <2>2 DEF FinalUpdate, Insert, Exists
    <3> QED
      BY <2>2, <3>1 DEF FinalUpdate, IInv, TypeOK, Tasks
  <2>3. ASSUME NEW q \in Sessions, \/ CreateSession(q) \/ ChangeSession(q) \/ DeleteSession(q)
                                   \/ \E from \in Sessions : ForkSession(q, from)
                                   \/ \E t \in Prompts : SessionPrompt(t, q)
                                   \/ \E t \in Streams : StreamMessage(t, q)
        PROVE  FALSE
    BY <2>0, <2>3 DEF CreateSession, ChangeSession, DeleteSession, ForkSession, SessionPrompt, StreamMessage,
                      Insert, Exists
  <2>4. ASSUME NEW t \in Prompts, RunEmits(t) \/ CloneSession(t) \/ SetBusy(t) \/ RunEnds(t) \/ SetIdle(t)
        PROVE  FALSE
    BY <2>4 DEF RunEmits, CloneSession, SetBusy, RunEnds, SetIdle, Exists
  <2>5. ASSUME NEW t \in Streams, StreamWriteBack(t) PROVE FALSE
    BY <2>0, <2>5 DEF StreamWriteBack, Insert, Exists
  <2> QED
    BY <2>1, <2>2, <2>3, <2>4, <2>5 DEF Next, PromptStep
<1> QED
  BY Invariant, <1>1, PTL DEF Spec, OnlyPromptsReinsert

-----------------------------------------------------------------------------
(* Families *)

\* A session s below p has lost its parent only if it was deleted itself.
Attached(s, p) == p = NoSession \/ Exists(p) \/ s \in deleted

\* Every id that was handed out is accounted for, and all the copies of a
\* session, in the table, in clones and in channels, are below one parent.
Family ==
    /\ \A s \in used : Exists(s) \/ s \in deleted
    /\ \A s \in Sessions : Exists(s) => Attached(s, store[s].parent)
    /\ \A t \in Prompts : Holds(t) =>
          /\ Attached(sess[t], copy[t].parent)
          /\ Exists(sess[t]) => store[sess[t]].parent = copy[t].parent
          /\ \A k \in 1 .. Len(updates[t]) : updates[t][k].parent = copy[t].parent
          /\ \A u \in Prompts : Holds(u) /\ sess[u] = sess[t] => copy[u].parent = copy[t].parent

\* Deleting a session takes it, and with a session that is there its children.
LEMMA DescendantsClosed ==
  ASSUME NEW s \in Sessions
  PROVE  s \in Descendants(s) /\ ClosedBelow(Descendants(s))
BY DEF Descendants, ClosedBelow

\* A step that takes nothing out of the table, puts only new ids in, and begins
\* no clone.
LEMMA SameFamily ==
  ASSUME IInv, Family, deleted' = deleted,
         \A s \in used : /\ Exists(s)' <=> Exists(s)
                         /\ Exists(s) => store'[s].parent = store[s].parent,
         \A s \in used' \ used : Exists(s)' /\ Attached(s, store[s].parent)',
         \A s \in Sessions : Exists(s)' => s \in used',
         \A t \in Prompts : Holds(t)' =>
            /\ Holds(t) /\ sess'[t] = sess[t] /\ copy'[t].parent = copy[t].parent
            /\ \A k \in 1 .. Len(updates'[t]) : updates'[t][k].parent = copy[t].parent
  PROVE  Family'
<1>1. \A s \in used' : Exists(s)' \/ s \in deleted'
  BY DEF Family
<1>2. \A s, p : s \in Sessions /\ Attached(s, p) /\ p \in Sessions \cup {NoSession} => Attached(s, p)'
  BY Stored DEF Attached, IInv
<1>3. ASSUME NEW s \in Sessions, Exists(s)' PROVE Attached(s, store[s].parent)'
  <2>1. CASE s \in used
    <3>1. Exists(s) /\ store'[s].parent = store[s].parent /\ Attached(s, store[s].parent)
      BY <1>3, <2>1 DEF Family
    <3>2. store[s].parent \in Sessions \cup {NoSession}
      BY <3>1, Stored DEF IInv, Record
    <3> QED
      BY <1>2, <3>1, <3>2 DEF Attached
  <2>2. CASE s \notin used
    BY <1>3, <2>2
  <2> QED
    BY <2>1, <2>2
<1>4. ASSUME NEW t \in Prompts, Holds(t)'
      PROVE  /\ Attached(sess[t], copy[t].parent)'
             /\ Exists(sess[t])' => store'[sess[t]].parent = copy'[t].parent
             /\ \A u \in Prompts : Holds(u)' /\ sess'[u] = sess'[t] => copy'[u].parent = copy'[t].parent
  <2>1. Holds(t) /\ sess'[t] = sess[t] /\ copy'[t].parent = copy[t].parent
    BY <1>4
  <2>2. sess[t] \in used /\ sess[t] \in Sessions /\ copy[t].parent \in Sessions \cup {NoSession}
    BY <2>1 DEF IInv, TypeOK, Held, Holds, Record
  <2>3. Attached(sess[t], copy[t].parent) /\ (Exists(sess[t]) => store[sess[t]].parent = copy[t].parent)
    BY <2>1 DEF Family
  <2>4. Attached(sess[t], copy[t].parent)'
    BY <1>2, <2>1, <2>2, <2>3 DEF Attached
  <2>5. Exists(sess[t])' => store'[sess[t]].parent = copy'[t].parent
    BY <2>1, <2>2, <2>3
  <2>6. \A u \in Prompts : Holds(u)' /\ sess'[u] = sess'[t] => copy'[u].parent = copy'[t].parent
    BY <2>1 DEF Family
  <2> QED
    BY <2>4, <2>5, <2>6
<1> QED
  BY <1>1, <1>3, <1>4 DEF Family

\* The clone of a session is below the parent of the session.
LEMMA CloneFamily == ASSUME IInv, Family, NEW t \in Prompts, CloneSession(t) PROVE Family'
<1>1. /\ pc[t] = "clone" /\ sess[t] \in used /\ sess[t] \in Sessions /\ updates[t] = <<>>
      /\ UNCHANGED <<store, used, sess, updates, deleted>>
  BY DEF CloneSession, IInv, Held, TypeOK
<1>2. CASE ~Exists(sess[t])
  <2>1. copy' = copy /\ \A u \in Prompts : Holds(u)' => Holds(u)
    BY <1>1, <1>2 DEF CloneSession, Holds, IInv, TypeOK, Tasks
  <2> QED
    BY <1>1, <2>1 DEF Family, Attached, Exists
<1>3. CASE Exists(sess[t])
  <2>1. /\ copy'[t] = store[sess[t]] /\ \A u \in Prompts \ {t} : copy'[u] = copy[u]
        /\ \A u \in Prompts \ {t} : Holds(u)' <=> Holds(u)
    BY <1>1, <1>3 DEF CloneSession, Holds, IInv, TypeOK, Tasks
  <2>2. \A u \in Prompts \ {t} : Holds(u) /\ sess[u] = sess[t] => copy[u].parent = copy'[t].parent
    BY <1>3, <2>1 DEF Family
  <2>3. Attached(sess[t], copy'[t].parent)
    BY <1>1, <1>3, <2>1 DEF Family
  <2> QED
    BY <1>1, <2>1, <2>2, <2>3 DEF Family, Attached, Exists
<1> QED
  BY <1>2, <1>3

\* A session that is put back is put back where it was.
LEMMA WrittenFamily ==
  ASSUME IInv, Family, NEW t \in Prompts, Holds(t), UNCHANGED <<used, deleted, sess>>,
         NEW r \in Record, r.parent = copy[t].parent, store' = [store EXCEPT ![sess[t]] = r],
         \A u \in Prompts : Holds(u)' => Holds(u) /\ copy'[u] = copy[u],
         \A u \in Prompts : \A k \in 1 .. Len(updates'[u]) : \E j \in 1 .. Len(updates[u]) : updates'[u][k] = updates[u][j]
  PROVE  Family'
<1>1. sess[t] \in used /\ sess[t] \in Sessions /\ Absent \notin Record
  BY Records DEF IInv, Held, TypeOK, Holds
<1>2. store'[sess[t]] = r /\ \A s \in Sessions \ {sess[t]} : store'[s] = store[s]
  BY <1>1 DEF IInv, TypeOK
<1>3. \A s \in Sessions : Exists(s) => Exists(s)'
  BY <1>1, <1>2 DEF Exists
<1>4. \A s \in Sessions, p \in Sessions \cup {NoSession} : Attached(s, p) => Attached(s, p)'
  BY <1>3 DEF Attached
<1>5. copy[t].parent \in Sessions \cup {NoSession} /\ Attached(sess[t], copy[t].parent)
  BY DEF IInv, Held, Holds, Record, Family
<1>6. ASSUME NEW s \in Sessions, Exists(s)' PROVE Attached(s, store[s].parent)'
  <2>1. CASE s = sess[t]
    BY <1>2, <1>4, <1>5, <2>1 DEF Attached
  <2>2. CASE s # sess[t]
    <3>1. store'[s] = store[s] /\ Exists(s) /\ store[s].parent \in Sessions \cup {NoSession}
      BY <1>2, <1>6, <2>2, Stored DEF Exists, IInv, Record
    <3> QED
      BY <1>4, <3>1 DEF Family, Attached
  <2> QED
    BY <2>1, <2>2
<1>7. ASSUME NEW u \in Prompts, Holds(u)'
      PROVE  /\ Attached(sess[u], copy[u].parent)'
             /\ Exists(sess[u])' => store'[sess[u]].parent = copy[u].parent
             /\ \A k \in 1 .. Len(updates'[u]) : updates'[u][k].parent = copy[u].parent
  <2>1. Holds(u) /\ sess[u] \in Sessions /\ copy[u].parent \in Sessions \cup {NoSession}
    BY <1>7 DEF IInv, TypeOK, Held, Holds, Record
  <2>2. Attached(sess[u], copy[u].parent)'
    BY <1>4, <1>7, <2>1 DEF Family, Attached, Exists
  <2>3. Exists(sess[u])' => store'[sess[u]].parent = copy[u].parent
    <3>1. CASE sess[u] = sess[t]
      BY <1>2, <2>1, <3>1 DEF Family
    <3>2. CASE sess[u] # sess[t]
      BY <1>2, <2>1, <3>2 DEF Family, Exists
    <3> QED
      BY <3>1, <3>2
  <2>4. \A k \in 1 .. Len(updates'[u]) : updates'[u][k].parent = copy[u].parent
    BY <2>1 DEF Family
  <2> QED
    BY <2>2, <2>3, <2>4
<1>8. \A u, v \in Prompts : Holds(u)' /\ Holds(v)' /\ sess[v] = sess[u] => copy[v].parent = copy[u].parent
  BY DEF Family
<1>9. \A s \in used : Exists(s)' \/ s \in deleted
  BY <1>3 DEF Family, IInv, TypeOK
<1> QED
  BY <1>6, <1>7, <1>8, <1>9 DEF Family

\* What is below a deleted session is deleted, or was before.
LEMMA DeleteFamily == ASSUME IInv, Family, NEW s \in Sessions, DeleteSession(s) PROVE Family'
<1> DEFINE gone == Descendants(s)
<1>1. /\ \A q \in Sessions : store'[q] = IF q \in gone THEN Absent ELSE store[q]
      /\ deleted' = deleted \cup {r \in Sessions : Exists(r) /\ r \in gone}
      /\ UNCHANGED <<used, pc, sess, copy, updates>>
  BY DEF DeleteSession, UNCHANGEDTasks
<1>2. ClosedBelow(gone)
  BY DescendantsClosed
<1> HIDE DEF gone
<1>3. \A q \in Sessions : Exists(q) => (Exists(q)' /\ store'[q] = store[q]) \/ (q \in gone /\ q \in deleted')
  BY <1>1 DEF Exists
<1>4. \A q \in Sessions : Exists(q)' => Exists(q) /\ store'[q] = store[q] /\ q \notin gone
  BY <1>1 DEF Exists
<1>5. ASSUME NEW q \in Sessions, NEW p \in Sessions \cup {NoSession}, Attached(q, p),
             Exists(q) => store[q].parent = p, q \in used
      PROVE  Attached(q, p)'
  <2>1. CASE p = NoSession \/ q \in deleted
    BY <1>1, <2>1 DEF Attached
  <2>2. CASE p \in Sessions /\ Exists(p) /\ q \notin deleted
    <3>1. Exists(q) /\ store[q].parent = p
      BY <1>5, <2>2 DEF Family
    <3>2. p \in gone => q \in gone
      BY <1>2, <3>1 DEF ClosedBelow
    <3> QED
      BY <1>1, <1>3, <2>2, <3>1, <3>2 DEF Attached
  <2> QED
    BY <1>5, <2>1, <2>2 DEF Attached
<1>6. \A q \in Sessions : Exists(q)' => Attached(q, store[q].parent)'
  <2> SUFFICES ASSUME NEW q \in Sessions, Exists(q)' PROVE Attached(q, store[q].parent)'
    OBVIOUS
  <2>1. Exists(q) /\ store'[q] = store[q] /\ store[q] \in Record /\ q \in used
    BY <1>4, Stored DEF IInv
  <2>2. store[q].parent \in Sessions \cup {NoSession} /\ Attached(q, store[q].parent)
    BY <2>1 DEF Record, Family
  <2> QED
    BY <1>5, <2>1, <2>2 DEF Attached
<1>7. ASSUME NEW t \in Prompts, Holds(t) PROVE Attached(sess[t], copy[t].parent)'
  <2>1. sess[t] \in used /\ sess[t] \in Sessions /\ copy[t].parent \in Sessions \cup {NoSession}
    BY <1>7 DEF IInv, TypeOK, Held, Holds, Record
  <2> QED
    BY <1>1, <1>5, <1>7, <2>1 DEF Family, Attached
<1>8. \A q \in used : Exists(q)' \/ q \in deleted'
  BY <1>1, <1>3 DEF Family, IInv, TypeOK
<1>9. \A t \in Prompts : Holds(t) /\ Exists(sess[t])' => store'[sess[t]].parent = copy[t].parent
  BY <1>1, <1>4 DEF Family, IInv, TypeOK, Held, Holds
<1> QED
  BY <1>1, <1>6, <1>7, <1>8, <1>9 DEF Family, Holds, Attached, Exists

LEMMA FamilyInductive == IInv /\ IInv' /\ Family /\ [Next]_vars => Family'
<1> SUFFICES ASSUME IInv, IInv', Family, [Next]_vars PROVE Family'
  OBVIOUS
<1> USE DEF Attached
<1>0. /\ store \in [Sessions -> Record \cup {Absent}] /\ used \subseteq Sessions
      /\ pc \in [Tasks -> PromptPC \cup {"streaming"}] /\ sess \in [Tasks -> Sessions \cup {NoSession}]
      /\ copy \in [Prompts -> Record \cup {Absent}] /\ updates \in [Prompts -> Seq(Record)]
      /\ \A s \in Sessions : Exists(s) => s \in used /\ store[s] \in Record
      /\ \A s \in Sessions : Exists(s)' => s \in used'
      /\ Absent \notin Record
  BY Stored, Records DEF IInv, TypeOK
\* What a handler leaves alone.
<1>1. ASSUME UNCHANGED <<copy, updates>>, \A t \in Prompts : Holds(t)' => Holds(t) /\ sess'[t] = sess[t]
      PROVE  \A t \in Prompts : Holds(t)' =>
                /\ Holds(t) /\ sess'[t] = sess[t] /\ copy'[t].parent = copy[t].parent
                /\ \A k \in 1 .. Len(updates'[t]) : updates'[t][k].parent = copy[t].parent
  BY <1>1 DEF Family
<1>2. ASSUME NEW s \in Sessions, CreateSession(s) \/ \E from \in Sessions : ForkSession(s, from) PROVE Family'
  <2>1. s \notin used /\ used' = used \cup {s} /\ UNCHANGED <<deleted, pc, sess, copy, updates>>
    BY <1>2 DEF CreateSession, ForkSession, UNCHANGEDTasks
  <2>2. \E p \in Sessions \cup {NoSession}, has \in SUBSET Nat :
           (p = NoSession \/ Exists(p)) /\ store' = [store EXCEPT ![s] = [parent |-> p, has |-> has]]
    <3>1. CASE CreateSession(s)
      BY <3>1 DEF CreateSession, Insert, Fresh
    <3>2. ASSUME NEW from \in Sessions, ForkSession(s, from)
          PROVE  \E has \in SUBSET Nat : store' = [store EXCEPT ![s] = [parent |-> NoSession, has |-> has]]
      <4>1. store[from].has \in SUBSET Nat
        BY <1>0, <3>2 DEF ForkSession, Record
      <4>2. \A kept \in SUBSET Nat : [Fresh(NoSession) EXCEPT !.has = kept] = [parent |-> NoSession, has |-> kept]
        BY DEF Fresh
      <4> QED
        BY <3>2, <4>1, <4>2 DEF ForkSession, Insert
    <3> QED
      BY <1>2, <3>1, <3>2
  <2>3. PICK p \in Sessions \cup {NoSession}, has \in SUBSET Nat :
           (p = NoSession \/ Exists(p)) /\ store' = [store EXCEPT ![s] = [parent |-> p, has |-> has]]
    BY <2>2
  <2>4. /\ \A q \in used : store'[q] = store[q] /\ (Exists(q)' <=> Exists(q))
        /\ store'[s].parent = p /\ (p = NoSession \/ (p \in used /\ Exists(p)))
    <3>1. \A q \in used : store'[q] = store[q] /\ q \in Sessions
      BY <1>0, <2>1, <2>3
    <3>2. store'[s].parent = p
      BY <1>0, <2>3
    <3>3. p = NoSession \/ (p \in Sessions /\ Exists(p))
      BY <2>3
    <3> QED
      BY <1>0, <3>1, <3>2, <3>3 DEF Exists
  <2>5. Exists(s)'
    BY <1>0, <2>3, Records DEF Exists, Record
  <2>6. \A t \in Prompts : Holds(t)' => Holds(t) /\ sess'[t] = sess[t]
    BY <2>1 DEF Holds
  <2>7. \A q \in used' \ used : Exists(q)' /\ Attached(q, store[q].parent)'
    BY <2>1, <2>4, <2>5
  <2> HIDE DEF Attached
  <2> QED
    BY <1>0, <1>1, <2>1, <2>4, <2>6, <2>7, SameFamily
\* The steps that change a session in place or none.
<1>3. ASSUME UNCHANGED <<used, deleted, copy, updates>>,
             \A t \in Prompts : Holds(t)' => Holds(t) /\ sess'[t] = sess[t],
             \/ store' = store
             \/ \E s \in Sessions, has \in SUBSET Nat :
                   Exists(s) /\ store' = [store EXCEPT ![s] = [store[s] EXCEPT !.has = has]]
      PROVE  Family'
  <2>1. \A q \in used : Exists(q)' = Exists(q) /\ (Exists(q) => store'[q].parent = store[q].parent)
    <3>1. ASSUME NEW s \in Sessions, NEW has \in SUBSET Nat, Exists(s),
                 store' = [store EXCEPT ![s] = [store[s] EXCEPT !.has = has]]
          PROVE  \A q \in used : Exists(q)' = Exists(q) /\ (Exists(q) => store'[q].parent = store[q].parent)
      <4>1. store[s] \in Record
        BY <1>0, <3>1
      <4>2. /\ [store[s] EXCEPT !.has = has] \in Record
            /\ [store[s] EXCEPT !.has = has].parent = store[s].parent
        BY <3>1, <4>1, Records DEF Record
      <4> QED
        BY <1>0, <3>1, <4>2 DEF Exists
    <3> QED
      BY <1>3, <3>1 DEF Exists
  <2> HIDE DEF Attached
  <2> QED
    BY <1>0, <1>1, <1>3, <2>1, SameFamily
<1>4. ASSUME NEW s \in Sessions, ChangeSession(s) \/ \E t \in Streams : StreamMessage(t, s) PROVE Family'
  <2>1. /\ Exists(s) /\ store' = [store EXCEPT ![s] = [store[s] EXCEPT !.has = store[s].has \cup {changes'}]]
        /\ changes' = changes + 1 /\ UNCHANGED <<used, deleted, copy, updates>>
    BY <1>4 DEF ChangeSession, StreamMessage, Insert, UNCHANGEDTasks
  <2>2. \A t \in Prompts : Holds(t)' => Holds(t) /\ sess'[t] = sess[t]
    BY <1>0, <1>4, TasksAssumption DEF ChangeSession, StreamMessage, UNCHANGEDTasks, Holds, Tasks
  <2>3. store[s].has \cup {changes'} \in SUBSET Nat
    BY <1>0, <2>1 DEF Record, IInv, TypeOK
  <2> QED
    BY <1>3, <2>1, <2>2, <2>3
<1>5. ASSUME NEW t \in Streams, StreamWriteBack(t) PROVE Family'
  <2>1. UNCHANGED <<used, deleted, copy, updates, sess>> /\ sess[t] \in Sessions
    BY <1>5 DEF StreamWriteBack, IInv, Streaming, TypeOK
  <2>2. \A u \in Prompts : Holds(u)' => Holds(u) /\ sess'[u] = sess[u]
    BY <1>0, <1>5, TasksAssumption DEF StreamWriteBack, Holds, Tasks
  <2>3. \/ store' = store
        \/ \E s \in Sessions, has \in SUBSET Nat :
              Exists(s) /\ store' = [store EXCEPT ![s] = [store[s] EXCEPT !.has = has]]
    <3>1. CASE store' = store
      BY <3>1
    <3>2. CASE Exists(sess[t]) /\ changes' = changes + 1
               /\ store' = [store EXCEPT ![sess[t]] = [store[sess[t]] EXCEPT !.has = store[sess[t]].has \cup {changes'}]]
      <4>1. store[sess[t]].has \cup {changes'} \in SUBSET Nat
        BY <1>0, <2>1, <3>2 DEF Record, IInv, TypeOK
      <4> QED
        BY <2>1, <3>2, <4>1
    <3> QED
      BY <1>5, <3>1, <3>2 DEF StreamWriteBack, Insert
  <2> QED
    BY <1>3, <2>1, <2>2, <2>3
<1>6. ASSUME NEW t \in Prompts, SetBusy(t) \/ SetIdle(t) \/ \E s \in Sessions : SessionPrompt(t, s) PROVE Family'
  <2>1. UNCHANGED <<store, used, deleted, copy, updates>>
    BY <1>6 DEF SetBusy, SetIdle, SessionPrompt
  <2>2. \A u \in Prompts : Holds(u)' => Holds(u) /\ sess'[u] = sess[u]
    BY <1>0, <1>6 DEF SetBusy, SetIdle, SessionPrompt, Holds, Tasks
  <2> QED
    BY <1>3, <2>1, <2>2
<1>7. ASSUME NEW t \in Prompts, RunEmits(t) \/ RunEnds(t) PROVE Family'
  <2>1. /\ UNCHANGED <<store, used, deleted, sess>> /\ pc[t] = "run" /\ copy[t] \in Record
        /\ \A u \in Prompts : Holds(u)' <=> Holds(u)
    BY <1>0, <1>7 DEF RunEmits, RunEnds, IInv, Held, Holds, Tasks
  <2>2. /\ copy'[t].parent = copy[t].parent /\ \A u \in Prompts \ {t} : copy'[u] = copy[u] /\ updates'[u] = updates[u]
        /\ updates'[t] = updates[t] \/ updates'[t] = Append(updates[t], copy'[t])
    <3>1. \/ copy' = copy
          \/ copy' = [copy EXCEPT ![t] = [copy[t] EXCEPT !.has = copy[t].has \cup {changes'}]]
      BY <1>7 DEF RunEmits, RunEnds
    <3>2. [copy[t] EXCEPT !.has = copy[t].has \cup {changes'}].parent = copy[t].parent
      BY <2>1 DEF Record
    <3>3. updates' = updates \/ updates' = [updates EXCEPT ![t] = Append(updates[t], copy'[t])]
      BY <1>7 DEF RunEmits, RunEnds
    <3> QED
      BY <1>0, <3>1, <3>2, <3>3
  <2>3. \A k \in 1 .. Len(updates'[t]) : updates'[t][k].parent = copy[t].parent
    <3>1. updates[t] \in Seq(Record) /\ \A k \in 1 .. Len(updates[t]) : updates[t][k].parent = copy[t].parent
      BY <1>0, <2>1 DEF Family, Holds
    <3>2. CASE updates'[t] = Append(updates[t], copy'[t])
      BY <2>2, <3>1, <3>2
    <3> QED
      BY <2>2, <3>1, <3>2
  <2>4. \A u \in Prompts : Holds(u)' =>
           /\ Holds(u) /\ sess'[u] = sess[u] /\ copy'[u].parent = copy[u].parent
           /\ \A k \in 1 .. Len(updates'[u]) : updates'[u][k].parent = copy[u].parent
    BY <2>1, <2>2, <2>3 DEF Family
  <2> HIDE DEF Attached
  <2> QED
    BY <1>0, <2>1, <2>4, SameFamily DEF Exists
<1>8. ASSUME NEW t \in Prompts, ApplyUpdate(t) PROVE Family'
  <2>1. /\ Holds(t) /\ UNCHANGED <<used, deleted, sess, copy, pc>> /\ updates[t] \in Seq(Record) /\ updates[t] # <<>>
        /\ store' = [store EXCEPT ![sess[t]] = Head(updates[t])] /\ updates' = [updates EXCEPT ![t] = Tail(updates[t])]
    BY <1>0, <1>8 DEF ApplyUpdate, Insert, IInv, Held, Holds, PromptPC
  <2>2. /\ Head(updates[t]) = updates[t][1] /\ 1 \in 1 .. Len(updates[t]) /\ updates[t][1] \in Record
        /\ \A k \in 1 .. Len(Tail(updates[t])) : k + 1 \in 1 .. Len(updates[t]) /\ Tail(updates[t])[k] = updates[t][k + 1]
    <3>1. updates[t] \in Seq(Record) /\ updates[t] # <<>>
      BY <2>1
    <3> QED
      BY <3>1
  <2>3. Head(updates[t]).parent = copy[t].parent
    BY <2>1, <2>2 DEF Family
  <2>4. \A u \in Prompts : \A k \in 1 .. Len(updates'[u]) : \E j \in 1 .. Len(updates[u]) : updates'[u][k] = updates[u][j]
    <3>1. updates'[t] = Tail(updates[t]) /\ \A u \in Prompts \ {t} : updates'[u] = updates[u]
      BY <1>0, <2>1
    <3>2. \A k \in 1 .. Len(updates'[t]) : \E j \in 1 .. Len(updates[t]) : updates'[t][k] = updates[t][j]
      BY <2>2, <3>1
    <3>3. \A u \in Prompts \ {t} : \A k \in 1 .. Len(updates'[u]) : updates'[u][k] = updates[u][k]
      BY <3>1
    <3> SUFFICES ASSUME NEW u \in Prompts, NEW k \in 1 .. Len(updates'[u])
                 PROVE  \E j \in 1 .. Len(updates[u]) : updates'[u][k] = updates[u][j]
      OBVIOUS
    <3>4. CASE u = t
      BY <3>2, <3>4, Zenon
    <3>5. CASE u # t
      <4>1. k \in 1 .. Len(updates[u]) /\ updates'[u][k] = updates[u][k]
        BY <3>1, <3>5, Zenon
      <4> QED
        BY <4>1, Zenon
    <3> QED
      BY <3>4, <3>5
  <2>5. \A u \in Prompts : Holds(u)' => Holds(u) /\ copy'[u] = copy[u]
    BY <2>1 DEF Holds
  <2> QED
    BY <2>1, <2>2, <2>3, <2>4, <2>5, WrittenFamily
<1>9. ASSUME NEW t \in Prompts, FinalUpdate(t) PROVE Family'
  <2>1. /\ Holds(t) /\ UNCHANGED <<used, deleted, sess, updates>> /\ copy[t] \in Record
        /\ store' = [store EXCEPT ![sess[t]] = copy[t]]
        /\ \A u \in Prompts : Holds(u)' => Holds(u) /\ copy'[u] = copy[u]
    BY <1>0, <1>9 DEF FinalUpdate, Insert, IInv, Held, Holds, Tasks
  <2> QED
    BY <2>1, WrittenFamily
<1>10. CASE UNCHANGED vars
  BY <1>10 DEF vars, Family, Exists, Holds
<1> QED
  BY <1>2, <1>4, <1>5, <1>6, <1>7, <1>8, <1>9, <1>10, CloneFamily, DeleteFamily DEF Next, PromptStep

\* However deletes, forks and children overlap with prompts that write back what
\* was deleted, a session never loses its parent without having been deleted
\* with it.
THEOREM DeletesTakeTheTree == Spec => []OrphansWereDeleted
<1>1. Init => Family
  BY DEF Init, Family, Exists, Holds, Tasks
<1>2. Family => OrphansWereDeleted
  BY DEF Family, Attached, OrphansWereDeleted
<1> QED
  BY <1>1, <1>2, FamilyInductive, Invariant, PTL DEF Spec
=============================================================================
