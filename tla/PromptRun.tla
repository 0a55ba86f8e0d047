----------------------------- MODULE PromptRun -----------------------------
(***************************************************************************)
(* The life of the calls made on one SessionPrompt (kfcode-session,        *)
(* prompt.rs): prompt_with_update_hook, resume_session and cancel, issued  *)
(* by concurrent tasks.  A SessionPrompt keeps two tables behind two locks: *)
(*   state          Mutex<HashMap<session, PromptState{cancel_token}>>     *)
(*   session_state  RwLock<SessionStateManager>, the run status            *)
(* Every step below is the code between two points where a task gives a    *)
(* lock back or awaits; the agentic loop itself is one program point here  *)
(* and is the subject of module PromptLoop.                                *)
(***************************************************************************)
EXTENDS Naturals

CONSTANTS
    Tasks,      \* the async tasks that call the SessionPrompt
    NoTask,     \* no task
    Sessions,   \* session ids
    Kinds,      \* which calls this instance makes, a subset of AllKinds
    MaxCalls    \* bound on the number of calls begun

\* "prompt"  a prompt with content and a reply,
\* "empty"   a prompt whose parts are empty: create_user_message refuses it,
\* "noReply" a prompt that only records the user message.
PromptKinds == {"prompt", "empty", "noReply"}
AllKinds == PromptKinds \cup {"resume", "cancel"}

ASSUME NoTaskAssumption == NoTask \notin Tasks
ASSUME KindsAssumption == Kinds \subseteq AllKinds
ASSUME MaxCallsAssumption == MaxCalls \in Nat

NoToken == 0

VARIABLES
    state,      \* the registered cancel token of each session, or NoToken
    stateLock,  \* the task that keeps the lock of `state' across an await
    runStatus,  \* session_state: "busy" or "idle"
    cancelled,  \* the tokens whose cancel() was called
    issued,     \* how many tokens were created
    begun,      \* how many calls were begun (the bound)
    refused,    \* ghost: the tokens of prompts create_user_message refused
    pc, kind, sess, tok  \* of each task: next step, call, session, token

vars == <<state, stateLock, runStatus, cancelled, issued, begun,
          refused, pc, kind, sess, tok>>

PC == {"idle", "assert", "check", "insert", "message", "lookup", "setBusy",
       "loop", "remove", "setIdle", "cancel", "cancelIdle"}

\* The points at which a prompt or resume call holds the token of a run.
HoldsToken == {"message", "setBusy", "loop", "remove"}

Init ==
    /\ state = [s \in Sessions |-> NoToken]
    /\ stateLock = NoTask
    /\ runStatus = [s \in Sessions |-> "idle"]
    /\ cancelled = {}
    /\ issued = 0
    /\ begun = 0
    /\ refused = {}
    /\ pc = [t \in Tasks |-> "idle"]
    /\ kind = [t \in Tasks |-> "prompt"]
    /\ sess \in [Tasks -> Sessions]
    /\ tok = [t \in Tasks |-> NoToken]

Goto(t, label) == pc' = [pc EXCEPT ![t] = label]

\* The call returns (an error or not): its locals, the token with them, go.
Return(t) ==
    /\ Goto(t, "idle")
    /\ tok' = [tok EXCEPT ![t] = NoToken]

StateFree == stateLock = NoTask

-----------------------------------------------------------------------------
\* A task calls prompt, resume_session or cancel for some session.
Call(t) ==
    /\ pc[t] = "idle"
    /\ begun < MaxCalls
    /\ begun' = begun + 1
    /\ \E k \in Kinds, s \in Sessions :
          /\ kind' = [kind EXCEPT ![t] = k]
          /\ sess' = [sess EXCEPT ![t] = s]
          /\ Goto(t, CASE k \in PromptKinds -> "assert"
                       [] k = "resume" -> "lookup"
                       [] k = "cancel" -> "cancel")
    /\ UNCHANGED <<state, stateLock, runStatus, cancelled, issued,
                   tok, refused>>

\* assert_not_busy: one look at the table, the lock is given back at once.
AssertNotBusy(t) ==
    /\ pc[t] = "assert"
    /\ StateFree
    /\ IF state[sess[t]] # NoToken THEN Return(t)
       ELSE Goto(t, "check") /\ UNCHANGED tok
    /\ UNCHANGED <<state, stateLock, runStatus, cancelled, issued, begun,
                   refused, kind, sess>>

\* start, first half: look again, then drop(state).
StartCheck(t) ==
    /\ pc[t] = "check"
    /\ StateFree
    /\ IF state[sess[t]] # NoToken THEN Return(t)
       ELSE Goto(t, "insert") /\ UNCHANGED tok
    /\ UNCHANGED <<state, stateLock, runStatus, cancelled, issued, begun,
                   refused, kind, sess>>

\* (mutant) HashMap::entry().or_insert: the second prompt joins the first.
StartInsertOrJoin(t) ==
    /\ pc[t] = "insert"
    /\ StateFree
    /\ issued' = issued + 1
    /\ tok' = [tok EXCEPT ![t] =
                  IF state[sess[t]] = NoToken THEN issued' ELSE state[sess[t]]]
    /\ state' = [state EXCEPT ![sess[t]] = tok'[t]]
    /\ Goto(t, "message")
    /\ UNCHANGED <<stateLock, runStatus, cancelled, begun, kind,
                   sess, refused>>

\* start, second half: lock again and insert, whatever is there by now.
StartInsert(t) ==
    /\ pc[t] = "insert"
    /\ StateFree
    /\ issued' = issued + 1
    /\ tok' = [tok EXCEPT ![t] = issued']
    /\ state' = [state EXCEPT ![sess[t]] = issued']
    /\ Goto(t, "message")
    /\ UNCHANGED <<stateLock, runStatus, cancelled, begun, kind,
                   sess, refused>>

\* (mutant) if input.no_reply { return }, without its finish_run.
CreateUserMessageNoFinish(t) ==
    /\ pc[t] = "message"
    /\ IF kind[t] \in {"empty", "noReply"} THEN Return(t)
       ELSE Goto(t, "setBusy") /\ UNCHANGED tok
    /\ refused' = IF kind[t] = "empty" THEN refused \cup {tok[t]} ELSE refused
    /\ UNCHANGED <<state, stateLock, runStatus, cancelled, issued, begun,
                   kind, sess>>

\* create_user_message()? and the no_reply test.  The `?' leaves the entry
\* that start inserted where it is.
CreateUserMessage(t) ==
    /\ pc[t] = "message"
    /\ CASE kind[t] = "empty"   -> Return(t)
         [] kind[t] = "noReply" -> Goto(t, "remove") /\ UNCHANGED tok
         [] OTHER               -> Goto(t, "setBusy") /\ UNCHANGED tok
    /\ refused' = IF kind[t] = "empty" THEN refused \cup {tok[t]} ELSE refused
    /\ UNCHANGED <<state, stateLock, runStatus, cancelled, issued, begun,
                   kind, sess>>

\* resume: a clone of the registered token, or an error.
ResumeLookup(t) ==
    /\ pc[t] = "lookup"
    /\ StateFree
    /\ IF state[sess[t]] = NoToken
       THEN Return(t)
       ELSE /\ tok' = [tok EXCEPT ![t] = state[sess[t]]]
            /\ Goto(t, "setBusy")
    /\ UNCHANGED <<state, stateLock, runStatus, cancelled, issued, begun,
                   refused, kind, sess>>

SetBusy(t) ==
    /\ pc[t] = "setBusy"
    /\ runStatus' = [runStatus EXCEPT ![sess[t]] = "busy"]
    /\ Goto(t, "loop")
    /\ UNCHANGED <<state, stateLock, cancelled, issued, begun,
                   refused, kind, sess, tok>>

\* (mutant) the loop watches the session's entry instead of its own token.
LoopWatchesEntry(t) ==
    /\ pc[t] = "loop"
    /\ state[sess[t]] \in cancelled
    /\ Goto(t, "remove")
    /\ UNCHANGED <<state, stateLock, runStatus, cancelled, issued, begun,
                   refused, kind, sess, tok>>

\* loop_inner comes back because it saw its token cancelled.
LoopCancelled(t) ==
    /\ pc[t] = "loop"
    /\ tok[t] \in cancelled
    /\ Goto(t, "remove")
    /\ UNCHANGED <<state, stateLock, runStatus, cancelled, issued, begun,
                   refused, kind, sess, tok>>

\* (mutant) loop_inner(..).await? : an error returns before finish_run.
LoopEndsOrReturns(t) ==
    /\ pc[t] = "loop"
    /\ \/ Goto(t, "remove") /\ UNCHANGED tok
       \/ Return(t)
    /\ UNCHANGED <<state, stateLock, runStatus, cancelled, issued, begun,
                   refused, kind, sess>>

\* loop_inner comes back by itself: the answer is complete, or it failed.
LoopEnds(t) ==
    /\ pc[t] = "loop"
    /\ Goto(t, "remove")
    /\ UNCHANGED <<state, stateLock, runStatus, cancelled, issued, begun,
                   refused, kind, sess, tok>>

\* finish_run, first half: remove the session's entry, whoever put it there.
FinishRemove(t) ==
    /\ pc[t] = "remove"
    /\ StateFree
    /\ state' = [state EXCEPT ![sess[t]] = NoToken]
    /\ Goto(t, "setIdle")
    /\ UNCHANGED <<stateLock, runStatus, cancelled, issued, begun,
                   refused, kind, sess, tok>>

\* finish_run, second half, after drop(state).
FinishIdle(t) ==
    /\ pc[t] = "setIdle"
    /\ runStatus' = [runStatus EXCEPT ![sess[t]] = "idle"]
    /\ Return(t)
    /\ UNCHANGED <<state, stateLock, cancelled, issued, begun,
                   kind, sess, refused>>

\* (mutant) get in place of remove: the entry stays.
CancelKeepsEntry(t) ==
    /\ pc[t] = "cancel"
    /\ StateFree
    /\ stateLock' = t
    /\ cancelled' = cancelled \cup ({state[sess[t]]} \ {NoToken})
    /\ Goto(t, "cancelIdle")
    /\ UNCHANGED <<refused, state, runStatus, issued, begun, kind, sess, tok>>

\* cancel: remove the entry and cancel its token; the guard of `state' lives
\* until the function returns, so the lock is kept while it waits for the
\* write lock of session_state.
CancelRemove(t) ==
    /\ pc[t] = "cancel"
    /\ StateFree
    /\ stateLock' = t
    /\ cancelled' = cancelled \cup ({state[sess[t]]} \ {NoToken})
    /\ state' = [state EXCEPT ![sess[t]] = NoToken]
    /\ Goto(t, "cancelIdle")
    /\ UNCHANGED <<refused, runStatus, issued, begun, kind, sess, tok>>

\* (mutant) a guard that is never given back.
CancelIdleKeepsLock(t) ==
    /\ pc[t] = "cancelIdle"
    /\ runStatus' = [runStatus EXCEPT ![sess[t]] = "idle"]
    /\ Return(t)
    /\ UNCHANGED <<state, stateLock, cancelled, issued, begun,
                   kind, sess, refused>>

CancelIdle(t) ==
    /\ pc[t] = "cancelIdle"
    /\ runStatus' = [runStatus EXCEPT ![sess[t]] = "idle"]
    /\ stateLock' = NoTask
    /\ Return(t)
    /\ UNCHANGED <<refused, state, cancelled, issued, begun, kind, sess>>

\* The steps a task takes by itself once it made a call.
Advance(t) ==
    \/ AssertNotBusy(t) \/ StartCheck(t) \/ StartInsert(t)
    \/ CreateUserMessage(t) \/ ResumeLookup(t) \/ SetBusy(t)
    \/ LoopCancelled(t) \/ FinishRemove(t) \/ FinishIdle(t)
    \/ CancelRemove(t) \/ CancelIdle(t)

Next == \E t \in Tasks : Call(t) \/ Advance(t) \/ LoopEnds(t)

Spec == Init /\ [][Next]_vars

\* The runtime polls every ready task again and tokio's Mutex is FIFO, so a
\* task cannot be passed over for ever.  Nothing forces a task to call, nor
\* the model to end an answer: Call and LoopEnds are not fair.  LoopCancelled
\* is: a loop looks at its token at every event of a stream, and that the
\* provider sends events or ends is PromptLoop's ProviderFairness.
Fairness == \A t \in Tasks : SF_vars(Advance(t))

FairSpec == Spec /\ Fairness

-----------------------------------------------------------------------------
\* The types, and that every token about was made by start: the registered
\* ones, the cancelled ones and the one each run in progress holds.
TypeOK ==
    /\ issued \in Nat
    /\ begun \in Nat
    /\ state \in [Sessions -> 0..issued]
    /\ stateLock \in Tasks \cup {NoTask}
    /\ runStatus \in [Sessions -> {"idle", "busy"}]
    /\ cancelled \subseteq 1..issued
    /\ refused \subseteq 1..issued
    /\ pc \in [Tasks -> PC]
    /\ kind \in [Tasks -> AllKinds]
    /\ sess \in [Tasks -> Sessions]
    /\ tok \in [Tasks -> 0..issued]
    /\ \A t \in Tasks : pc[t] \in HoldsToken => tok[t] # NoToken

\* A registered token was never cancelled: cancel takes the entry out in the
\* step that cancels it, so a resume never clones a dead token and a prompt
\* never overwrites one.
RegisteredTokenIsLive ==
    \A s \in Sessions : state[s] # NoToken => state[s] \notin cancelled

\* Whatever calls overlap, finish and are cancelled, a session is locked by an
\* entry only while a call that holds its token is under way, so that the next
\* prompt is let in afterwards: but for the entries of prompts that
\* create_user_message refused, whose `?' is the one way out that leaves one.
EntriesHaveRuns ==
    \A s \in Sessions : state[s] \notin {NoToken} \cup refused =>
        \E t \in Tasks :
            sess[t] = s /\ pc[t] \in HoldsToken /\ tok[t] = state[s]

\* A session is only reported busy while some call is between its set_busy
\* and its set_idle, however calls overlap: the status never sticks.
BusyHasARun ==
    \A s \in Sessions : runStatus[s] = "busy" =>
        \E t \in Tasks : sess[t] = s /\ pc[t] \in {"loop", "remove", "setIdle"}

\* Two prompts never run on one token: only resume_session shares a token,
\* so cancelling one prompt's token never stops another prompt.
PromptsDoNotShareTokens ==
    \A t, u \in Tasks :
        /\ t # u
        /\ kind[t] \in PromptKinds /\ pc[t] \in HoldsToken
        /\ kind[u] \in PromptKinds /\ pc[u] \in HoldsToken
        => tok[t] # tok[u]

\* Once its token is cancelled a loop comes back and its call returns.
CancelledRunReturns ==
    \A t \in Tasks :
        (pc[t] = "loop" /\ tok[t] \in cancelled) ~> (pc[t] = "idle")

\* Every call gets either to the loop or to its return: no two calls ever
\* wait for each other on the two locks.
CallsAdvance ==
    \A t \in Tasks : (pc[t] # "idle") ~> (pc[t] \in {"loop", "idle"})
=============================================================================
