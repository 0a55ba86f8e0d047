---------------------------- MODULE PromptProofs ----------------------------
(***************************************************************************)
(* What is proved of SessionPrompt, for every number of tasks, sessions,   *)
(* calls and steps.                                                        *)
(*                                                                         *)
(* PromptRun: the types, and the safety invariants its run checks.  The    *)
(* invariants about tokens need to know that no token is registered for    *)
(* two sessions (RegisteredOnce) and that only resume_session gets to a    *)
(* token that it did not create (LookupIsResume).                          *)
(*                                                                         *)
(* PromptLoop: the types, and the three invariants about the conversation  *)
(* a run leaves behind, whatever messages plugins put in the place of its  *)
(* answers.  They hold together with what is known inside a round: what    *)
(* the answer under construction looks like (Answering), of which message  *)
(* the calls are executed and which are through (Executing), and that      *)
(* every answer before this round is settled (Settled).                    *)
(***************************************************************************)
EXTENDS PromptRun, PromptLoop, SequenceTheorems, WellFoundedInduction, TLAPS

(***************************************************************************)
(*                               PromptRun                                 *)
(***************************************************************************)
\* start makes a token for one session, and resume registers none.
RegisteredOnce ==
    \A s, r \in Sessions : s # r /\ state[s] # NoToken => state[s] # state[r]

\* The only calls that look a token up are resume_session's.
LookupIsResume == \A t \in Tasks : pc[t] = "lookup" => kind[t] = "resume"

IInv ==
    /\ TypeOK
    /\ RegisteredOnce
    /\ LookupIsResume
    /\ RegisteredTokenIsLive
    /\ PromptsDoNotShareTokens

-----------------------------------------------------------------------------
\* Every call starts and goes on with values of the declared types, and a
\* run holds a token that start made.
THEOREM TypeCorrect == Spec => []TypeOK
<1> USE NoTaskAssumption, KindsAssumption
<1>1. Init => TypeOK
  BY DEF Init, TypeOK, NoToken, HoldsToken, PC, AllKinds, PromptKinds
<1>2. TypeOK /\ [Next]_vars => TypeOK'
  <2> SUFFICES ASSUME TypeOK, [Next]_vars PROVE TypeOK'
    OBVIOUS
  <2> USE DEF TypeOK, NoToken, HoldsToken, PC
  <2>1. ASSUME NEW t \in Tasks, Call(t) PROVE TypeOK'
    BY <2>1 DEF Call, Goto, AllKinds, PromptKinds
  <2>2. ASSUME NEW t \in Tasks, AssertNotBusy(t) PROVE TypeOK'
    BY <2>2 DEF AssertNotBusy, Return, Goto
  <2>3. ASSUME NEW t \in Tasks, StartCheck(t) PROVE TypeOK'
    BY <2>3 DEF StartCheck, Return, Goto
  <2>4. ASSUME NEW t \in Tasks, StartInsert(t) PROVE TypeOK'
    <3>1. issued' = issued + 1 /\ issued' \in Nat
      BY <2>4 DEF StartInsert
    <3>2. 0..issued \subseteq 0..issued' /\ 1..issued \subseteq 1..issued'
      BY <3>1
    <3>3. state' \in [Sessions -> 0..issued'] /\ tok' \in [Tasks -> 0..issued']
      BY <2>4, <3>1, <3>2 DEF StartInsert
    <3>4. cancelled' \subseteq 1..issued'
      BY <2>4, <3>2 DEF StartInsert
    <3>6. refused' \subseteq 1..issued'
      BY <2>4, <3>2 DEF StartInsert
    <3>5. \A u \in Tasks : pc'[u] \in HoldsToken => tok'[u] # NoToken
      BY <2>4, <3>1 DEF StartInsert, Goto
    <3> QED
      BY <2>4, <3>1, <3>3, <3>4, <3>5, <3>6 DEF StartInsert, Goto
  <2>5. ASSUME NEW t \in Tasks, CreateUserMessage(t) PROVE TypeOK'
    BY <2>5 DEF CreateUserMessage, Return, Goto
  <2>6. ASSUME NEW t \in Tasks, ResumeLookup(t) PROVE TypeOK'
    BY <2>6 DEF ResumeLookup, Return, Goto
  <2>7. ASSUME NEW t \in Tasks, SetBusy(t) PROVE TypeOK'
    BY <2>7 DEF SetBusy, Goto
  <2>8. ASSUME NEW t \in Tasks, LoopCancelled(t) PROVE TypeOK'
    BY <2>8 DEF LoopCancelled, Goto
  <2>9. ASSUME NEW t \in Tasks, LoopEnds(t) PROVE TypeOK'
    BY <2>9 DEF LoopEnds, Goto
  <2>10. ASSUME NEW t \in Tasks, FinishRemove(t) PROVE TypeOK'
    BY <2>10 DEF FinishRemove, Goto
  <2>11. ASSUME NEW t \in Tasks, FinishIdle(t) PROVE TypeOK'
    BY <2>11 DEF FinishIdle, Return, Goto
  <2>12. ASSUME NEW t \in Tasks, CancelRemove(t) PROVE TypeOK'
    <3>1. {state[sess[t]]} \ {NoToken} \subseteq 1..issued
      OBVIOUS
    <3>2. cancelled' \subseteq 1..issued' /\ UNCHANGED issued
      BY <2>12, <3>1 DEF CancelRemove
    <3>3. state' \in [Sessions -> 0..issued']
      BY <2>12 DEF CancelRemove
    <3>4. /\ pc' \in [Tasks -> PC]
          /\ \A u \in Tasks : pc'[u] \in HoldsToken => tok'[u] # NoToken
      BY <2>12 DEF CancelRemove, Goto
    <3>5. UNCHANGED <<begun, runStatus, kind, sess, tok, issued>> /\ stateLock' = t
      BY <2>12 DEF CancelRemove
    <3>6. refused' = refused
      BY <2>12 DEF CancelRemove
    <3> QED
      BY <3>2, <3>3, <3>4, <3>5, <3>6
  <2>13. ASSUME NEW t \in Tasks, CancelIdle(t) PROVE TypeOK'
    BY <2>13 DEF CancelIdle, Return, Goto
  <2>14. CASE UNCHANGED vars
    BY <2>14 DEF vars
  <2> QED
    BY <2>1, <2>2, <2>3, <2>4, <2>5, <2>6, <2>7, <2>8, <2>9, <2>10,
       <2>11, <2>12, <2>13, <2>14 DEF Next, Advance
<1> QED
  BY <1>1, <1>2, PTL DEF Spec

-----------------------------------------------------------------------------
\* The three facts about tokens, which hold together with the types.
LEMMA TokensInductive == TypeOK /\ TypeOK' /\ IInv /\ [Next]_vars => IInv'
<1> SUFFICES ASSUME TypeOK, TypeOK', IInv, [Next]_vars PROVE IInv'
  OBVIOUS
<1> USE NoTaskAssumption, KindsAssumption
<1> USE DEF IInv, RegisteredOnce, LookupIsResume, RegisteredTokenIsLive,
            PromptsDoNotShareTokens, TypeOK, NoToken, HoldsToken, PC
<1>1. ASSUME NEW t \in Tasks, Call(t) PROVE IInv'
  <2>1. UNCHANGED <<state, cancelled, tok, issued>>
    BY <1>1 DEF Call
  <2>2. pc'[t] = "lookup" => kind'[t] = "resume"
    BY <1>1 DEF Call, Goto, AllKinds, PromptKinds
  <2>3. pc'[t] \notin HoldsToken
    BY <1>1 DEF Call, Goto, AllKinds, PromptKinds
  <2>4. \A u \in Tasks : u # t => pc'[u] = pc[u] /\ kind'[u] = kind[u]
    BY <1>1 DEF Call, Goto
  <2>5. LookupIsResume'
    BY <2>2, <2>4
  <2>6. PromptsDoNotShareTokens'
    BY <2>1, <2>3, <2>4
  <2> QED
    BY <2>1, <2>5, <2>6
<1>2. ASSUME NEW t \in Tasks, AssertNotBusy(t) PROVE IInv'
  BY <1>2 DEF AssertNotBusy, Return, Goto
<1>3. ASSUME NEW t \in Tasks, StartCheck(t) PROVE IInv'
  BY <1>3 DEF StartCheck, Return, Goto
<1>4. ASSUME NEW t \in Tasks, StartInsert(t) PROVE IInv'
  <2>1. RegisteredOnce'
    BY <1>4 DEF StartInsert
  <2>2. RegisteredTokenIsLive'
    BY <1>4 DEF StartInsert
  <2>3. PromptsDoNotShareTokens'
    BY <1>4 DEF StartInsert, Goto
  <2>4. LookupIsResume'
    BY <1>4 DEF StartInsert, Goto
  <2> QED
    BY <2>1, <2>2, <2>3, <2>4
<1>5. ASSUME NEW t \in Tasks, CreateUserMessage(t) PROVE IInv'
  BY <1>5 DEF CreateUserMessage, Return, Goto
<1>6. ASSUME NEW t \in Tasks, ResumeLookup(t) PROVE IInv'
  <2>1. kind[t] = "resume" /\ kind' = kind
    BY <1>6 DEF ResumeLookup
  <2>2. \A u \in Tasks : u # t => pc'[u] = pc[u] /\ tok'[u] = tok[u]
    BY <1>6 DEF ResumeLookup, Return, Goto
  <2>3. PromptsDoNotShareTokens'
    BY <2>1, <2>2 DEF PromptKinds
  <2> QED
    BY <1>6, <2>3 DEF ResumeLookup, Return, Goto
<1>7. ASSUME NEW t \in Tasks, SetBusy(t) PROVE IInv'
  BY <1>7 DEF SetBusy, Goto
<1>8. ASSUME NEW t \in Tasks, LoopCancelled(t) PROVE IInv'
  BY <1>8 DEF LoopCancelled, Goto
<1>9. ASSUME NEW t \in Tasks, LoopEnds(t) PROVE IInv'
  BY <1>9 DEF LoopEnds, Goto
<1>10. ASSUME NEW t \in Tasks, FinishRemove(t) PROVE IInv'
  BY <1>10 DEF FinishRemove, Goto
<1>11. ASSUME NEW t \in Tasks, FinishIdle(t) PROVE IInv'
  BY <1>11 DEF FinishIdle, Return, Goto
<1>12. ASSUME NEW t \in Tasks, CancelRemove(t) PROVE IInv'
  BY <1>12 DEF CancelRemove, Goto
<1>13. ASSUME NEW t \in Tasks, CancelIdle(t) PROVE IInv'
  BY <1>13 DEF CancelIdle, Return, Goto
<1>14. CASE UNCHANGED vars
  BY <1>14 DEF vars
<1> QED
  BY <1>1, <1>2, <1>3, <1>4, <1>5, <1>6, <1>7, <1>8, <1>9, <1>10,
     <1>11, <1>12, <1>13, <1>14 DEF Next, Advance

LEMMA TokensInvariant == Spec => []IInv
<1>1. Init => IInv
  BY NoTaskAssumption, KindsAssumption
     DEF Init, IInv, TypeOK, RegisteredOnce, LookupIsResume,
         RegisteredTokenIsLive, PromptsDoNotShareTokens, NoToken,
         HoldsToken, PC, AllKinds, PromptKinds
<1>2. TypeOK /\ TypeOK' /\ IInv /\ [Next]_vars => IInv'
  BY TokensInductive
<1> QED
  BY <1>1, <1>2, TypeCorrect, PTL DEF Spec

\* No registered token was ever cancelled: resume_session cannot clone a dead
\* token, however cancels, starts and finishes overlap.
THEOREM RegisteredTokensAreLive == Spec => []RegisteredTokenIsLive
BY TokensInvariant, PTL DEF IInv

\* Two prompts under way never hold one token, so cancelling the one cannot
\* stop the other.
THEOREM PromptTokensDiffer == Spec => []PromptsDoNotShareTokens
BY TokensInvariant, PTL DEF IInv

-----------------------------------------------------------------------------
\* The run status is never left busy behind: whoever set it is still on the
\* way to its set_idle.
THEOREM BusyNeverSticks == Spec => []BusyHasARun
<1>1. Init => BusyHasARun
  BY DEF Init, BusyHasARun
<1>2. TypeOK /\ BusyHasARun /\ [Next]_vars => BusyHasARun'
  <2> SUFFICES ASSUME TypeOK, BusyHasARun, [Next]_vars PROVE BusyHasARun'
    OBVIOUS
  <2> DEFINE Owns(t, s) == sess[t] = s /\ pc[t] \in {"loop", "remove", "setIdle"}
  <2> SUFFICES ASSUME NEW s \in Sessions, runStatus'[s] = "busy"
               PROVE \E t \in Tasks : Owns(t, s)'
    BY DEF BusyHasARun
  <2> USE DEF TypeOK, PC
  <2>1. ASSUME NEW t \in Tasks, SetBusy(t), sess[t] = s
        PROVE \E u \in Tasks : Owns(u, s)'
    <3>1. Owns(t, s)'
      BY <2>1 DEF SetBusy, Goto
    <3> QED
      BY <3>1
  <2>2. ASSUME NEW t \in Tasks, SetBusy(t), sess[t] # s
        PROVE runStatus[s] = "busy" /\ \A u \in Tasks : Owns(u, s) => Owns(u, s)'
    BY <2>2 DEF SetBusy, Goto
  <2>3. ASSUME NEW t \in Tasks, FinishIdle(t)
        PROVE runStatus[s] = "busy" /\ \A u \in Tasks : Owns(u, s) => Owns(u, s)'
    BY <2>3 DEF FinishIdle, Return, Goto
  <2>4. ASSUME NEW t \in Tasks, CancelIdle(t)
        PROVE runStatus[s] = "busy" /\ \A u \in Tasks : Owns(u, s) => Owns(u, s)'
    BY <2>4 DEF CancelIdle, Return, Goto
  <2>5. ASSUME NEW t \in Tasks,
               \/ AssertNotBusy(t) \/ StartCheck(t) \/ StartInsert(t)
               \/ CreateUserMessage(t) \/ ResumeLookup(t) \/ Call(t)
               \/ CancelRemove(t)
        PROVE runStatus[s] = "busy" /\ \A u \in Tasks : Owns(u, s) => Owns(u, s)'
    BY <2>5 DEF AssertNotBusy, StartCheck, StartInsert, CreateUserMessage,
                ResumeLookup, Call, CancelRemove, Return, Goto
  <2>6. ASSUME NEW t \in Tasks,
               LoopCancelled(t) \/ LoopEnds(t) \/ FinishRemove(t)
        PROVE runStatus[s] = "busy" /\ \A u \in Tasks : Owns(u, s) => Owns(u, s)'
    BY <2>6 DEF LoopCancelled, LoopEnds, FinishRemove, Goto
  <2>7. CASE UNCHANGED vars
    BY <2>7 DEF BusyHasARun, vars
  <2> QED
    BY <2>1, <2>2, <2>3, <2>4, <2>5, <2>6, <2>7 DEF Next, Advance, BusyHasARun
<1> QED
  BY <1>1, <1>2, TypeCorrect, PTL DEF Spec

-----------------------------------------------------------------------------
\* No call leaves an entry behind that would keep later prompts out, except the
\* prompts that create_user_message refused: whoever gives a token up takes the
\* session's entry out in that step, its own or another's.
THEOREM EntriesAreOfRuns == Spec => []EntriesHaveRuns
<1>1. Init => EntriesHaveRuns
  BY DEF Init, EntriesHaveRuns, NoToken
<1>2. TypeOK /\ EntriesHaveRuns /\ [Next]_vars => EntriesHaveRuns'
  <2> SUFFICES ASSUME TypeOK, EntriesHaveRuns, [Next]_vars PROVE EntriesHaveRuns'
    OBVIOUS
  <2> DEFINE Holds(t, s) == sess[t] = s /\ pc[t] \in HoldsToken /\ tok[t] = state[s]
  <2> SUFFICES ASSUME NEW s \in Sessions, state'[s] \notin {NoToken} \cup refused'
               PROVE \E t \in Tasks : Holds(t, s)'
    BY DEF EntriesHaveRuns
  <2> USE DEF TypeOK, PC, HoldsToken, NoToken
  <2>1. ASSUME NEW t \in Tasks, StartInsert(t), sess[t] = s
        PROVE \E u \in Tasks : Holds(u, s)'
    <3>1. Holds(t, s)'
      BY <2>1 DEF StartInsert, Goto
    <3> QED
      BY <3>1
  <2>2. ASSUME \/ \E t \in Tasks : \/ Call(t) \/ AssertNotBusy(t) \/ StartCheck(t)
                                   \/ ResumeLookup(t) \/ SetBusy(t) \/ LoopCancelled(t)
                                   \/ LoopEnds(t) \/ FinishIdle(t) \/ CancelIdle(t)
                                   \/ StartInsert(t) /\ sess[t] # s
               \/ UNCHANGED vars
        PROVE  state[s] \notin {NoToken} \cup refused /\ \A u \in Tasks : Holds(u, s) => Holds(u, s)'
    BY <2>2 DEF Call, AssertNotBusy, StartCheck, ResumeLookup, SetBusy, LoopCancelled,
                LoopEnds, FinishIdle, CancelIdle, StartInsert, Return, Goto, vars
  <2>3. ASSUME NEW t \in Tasks, FinishRemove(t) \/ CancelRemove(t)
        PROVE  sess[t] # s /\ state[s] \notin {NoToken} \cup refused
               /\ \A u \in Tasks : Holds(u, s) => Holds(u, s)'
    BY <2>3 DEF FinishRemove, CancelRemove, Goto
  \* A refused prompt's token is among the refused, so it is not the one registered.
  <2>4. ASSUME NEW t \in Tasks, CreateUserMessage(t)
        PROVE  state[s] \notin {NoToken} \cup refused
               /\ \A u \in Tasks : Holds(u, s) => Holds(u, s)'
    BY <2>4 DEF CreateUserMessage, Return, Goto
  <2> QED
    BY <2>1, <2>2, <2>3, <2>4 DEF Next, Advance, EntriesHaveRuns
<1> QED
  BY <1>1, <1>2, TypeCorrect, PTL DEF Spec

(***************************************************************************)
(*                               PromptLoop                                *)
(***************************************************************************)
\* A message has a result behind it for each of its calls.
AnsweredBehind(i) ==
    \A c \in msgs[i].calls :
        \E j \in i..Len(msgs) : \E r \in msgs[j].results : r.call = c

\* Where the loop is, and what that says of its counters and its outcome.
Control ==
    /\ LoopTypeOK
    /\ Len(history) <= Len(msgs)
    /\ at \notin {"after", "returned"} => step <= MaxSteps
    /\ at = "subtasks" => \E i \in 1..Len(msgs) : IsUser(msgs[i])
    /\ outcome # "running" => at = "returned"

\* The answer under construction is a message of this run, without calls
\* until the stream is through.
Answering ==
    at \in {"stream", "finalize", "hook"} =>
        /\ Len(history) < Len(msgs)
        /\ at # "hook" => Last.calls = {}

OneEach(rs) == \A r, q \in rs : r.call = q.call => r = q

\* A round of tools: the calls of the last assistant message are those to do and
\* those that have a result, and none has two unless a plugin named it twice.
\* That message is the last one, or a plugin put another message behind it.
Executing ==
    at = "tools" =>
        LET a == LastWhere(msgs, IsAssistant) IN
        /\ \A r \in results : r.how # "aborted" /\ r.call \notin todo
        /\ a = 0 => todo = {} /\ results = {}
        /\ a # 0 => /\ msgs[a].calls = todo \cup {r.call : r \in results}
                    /\ a = Len(msgs) \/ Last.hooked
                    /\ msgs[a].hooked \/ OneEach(results)

\* Every answer of this run but the one whose calls are being executed.
Settled ==
    \A i \in Len(history) + 1..Len(msgs) :
        IsAssistant(msgs[i]) /\ (i < Len(msgs) \/ at \notin {"hook", "tools"})
            => AnsweredBehind(i)

Round == Answering /\ Executing

LoopIInv ==
    /\ Control
    /\ Round
    /\ ResultsFollowTheirCalls
    /\ Settled
    /\ CancelClosesOpenCalls

-----------------------------------------------------------------------------
(* Facts about LastWhere, FilterCompacted and growing conversations.       *)

LEMMA LargestExists ==
    ASSUME NEW n \in Nat, NEW H \in SUBSET (1..n), H # {}
    PROVE  \E i \in H : \A j \in H : j <= i
<1> DEFINE T == {n - i : i \in H}
           R == {p \in Nat \X Nat : p[1] < p[2]}
<1>1. IsWellFoundedOn(R, Nat)
  BY NatLessThanWellFounded DEF OpToRel
<1>2. T \subseteq Nat /\ T # {}
  <2>1. \A i \in H : n - i \in Nat
    OBVIOUS
  <2> QED
    BY <2>1
<1>3. \E x \in T : \A y \in T : <<y, x>> \notin R
  <2> HIDE DEF T, R
  <2> QED
    BY <1>1, <1>2, WFMin
<1>4. PICK h \in H : \A y \in T : <<y, n - h>> \notin R
  BY <1>3
<1>5. ASSUME NEW j \in H PROVE j <= h
  <2>1. n - j \in T /\ n - j \in Nat /\ n - h \in Nat
    OBVIOUS
  <2>2. ~(n - j < n - h)
    BY <1>4, <2>1
  <2> QED
    BY <2>2
<1> QED
  BY <1>5

\* Iterator::rposition finds the last user message, assistant message or
\* compaction, if there is one.
LEMMA LastUser ==
    ASSUME NEW s \in Seq(Messages)
    PROVE  LET u == LastWhere(s, IsUser) IN
           /\ u \in 0..Len(s)
           /\ u # 0 => IsUser(s[u])
           /\ u = 0 => \A i \in 1..Len(s) : ~IsUser(s[i])
<1> DEFINE hits == {i \in 1..Len(s) : IsUser(s[i])}
<1>0. Len(s) \in Nat
  OBVIOUS
<1>1. hits # {} => \E i \in hits : \A j \in hits : j <= i
  <2>1. hits \in SUBSET (1..Len(s)) /\ Len(s) \in Nat
    OBVIOUS
  <2> QED
    BY <2>1, LargestExists
<1>2. CASE hits = {}
  <2>1. LastWhere(s, IsUser) = 0
    BY <1>2 DEF LastWhere
  <2>2. 0 \in 0..Len(s) /\ \A i \in 1..Len(s) : ~IsUser(s[i])
    BY <1>0, <1>2
  <2> QED
    BY <2>1, <2>2, Zenon
<1>3. CASE hits # {}
  <2>1. LastWhere(s, IsUser) \in hits
    BY <1>1, <1>3 DEF LastWhere
  <2>2. \A x \in hits : x \in 0..Len(s) /\ x # 0 /\ IsUser(s[x])
    OBVIOUS
  <2> QED
    BY <2>1, <2>2, Zenon
<1> QED
  BY <1>2, <1>3

LEMMA LastAssistant ==
    ASSUME NEW s \in Seq(Messages)
    PROVE  LET a == LastWhere(s, IsAssistant) IN
           /\ a \in 0..Len(s)
           /\ a # 0 => IsAssistant(s[a])
           /\ \A i \in 1..Len(s) : IsAssistant(s[i]) => a # 0 /\ i <= a
<1> DEFINE hits == {i \in 1..Len(s) : IsAssistant(s[i])}
<1>0. Len(s) \in Nat
  OBVIOUS
<1>1. hits # {} => \E i \in hits : \A j \in hits : j <= i
  <2>1. hits \in SUBSET (1..Len(s)) /\ Len(s) \in Nat
    OBVIOUS
  <2> QED
    BY <2>1, LargestExists
<1>2. CASE hits = {}
  <2>1. LastWhere(s, IsAssistant) = 0
    BY <1>2 DEF LastWhere
  <2>2. 0 \in 0..Len(s) /\ \A i \in 1..Len(s) : ~IsAssistant(s[i])
    BY <1>0, <1>2
  <2> QED
    BY <2>1, <2>2, Zenon
<1>3. CASE hits # {}
  <2>1. /\ LastWhere(s, IsAssistant) \in hits
        /\ \A j \in hits : j <= LastWhere(s, IsAssistant)
    BY <1>1, <1>3 DEF LastWhere
  <2>2. \A x \in hits : x \in 0..Len(s) /\ x # 0 /\ IsAssistant(s[x])
    OBVIOUS
  <2>3. \A i \in 1..Len(s) : IsAssistant(s[i]) => i \in hits
    OBVIOUS
  <2> QED
    BY <2>1, <2>2, <2>3, Zenon
<1> QED
  BY <1>2, <1>3

LEMMA LastCompaction ==
    ASSUME NEW s \in Seq(Messages)
    PROVE  LastWhere(s, IsCompaction) \in 0..Len(s)
<1> DEFINE hits == {i \in 1..Len(s) : IsCompaction(s[i])}
<1>0. Len(s) \in Nat
  OBVIOUS
<1>1. hits # {} => \E i \in hits : \A j \in hits : j <= i
  <2>1. hits \in SUBSET (1..Len(s)) /\ Len(s) \in Nat
    OBVIOUS
  <2> QED
    BY <2>1, LargestExists
<1>2. hits = {} => LastWhere(s, IsCompaction) = 0
  BY DEF LastWhere
<1>3. hits # {} => LastWhere(s, IsCompaction) \in hits
  BY <1>1 DEF LastWhere
<1>4. 0 \in 0..Len(s) /\ hits \subseteq 0..Len(s)
  BY <1>0
<1> QED
  BY <1>2, <1>3, <1>4, Zenon

\* What filter_compacted_messages keeps are messages of the session.
LEMMA FilterCompactedKeeps ==
    ASSUME NEW s \in Seq(Messages)
    PROVE  LET kept == FilterCompacted(s) IN
           /\ kept \in Seq(Messages)
           /\ \A i \in 1..Len(kept) : \E j \in 1..Len(s) : kept[i] = s[j]
<1> DEFINE cut == LastWhere(s, IsCompaction)
<1>1. cut \in 0..Len(s)
  BY LastCompaction
<1>2. CASE cut = 0
  <2>1. FilterCompacted(s) = s
    BY <1>2 DEF FilterCompacted
  <2> QED
    BY <2>1
<1>3. CASE cut # 0
  <2> DEFINE kept == SubSeq(s, cut, Len(s))
  <2>1. FilterCompacted(s) = kept
    BY <1>3 DEF FilterCompacted
  <2> HIDE DEF cut
  <2>2. kept \in Seq(Messages) /\ Len(kept) = Len(s) - cut + 1
    BY <1>1, <1>3
  <2>3. \A i \in 1..Len(kept) : kept[i] = s[cut + i - 1]
    BY <1>1, <1>3, <2>2
  <2>4. \A i \in 1..Len(kept) : cut + i - 1 \in 1..Len(s)
    BY <1>1, <1>3, <2>2
  <2> QED
    BY <2>1, <2>2, <2>3, <2>4
<1> QED
  BY <1>2, <1>3

\* t goes on from s: the messages of s kept what Conversation speaks of.
Keeps(s, t) ==
    \A i \in 1..Len(s) : /\ t[i].role = s[i].role
                          /\ t[i].calls = s[i].calls
                          /\ t[i].hooked = s[i].hooked
                          /\ Executed(t[i]) = Executed(s[i])

\* What a round of tools left is still that when messages come behind it.
LEMMA RoundKept ==
    ASSUME NEW s \in Seq(Messages), NEW t \in Seq(Messages), NEW j \in 1..Len(s),
           NEW a \in 1..j - 1, ExecutesCallsOf(s, a, j),
           \A i \in 1..j : /\ t[i].role = s[i].role
                           /\ t[i].calls = s[i].calls
                           /\ t[i].hooked = s[i].hooked
                           /\ Executed(t[i]) = Executed(s[i])
    PROVE  ExecutesCallsOf(t, a, j)
<1>1. a \in 1..j /\ j - 1 \in 1..j /\ j \in 1..j /\ \A i \in a + 1..j - 1 : i \in 1..j
  OBVIOUS
<1>2. IsAssistant(t[a]) /\ \A i \in a + 1..j - 1 : ~IsAssistant(t[i])
  BY <1>1 DEF ExecutesCallsOf, IsAssistant
<1>3. a = j - 1 \/ t[j - 1].hooked
  <2>1. t[j - 1].hooked = s[j - 1].hooked
    BY <1>1, Zenon
  <2> QED
    BY <2>1, Zenon DEF ExecutesCallsOf
<1>4. t[a].calls = s[a].calls /\ t[a].hooked = s[a].hooked /\ Executed(t[j]) = Executed(s[j])
  BY <1>1, Zenon
<1> QED
  BY <1>2, <1>3, <1>4, Zenon DEF ExecutesCallsOf

\* A conversation stays one when messages without calls or results are added
\* and the others keep their calls and what was executed.
LEMMA GrownConversation ==
    ASSUME NEW s \in Seq(Messages), NEW t \in Seq(Messages),
           Conversation(s), Len(s) <= Len(t), Keeps(s, t),
           \A i \in Len(s) + 1..Len(t) : t[i].calls = {} /\ Executed(t[i]) = {}
    PROVE  Conversation(t)
<1>1. \A i \in 1..Len(t) : i \in 1..Len(s) \/ i \in Len(s) + 1..Len(t)
  OBVIOUS
<1>2. ASSUME NEW i \in 1..Len(t), t[i].calls # {} PROVE IsAssistant(t[i]) \/ t[i].hooked
  <2>1. i \in 1..Len(s)
    BY <1>1, <1>2
  <2>2. t[i].role = s[i].role /\ t[i].calls = s[i].calls /\ t[i].hooked = s[i].hooked
    BY <2>1, Zenon DEF Keeps
  <2> QED
    BY <1>2, <2>1, <2>2, Zenon DEF Conversation, IsAssistant
<1>3. ASSUME NEW j \in 1..Len(t), Executed(t[j]) # {}
      PROVE  t[j].hooked \/ \E a \in 1..j - 1 : ExecutesCallsOf(t, a, j)
  <2>1. j \in 1..Len(s)
    BY <1>1, <1>3
  <2>2. t[j].hooked = s[j].hooked /\ Executed(t[j]) = Executed(s[j])
    BY <2>1, Zenon DEF Keeps
  <2>3. CASE s[j].hooked
    BY <2>2, <2>3, Zenon
  <2>4. CASE \E a \in 1..j - 1 : ExecutesCallsOf(s, a, j)
    <3>1. PICK a \in 1..j - 1 : ExecutesCallsOf(s, a, j)
      BY <2>4
    <3>2. \A i \in 1..j : i \in 1..Len(s)
      BY <2>1
    <3>3. ExecutesCallsOf(t, a, j)
      BY <2>1, <3>1, <3>2, RoundKept DEF Keeps
    <3> QED
      BY <3>3
  <2> QED
    BY <1>3, <2>1, <2>2, <2>3, <2>4, Zenon DEF Conversation
<1> QED
  BY <1>2, <1>3, Zenon DEF Conversation

LEMMA Builders ==
    /\ \A b \in BOOLEAN :
          /\ Assistant(b) \in Messages /\ IsAssistant(Assistant(b))
          /\ Assistant(b).calls = {} /\ Assistant(b).results = {}
          /\ Assistant(b).hooked = FALSE
    /\ Compaction \in Messages
    /\ Compaction.calls = {} /\ Compaction.results = {}
BY DEF Assistant, Compaction, Messages, IsAssistant

\* A message may replace the last one, or come behind it.
LEMMA MessagesIn ==
    ASSUME NEW s \in Seq(Messages), NEW m \in Messages
    PROVE  /\ s \o <<m>> \in Seq(Messages)
           /\ Len(s \o <<m>>) = Len(s) + 1
           /\ (s \o <<m>>)[Len(s) + 1] = m
           /\ \A i \in 1..Len(s) : (s \o <<m>>)[i] = s[i]
           /\ \A k \in 1..Len(s) :
                 /\ [s EXCEPT ![k] = m] \in Seq(Messages)
                 /\ Len([s EXCEPT ![k] = m]) = Len(s)
                 /\ [s EXCEPT ![k] = m][k] = m
                 /\ \A i \in 1..Len(s) : i # k => [s EXCEPT ![k] = m][i] = s[i]
OBVIOUS

Marked(s, u) == [s EXCEPT ![u].subtasks = 0]
Copies(n, m) == [i \in 1..n |-> m]

\* What the executed subtasks leave: the same messages, none of them pending
\* at u, and an answer without calls for each.
LEMMA SubtasksLeave ==
    ASSUME NEW s \in Seq(Messages), NEW u \in 1..Len(s), NEW n \in Nat,
           NEW m \in Messages
    PROVE  LET t == Marked(s, u) \o Copies(n, m) IN
           /\ t \in Seq(Messages)
           /\ Len(t) = Len(s) + n
           /\ \A i \in 1..Len(s) : /\ t[i].role = s[i].role
                                   /\ t[i].calls = s[i].calls
                                   /\ t[i].hooked = s[i].hooked
                                   /\ t[i].results = s[i].results
           /\ \A i \in Len(s) + 1..Len(t) : t[i] = m
<1> DEFINE marked == Marked(s, u)
           answers == Copies(n, m)
           t == marked \o answers
<1>1. [s[u] EXCEPT !.subtasks = 0] \in Messages
  <2>1. s[u] \in Messages
    OBVIOUS
  <2> QED
    BY <2>1 DEF Messages
<1>2. marked = [s EXCEPT ![u] = [s[u] EXCEPT !.subtasks = 0]]
  BY DEF Marked
<1>3. marked \in Seq(Messages) /\ Len(marked) = Len(s)
  BY <1>1, <1>2
<1>4. answers \in Seq(Messages) /\ Len(answers) = n
  BY DEF Copies
<1>5. \A i \in 1..Len(s) : /\ marked[i].role = s[i].role
                           /\ marked[i].calls = s[i].calls
                           /\ marked[i].hooked = s[i].hooked
                           /\ marked[i].results = s[i].results
  BY DEF Messages, Marked
<1>6. \A i \in 1..n : answers[i] = m
  BY DEF Copies
<1> HIDE DEF marked, answers
<1>7. /\ t \in Seq(Messages) /\ Len(t) = Len(marked) + Len(answers)
      /\ \A i \in 1..Len(marked) + Len(answers) :
            t[i] = IF i <= Len(marked) THEN marked[i] ELSE answers[i - Len(marked)]
  BY <1>3, <1>4, ConcatProperties, Zenon
<1> HIDE DEF t
<1>8. Len(s) \in Nat /\ Len(t) = Len(s) + n
  BY <1>3, <1>4, <1>7
<1>9. \A i \in 1..Len(s) : t[i] = marked[i]
  BY <1>3, <1>4, <1>7, <1>8
<1>10. ASSUME NEW i \in Len(s) + 1..Len(t) PROVE t[i] = m
  <2>1. t[i] = answers[i - Len(s)] /\ i - Len(s) \in 1..n
    BY <1>3, <1>4, <1>7, <1>8
  <2> QED
    BY <1>6, <2>1
<1>11. /\ t \in Seq(Messages) /\ Len(t) = Len(s) + n
       /\ \A i \in 1..Len(s) : /\ t[i].role = s[i].role
                               /\ t[i].calls = s[i].calls
                               /\ t[i].hooked = s[i].hooked
                               /\ t[i].results = s[i].results
       /\ \A i \in Len(s) + 1..Len(t) : t[i] = m
  BY <1>5, <1>7, <1>8, <1>9, <1>10
<1> QED
  BY <1>11, Zenon DEF t, marked, answers

LEMMA SubtasksGrow ==
    ASSUME msgs \in Seq(Messages), \E i \in 1..Len(msgs) : IsUser(msgs[i]), Subtasks
    PROVE  /\ msgs' \in Seq(Messages)
           /\ Len(msgs) <= Len(msgs')
           /\ \A i \in 1..Len(msgs) : /\ msgs'[i].role = msgs[i].role
                                      /\ msgs'[i].calls = msgs[i].calls
                                      /\ msgs'[i].hooked = msgs[i].hooked
                                      /\ msgs'[i].results = msgs[i].results
           /\ \A i \in Len(msgs) + 1..Len(msgs') :
                 msgs'[i].calls = {} /\ msgs'[i].results = {}
<1> DEFINE u == LastWhere(msgs, IsUser)
           n == msgs[u].subtasks
           m == Assistant(TRUE)
<1>1. u \in 1..Len(msgs)
  <2>1. /\ u \in 0..Len(msgs)
        /\ u = 0 => \A i \in 1..Len(msgs) : ~IsUser(msgs[i])
    BY LastUser
  <2> HIDE DEF u
  <2> QED
    BY <2>1
<1>2. /\ n \in Nat
      /\ m \in Messages /\ m.calls = {} /\ m.results = {}
  <2> HIDE DEF u
  <2>1. msgs[u] \in Messages
    BY <1>1
  <2> QED
    BY <2>1, Builders DEF Messages
<1>3. msgs' = msgs \/ msgs' = Marked(msgs, u) \o Copies(n, m)
  BY Zenon DEF Subtasks, Marked, Copies
<1> HIDE DEF u, n, m
<1>4. CASE msgs' = msgs
  BY <1>4
<1>5. CASE msgs' = Marked(msgs, u) \o Copies(n, m)
  <2>1. /\ msgs' \in Seq(Messages)
        /\ Len(msgs') = Len(msgs) + n
        /\ \A i \in 1..Len(msgs) : /\ msgs'[i].role = msgs[i].role
                                   /\ msgs'[i].calls = msgs[i].calls
                                   /\ msgs'[i].hooked = msgs[i].hooked
                                   /\ msgs'[i].results = msgs[i].results
        /\ \A i \in Len(msgs) + 1..Len(msgs') : msgs'[i] = m
    <3> DEFINE t == Marked(msgs, u) \o Copies(n, m)
    <3>1. /\ t \in Seq(Messages)
          /\ Len(t) = Len(msgs) + n
          /\ \A i \in 1..Len(msgs) : /\ t[i].role = msgs[i].role
                                     /\ t[i].calls = msgs[i].calls
                                     /\ t[i].hooked = msgs[i].hooked
                                     /\ t[i].results = msgs[i].results
          /\ \A i \in Len(msgs) + 1..Len(t) : t[i] = m
      <4>1. u \in 1..Len(msgs) /\ n \in Nat /\ m \in Messages
        BY <1>1, <1>2
      <4> HIDE DEF t
      <4> QED
        BY <4>1, SubtasksLeave, Zenon DEF t
    <3> QED
      BY <1>5, <3>1
  <2> QED
    BY <1>2, <2>1
<1> QED
  BY <1>3, <1>4, <1>5

\* abort_pending_tool_calls adds results to one message, and changes nothing else.
LEMMA AbortAdds ==
    ASSUME NEW s \in Seq(Messages)
    PROVE  LET t == AbortPending(s) IN
           /\ t \in Seq(Messages)
           /\ Len(t) = Len(s)
           /\ \A i \in 1..Len(s) : /\ t[i].role = s[i].role
                                   /\ t[i].calls = s[i].calls
                                   /\ t[i].hooked = s[i].hooked
                                   /\ s[i].results \subseteq t[i].results
                                   /\ Executed(t[i]) = Executed(s[i])
<1> DEFINE a == LastWhere(s, IsAssistant)
           aborted == {[call |-> c, how |-> "aborted"] : c \in Called(s) \ Answered(s)}
           m == [s[a] EXCEPT !.results = @ \cup aborted]
           t == AbortPending(s)
<1>1. a \in 0..Len(s)
  BY LastAssistant
<1>2. CASE a = 0
  BY <1>2 DEF AbortPending
<1>3. CASE a # 0
  <2>1. a \in 1..Len(s) /\ s[a] \in Messages
    BY <1>1, <1>3
  <2>2. Called(s) \subseteq CallIds
    <3>1. \A i \in 1..Len(s) : s[i].calls \subseteq CallIds
      <4>1. \A i \in 1..Len(s) : s[i] \in Messages
        OBVIOUS
      <4> QED
        BY <4>1 DEF Messages
    <3> QED
      BY <3>1 DEF Called
  <2>3. aborted \subseteq Results
    BY <2>2 DEF Results
  <2>4. /\ m \in Messages
        /\ m.role = s[a].role
        /\ m.calls = s[a].calls
        /\ m.hooked = s[a].hooked
        /\ m.results = s[a].results \cup aborted
    BY <2>1, <2>3 DEF Messages
  <2>5. Executed(m) = Executed(s[a])
    BY <2>4 DEF Executed
  <2>6. t = [s EXCEPT ![a] = m]
    BY <1>3 DEF AbortPending
  <2> HIDE DEF a, m, t
  <2>7. /\ t \in Seq(Messages) /\ Len(t) = Len(s) /\ t[a] = m
        /\ \A i \in 1..Len(s) : i # a => t[i] = s[i]
    BY <2>1, <2>4, <2>6, MessagesIn
  <2>8. \A i \in 1..Len(s) : /\ t[i].role = s[i].role
                             /\ t[i].calls = s[i].calls
                             /\ t[i].hooked = s[i].hooked
                             /\ s[i].results \subseteq t[i].results
                             /\ Executed(t[i]) = Executed(s[i])
    BY <2>4, <2>5, <2>7
  <2> QED
    BY <2>7, <2>8 DEF t
<1> QED
  BY <1>1, <1>2, <1>3

-----------------------------------------------------------------------------
LEMMA HistoriesAreConversations ==
    history \in Histories =>
        history \in Seq(Messages) /\ Len(history) \in Nat /\ Conversation(history)
BY HistoriesAssumption

LEMMA LoopStarts == LoopInit => LoopIInv
<1> SUFFICES ASSUME LoopInit PROVE LoopIInv
  OBVIOUS
<1>1. history \in Seq(Messages) /\ Len(history) \in Nat /\ Conversation(history)
  BY HistoriesAreConversations DEF LoopInit
<1>2. Control
  <2>1. LoopTypeOK
    <3>1. tokenCancelled \in BOOLEAN
      BY Zenon DEF LoopInit
    <3> QED
      BY <1>1, <3>1, MaxStepsAssumption
         DEF LoopInit, LoopTypeOK, Points, FinishReasons
  <2> QED
    BY <1>1, <2>1, MaxStepsAssumption DEF LoopInit, Control
<1>3. Round
  BY DEF LoopInit, Round, Answering, Executing
<1>4. Settled
  BY <1>1 DEF LoopInit, Settled
<1> QED
  BY <1>1, <1>2, <1>3, <1>4
     DEF LoopInit, LoopIInv, ResultsFollowTheirCalls, CancelClosesOpenCalls

\* The calls of one message of the session, or none.
LEMMA CallsAreIds ==
    ASSUME NEW s \in Seq(Messages)
    PROVE  CallsToExecute(s) \subseteq CallIds
<1> DEFINE a == LastWhere(s, IsAssistant)
<1>0. Len(s) \in Nat
  OBVIOUS
<1>1. a \in 0..Len(s)
  BY LastAssistant
<1>2. CallsToExecute(s) = IF a = 0 THEN {} ELSE s[a].calls
  BY DEF CallsToExecute
<1> HIDE DEF a
<1>3. ASSUME a # 0 PROVE s[a].calls \subseteq CallIds
  <2>1. a \in 1..Len(s)
    BY <1>0, <1>1, <1>3
  <2>2. s[a] \in Messages
    BY <2>1
  <2> QED
    BY <2>2 DEF Messages
<1> QED
  BY <1>2, <1>3

LEMMA ExecutionsEnd ==
    ASSUME NEW m, NEW hows \in ExecutionsOf(m)
    PROVE  /\ hows \in SUBSET {"done", "failed"} /\ hows # {}
           /\ m.hooked \/ \A h, k \in hows : h = k
BY DEF ExecutionsOf

\* A message may be put in the place of the last one, by a plugin or as an answer
\* without executed results.
LEMMA LastReplaced ==
    ASSUME NEW s \in Seq(Messages), NEW m \in Messages, Len(s) > 0,
           m.hooked \/ (IsAssistant(m) /\ Executed(m) = {})
    PROVE  LET t == [s EXCEPT ![Len(s)] = m] IN
           /\ t \in Seq(Messages)
           /\ Len(t) = Len(s)
           /\ t[Len(s)] = m
           /\ \A i \in 1..Len(s) : i # Len(s) => t[i] = s[i]
           /\ Conversation(s) => Conversation(t)
<1> DEFINE n == Len(s)
           t == [s EXCEPT ![n] = m]
<1>1. /\ n \in 1..n
      /\ t \in Seq(Messages) /\ Len(t) = n /\ t[n] = m
      /\ \A i \in 1..n : i # n => t[i] = s[i]
  BY MessagesIn
<1> HIDE DEF t
<1>2. ASSUME Conversation(s) PROVE Conversation(t)
  <2>1. ASSUME NEW i \in 1..n, t[i].calls # {} PROVE IsAssistant(t[i]) \/ t[i].hooked
    <3>1. CASE i = n
      BY <1>1, <3>1
    <3>2. CASE i # n
      BY <1>1, <1>2, <2>1, <3>2, Zenon DEF Conversation
    <3> QED
      BY <3>1, <3>2
  <2>2. ASSUME NEW j \in 1..n, Executed(t[j]) # {}
        PROVE  t[j].hooked \/ \E a \in 1..j - 1 : ExecutesCallsOf(t, a, j)
    <3>1. CASE j = n
      BY <1>1, <2>2, <3>1
    <3>2. CASE j # n
      <4>1. \A i \in 1..j : t[i] = s[i]
        <5>1. n \in Nat /\ \A i \in 1..j : i \in 1..n /\ i # n
          BY <3>2
        <5> QED
          BY <1>1, <5>1
      <4>2. t[j] = s[j]
        BY <4>1
      <4>3. s[j].hooked \/ \E a \in 1..j - 1 : ExecutesCallsOf(s, a, j)
        BY <1>2, <2>2, <4>2, Zenon DEF Conversation
      <4>4. ASSUME NEW a \in 1..j - 1, ExecutesCallsOf(s, a, j)
            PROVE  ExecutesCallsOf(t, a, j)
        BY <1>1, <4>1, <4>4, RoundKept
      <4> QED
        BY <4>2, <4>3, <4>4
    <3> QED
      BY <3>1, <3>2
  <2> QED
    BY <1>1, <2>1, <2>2, Zenon DEF Conversation
<1> QED
  BY <1>1, <1>2, Zenon DEF t

\* The hook leaves the answer as it is or puts a plugin's message in its place.
LEMMA HookReplaces ==
    ASSUME LoopTypeOK, ChatMessageHook
    PROVE  /\ msgs' \in Seq(Messages)
           /\ Len(msgs') = Len(msgs) /\ Len(msgs) > 0
           /\ \A i \in 1..Len(msgs) : i # Len(msgs) => msgs'[i] = msgs[i]
           /\ Last'.hooked \/ IsAssistant(Last')
           /\ at' = "tools" => todo' = CallsToExecute(msgs') /\ results' = {}
           /\ at' \notin {"hook", "tools"} => Last'.calls = {}
           /\ at' \in {"tools", "top", "after"}
           /\ Conversation(msgs) => Conversation(msgs')
<1>0. /\ msgs \in Seq(Messages) /\ Len(msgs) \in Nat /\ Len(msgs) > 0
      /\ IsAssistant(Last) /\ Last.results = {} /\ Last = msgs[Len(msgs)]
  BY DEF ChatMessageHook, LoopTypeOK, Last
<1>1. PICK m \in HookOutcomes :
          /\ UpdateLast(m)
          /\ \/ /\ m.calls # {}
                /\ at' = "tools"
                /\ todo' = CallsToExecute(msgs')
             \/ /\ m.calls = {}
                /\ at' = IF finish = "tool-calls" THEN "top" ELSE "after"
                /\ todo' = {}
  BY DEF ChatMessageHook
<1>2. m \in Messages /\ (m.hooked \/ (IsAssistant(m) /\ Executed(m) = {}))
  <2>1. CASE m = Last
    <3>1. Last \in Messages
      BY <1>0
    <3> QED
      BY <1>0, <2>1, <3>1 DEF Executed
  <2>2. ASSUME NEW r \in Rewritten, m = [r EXCEPT !.hooked = TRUE]
        PROVE  m \in Messages /\ m.hooked
    <3>1. r \in Messages
      BY RewrittenAssumption
    <3> QED
      BY <2>2, <3>1 DEF Messages
  <2> QED
    BY <2>1, <2>2 DEF HookOutcomes
<1> DEFINE t == [msgs EXCEPT ![Len(msgs)] = m]
<1>3. msgs' = t
  BY <1>1 DEF UpdateLast
<1>4. /\ msgs' \in Seq(Messages) /\ Len(msgs') = Len(msgs) /\ msgs'[Len(msgs)] = m
      /\ \A i \in 1..Len(msgs) : i # Len(msgs) => msgs'[i] = msgs[i]
      /\ Conversation(msgs) => Conversation(msgs')
  <2>1. /\ t \in Seq(Messages) /\ Len(t) = Len(msgs) /\ t[Len(msgs)] = m
        /\ \A i \in 1..Len(msgs) : i # Len(msgs) => t[i] = msgs[i]
        /\ Conversation(msgs) => Conversation(t)
    BY <1>0, <1>2, LastReplaced
  <2> HIDE DEF t
  <2> QED
    BY <1>3, <2>1
<1>5. Last' = m
  BY <1>4 DEF Last
<1>6. results' = {}
  BY DEF ChatMessageHook
<1> QED
  BY <1>0, <1>1, <1>2, <1>4, <1>5, <1>6

\* The loop stays where the counters and the types allow it to be.
LEMMA ControlInductive == Control /\ [LoopNext]_loopVars => Control'
<1> SUFFICES ASSUME Control, [LoopNext]_loopVars PROVE Control'
  OBVIOUS
<1> USE MaxStepsAssumption DEF Control, LoopTypeOK, Points, FinishReasons
<1>0. /\ Len(msgs) \in Nat /\ history \in Seq(Messages) /\ Len(history) \in Nat
      /\ at \in {"stream", "finalize", "hook"} =>
            Len(msgs) \in 1..Len(msgs) /\ Last \in Messages
  BY HistoriesAreConversations DEF Last
<1>1. ASSUME Cancel PROVE Control'
  BY <1>1 DEF Cancel, Last
<1>2. ASSUME Top PROVE Control'
  <2>1. LastWhere(FilterCompacted(msgs), IsUser) # 0 =>
            \E i \in 1..Len(msgs) : IsUser(msgs[i])
    <3> DEFINE kept == FilterCompacted(msgs)
    <3>1. /\ kept \in Seq(Messages)
          /\ \A i \in 1..Len(kept) : \E j \in 1..Len(msgs) : kept[i] = msgs[j]
      BY FilterCompactedKeeps
    <3> HIDE DEF kept
    <3> DEFINE u == LastWhere(kept, IsUser)
    <3>2. u \in 0..Len(kept) /\ (u # 0 => IsUser(kept[u]))
      BY <3>1, LastUser
    <3> HIDE DEF u
    <3>3. u # 0 => \E i \in 1..Len(msgs) : IsUser(msgs[i])
      BY <3>1, <3>2
    <3> QED
      BY <3>3 DEF u, kept
  <2> QED
    BY <1>2, <2>1 DEF Top, Fail
<1>3. ASSUME Subtasks PROVE Control'
  <2>1. msgs' \in Seq(Messages) /\ Len(msgs) <= Len(msgs')
    BY <1>3, SubtasksGrow DEF Subtasks
  <2>2. at' \in {"top", "step"}
    BY <1>3 DEF Subtasks
  <2> QED
    BY <1>0, <1>3, <2>1, <2>2 DEF Subtasks
<1>4. ASSUME Step PROVE Control'
  <2>1. /\ msgs' \in Seq(Messages)
        /\ Len(msgs) <= Len(msgs')
        /\ at' \in {"after", "connect"}
    <3>1. CASE msgs' = msgs
      BY <1>4, <3>1 DEF Step
    <3>2. CASE msgs' = msgs \o <<Compaction>>
      <4>1. Compaction \in Messages
        BY Builders
      <4>2. msgs' \in Seq(Messages) /\ Len(msgs') = Len(msgs) + 1
        BY <3>2, <4>1
      <4> QED
        BY <1>4, <4>2 DEF Step
    <3> QED
      BY <1>4, <3>1, <3>2 DEF Step, AppendMessages
  <2>2. step' \in 0..MaxSteps + 1 /\ (at' = "connect" => step' <= MaxSteps)
    BY <1>4 DEF Step
  <2> QED
    BY <1>0, <1>4, <2>1, <2>2 DEF Step
<1>5. ASSUME Connect PROVE Control'
  <2>1. /\ Assistant(FALSE) \in Messages /\ IsAssistant(Assistant(FALSE))
        /\ Assistant(FALSE).results = {}
    BY Builders
  <2>2. /\ msgs' \in Seq(Messages) /\ Len(msgs') = Len(msgs) + 1
        /\ msgs'[Len(msgs) + 1] = Assistant(FALSE)
    BY <1>5, <2>1, MessagesIn DEF Connect, AppendMessages
  <2>3. Last' = Assistant(FALSE)
    BY <2>2 DEF Last
  <2>4. assembled' \subseteq CallIds
    BY <1>5, Zenon DEF Connect
  <2>5. IsAssistant(Last)' /\ (Last.results)' = {}
    BY <2>1, <2>3 DEF IsAssistant
  <2> QED
    BY <1>0, <1>5, <2>2, <2>4, <2>5 DEF Connect
<1>6. ASSUME ConnectFails PROVE Control'
  BY <1>6 DEF ConnectFails, Fail
<1>7. ASSUME StreamCancelled PROVE Control'
  BY <1>7 DEF StreamCancelled, Last
<1>8. ASSUME StreamEvent PROVE Control'
  <2>1. UNCHANGED <<history, at, tokenCancelled, step, todo, results, outcome>>
        /\ at = "stream"
    BY <1>8 DEF StreamEvent
  <2>2. CASE msgs' = msgs
    <3>1. Last' = Last
      BY <2>2 DEF Last
    <3>2. assembled' \subseteq CallIds /\ finish' \in FinishReasons
      BY <1>8 DEF StreamEvent
    <3> QED
      BY <2>1, <2>2, <3>1, <3>2
  <2>3. CASE UpdateLast([Last EXCEPT !.text = TRUE]) /\ UNCHANGED <<assembled, finish>>
    <3> DEFINE m == [Last EXCEPT !.text = TRUE]
    <3>1. m \in Messages /\ m.results = Last.results /\ m.role = Last.role
      BY <1>0, <2>1 DEF Messages
    <3> HIDE DEF m
    <3>2. msgs' \in Seq(Messages) /\ Len(msgs') = Len(msgs) /\ msgs'[Len(msgs)] = m
      BY <1>0, <2>1, <2>3, <3>1, MessagesIn DEF UpdateLast, m
    <3>3. Last' = m
      BY <3>2 DEF Last
    <3> QED
      BY <2>1, <2>3, <3>1, <3>2, <3>3 DEF IsAssistant
  <2> QED
    BY <1>8, <2>2, <2>3 DEF StreamEvent
<1>9. ASSUME StreamEnds PROVE Control'
  BY <1>9 DEF StreamEnds, Last
<1>10. ASSUME StreamFails PROVE Control'
  BY <1>10 DEF StreamFails, Fail
<1>11. ASSUME Finalize PROVE Control'
  <2> DEFINE m == [Last EXCEPT !.calls = assembled]
  <2>1. m \in Messages /\ m.results = Last.results /\ m.role = Last.role
    BY <1>0, <1>11 DEF Messages, Finalize
  <2> HIDE DEF m
  <2>2. msgs' \in Seq(Messages) /\ Len(msgs') = Len(msgs) /\ msgs'[Len(msgs)] = m
    BY <1>0, <1>11, <2>1, MessagesIn DEF Finalize, UpdateLast, m
  <2>3. Last' = m
    BY <2>2 DEF Last
  <2> QED
    BY <1>11, <2>1, <2>2, <2>3 DEF Finalize, IsAssistant
<1>12. ASSUME ChatMessageHook PROVE Control'
  <2>1. msgs' \in Seq(Messages) /\ Len(msgs') = Len(msgs)
    BY <1>12, HookReplaces
  <2>2. CallsToExecute(msgs') \subseteq CallIds
    BY <2>1, CallsAreIds
  <2>3. todo' \subseteq CallIds /\ at' \in {"tools", "top", "after"}
    BY <1>12, <2>2 DEF ChatMessageHook
  <2> QED
    BY <1>0, <1>12, <2>1, <2>3 DEF ChatMessageHook
<1>13. ASSUME ExecuteTool PROVE Control'
  <2>1. PICK c \in todo :
            \E hows \in ExecutionsOf(msgs[LastWhere(msgs, IsAssistant)]) :
                /\ todo' = todo \ {c}
                /\ results' = results \cup {[call |-> c, how |-> h] : h \in hows}
    BY <1>13 DEF ExecuteTool
  <2>2. PICK hows \in ExecutionsOf(msgs[LastWhere(msgs, IsAssistant)]) :
            /\ todo' = todo \ {c}
            /\ results' = results \cup {[call |-> c, how |-> h] : h \in hows}
    BY <2>1
  <2>3. \A h \in hows : h \in {"done", "failed"}
    BY ExecutionsEnd
  <2>4. {[call |-> c, how |-> h] : h \in hows} \subseteq Results
    BY <2>3 DEF Results
  <2>5. results' \subseteq Results /\ todo' \subseteq CallIds
    BY <2>2, <2>4
  <2> QED
    BY <1>13, <2>5 DEF ExecuteTool
<1>14. ASSUME PushResults PROVE Control'
  <2> DEFINE m == [Assistant(FALSE) EXCEPT !.results = results]
  <2>1. m \in Messages
    BY DEF Assistant, Messages
  <2>2. msgs' = msgs \/ msgs' = msgs \o <<m>>
    BY <1>14 DEF PushResults, AppendMessages
  <2> HIDE DEF m
  <2>3. msgs' \in Seq(Messages) /\ Len(msgs) <= Len(msgs')
    BY <1>0, <2>1, <2>2, MessagesIn
  <2> QED
    BY <1>0, <1>14, <2>3 DEF PushResults
<1>15. ASSUME After PROVE Control'
  <2>1. msgs' \in Seq(Messages) /\ Len(msgs') = Len(msgs)
    BY <1>15, AbortAdds DEF After
  <2> QED
    BY <1>15, <2>1 DEF After
<1>16. CASE UNCHANGED loopVars
  BY <1>16 DEF loopVars, Last
<1> QED
  BY <1>1, <1>2, <1>3, <1>4, <1>5, <1>6, <1>7, <1>8, <1>9, <1>10, <1>11, <1>12,
     <1>13, <1>14, <1>15, <1>16 DEF LoopNext, Own, Provider

-----------------------------------------------------------------------------
\* What a step that only lets the conversation grow looks like.
Grows ==
    /\ msgs' \in Seq(Messages)
    /\ Len(msgs) <= Len(msgs')
    /\ \A i \in 1..Len(msgs) : /\ msgs'[i].role = msgs[i].role
                               /\ msgs'[i].calls = msgs[i].calls
                               /\ msgs'[i].hooked = msgs[i].hooked
                               /\ msgs[i].results \subseteq msgs'[i].results
                               /\ Executed(msgs'[i]) = Executed(msgs[i])
    /\ \A i \in Len(msgs) + 1..Len(msgs') :
          msgs'[i].calls = {} /\ msgs'[i].results = {}

\* All steps but those of a round of tools (and the hook before it) let the
\* conversation grow.
LEMMA StepsGrow ==
    ASSUME Control, Top \/ Subtasks \/ Step \/ Connect \/ ConnectFails
                    \/ StreamCancelled \/ StreamEvent \/ StreamEnds \/ StreamFails
                    \/ After
    PROVE  Grows /\ at \notin {"hook", "tools"}
<1>0. msgs \in Seq(Messages) /\ Len(msgs) \in Nat
  BY DEF Control, LoopTypeOK
<1>1. ASSUME msgs' = msgs PROVE Grows
  BY <1>0, <1>1 DEF Grows
<1>2. ASSUME NEW m \in Messages, m.calls = {}, m.results = {}, msgs' = msgs \o <<m>>
      PROVE  Grows
  <2>1. /\ msgs' \in Seq(Messages) /\ Len(msgs') = Len(msgs) + 1
        /\ msgs'[Len(msgs) + 1] = m
        /\ \A i \in 1..Len(msgs) : msgs'[i] = msgs[i]
    BY <1>0, <1>2, MessagesIn
  <2> QED
    BY <1>0, <1>2, <2>1 DEF Grows
<1>3. CASE Top \/ ConnectFails \/ StreamCancelled \/ StreamEnds \/ StreamFails
  BY <1>1, <1>3 DEF Top, ConnectFails, StreamCancelled, StreamEnds, StreamFails
<1>4. CASE Subtasks
  <2>1. \E i \in 1..Len(msgs) : IsUser(msgs[i])
    BY <1>4 DEF Subtasks, Control
  <2>2. Grows
    BY <1>0, <1>4, <2>1, SubtasksGrow DEF Grows, Executed
  <2> QED
    BY <1>4, <2>2 DEF Subtasks
<1>5. CASE Step
  <2>1. Compaction \in Messages /\ Compaction.calls = {} /\ Compaction.results = {}
    BY Builders
  <2>2. msgs' = msgs \/ msgs' = msgs \o <<Compaction>>
    BY <1>5 DEF Step, AppendMessages
  <2>3. Grows
    BY <1>1, <1>2, <2>1, <2>2
  <2> QED
    BY <1>5, <2>3 DEF Step
<1>6. CASE Connect
  <2> DEFINE m == Assistant(FALSE)
  <2>1. m \in Messages /\ m.calls = {} /\ m.results = {}
    BY Builders
  <2>2. msgs' = msgs \o <<m>> /\ at = "connect"
    BY <1>6 DEF Connect, AppendMessages
  <2> HIDE DEF m
  <2> QED
    BY <1>2, <2>1, <2>2
<1>7. CASE StreamEvent
  <2>1. CASE msgs' = msgs
    BY <1>1, <1>7, <2>1 DEF StreamEvent
  <2>2. CASE UpdateLast([Last EXCEPT !.text = TRUE])
    <3> DEFINE n == Len(msgs)
               m == [Last EXCEPT !.text = TRUE]
    <3>1. n \in 1..Len(msgs) /\ msgs[n] = Last /\ Last \in Messages
      BY <1>0, <1>7 DEF StreamEvent, Control, LoopTypeOK, Last
    <3>2. /\ m \in Messages /\ m.role = Last.role /\ m.calls = Last.calls
          /\ m.hooked = Last.hooked /\ m.results = Last.results
      BY <3>1 DEF Messages
    <3> HIDE DEF m
    <3>3. /\ msgs' \in Seq(Messages) /\ Len(msgs') = n /\ msgs'[n] = m
          /\ \A i \in 1..n : i # n => msgs'[i] = msgs[i]
      BY <1>0, <2>2, <3>1, <3>2, MessagesIn DEF UpdateLast, m
    <3>4. Executed(m) = Executed(Last)
      BY <3>2 DEF Executed
    <3>5. Grows
      BY <1>0, <3>1, <3>2, <3>3, <3>4 DEF Grows
    <3> QED
      BY <1>7, <3>5 DEF StreamEvent
  <2> QED
    BY <1>7, <2>1, <2>2 DEF StreamEvent
<1>8. CASE After
  <2>1. Grows
    <3> DEFINE t == AbortPending(msgs)
    <3>1. /\ t \in Seq(Messages) /\ Len(t) = Len(msgs)
          /\ \A i \in 1..Len(msgs) : /\ t[i].role = msgs[i].role
                                     /\ t[i].calls = msgs[i].calls
                                     /\ t[i].hooked = msgs[i].hooked
                                     /\ msgs[i].results \subseteq t[i].results
                                     /\ Executed(t[i]) = Executed(msgs[i])
      BY <1>0, AbortAdds
    <3>2. msgs' = t \/ msgs' = msgs
      BY <1>8 DEF After
    <3> HIDE DEF t
    <3> QED
      BY <1>0, <1>1, <3>1, <3>2 DEF Grows
  <2> QED
    BY <1>8, <2>1 DEF After
<1> QED
  BY <1>3, <1>4, <1>5, <1>6, <1>7, <1>8

\* The answer gets the calls that were assembled.
LEMMA FinalizeRecalls ==
    ASSUME LoopTypeOK, Finalize
    PROVE  /\ msgs' \in Seq(Messages)
           /\ Len(msgs') = Len(msgs) /\ Len(msgs) > 0
           /\ \A i \in 1..Len(msgs) : i # Len(msgs) => msgs'[i] = msgs[i]
           /\ at' = "hook"
           /\ Conversation(msgs) => Conversation(msgs')
<1> DEFINE m == [Last EXCEPT !.calls = assembled]
<1>0. /\ msgs \in Seq(Messages) /\ Len(msgs) \in Nat /\ Len(msgs) > 0
      /\ IsAssistant(Last) /\ Last.results = {} /\ Last = msgs[Len(msgs)]
  BY DEF Finalize, LoopTypeOK, Last
<1>1. Last \in Messages /\ assembled \subseteq CallIds
  BY <1>0 DEF LoopTypeOK
<1>2. m \in Messages /\ IsAssistant(m) /\ Executed(m) = {}
  BY <1>0, <1>1 DEF Messages, IsAssistant, Executed
<1> DEFINE t == [msgs EXCEPT ![Len(msgs)] = m]
<1>3. msgs' = t /\ at' = "hook"
  BY DEF Finalize, UpdateLast
<1> HIDE DEF m
<1>4. /\ t \in Seq(Messages) /\ Len(t) = Len(msgs)
      /\ \A i \in 1..Len(msgs) : i # Len(msgs) => t[i] = msgs[i]
      /\ Conversation(msgs) => Conversation(t)
  BY <1>0, <1>2, LastReplaced
<1> HIDE DEF t
<1> QED
  BY <1>0, <1>3, <1>4

\* The step that ends a round of tools: with results of the calls of the last
\* assistant message a, or with nothing when there was no call.
LEMMA StepPushes ==
    ASSUME Control, Executing, PushResults, NEW a, a = LastWhere(msgs, IsAssistant)
    PROVE  /\ at' = "top"
           /\ results = {} => msgs' = msgs /\ (a # 0 => msgs[a].calls = {})
           /\ results # {} =>
                /\ msgs' \in Seq(Messages) /\ Len(msgs') = Len(msgs) + 1
                /\ \A i \in 1..Len(msgs) : msgs'[i] = msgs[i]
                /\ msgs'[Len(msgs) + 1].calls = {}
                /\ msgs'[Len(msgs) + 1].results = results
                /\ Executed(msgs'[Len(msgs) + 1]) = results
                /\ a # 0
                /\ msgs[a].calls = {r.call : r \in results}
                /\ a = Len(msgs) \/ Last.hooked
                /\ msgs[a].hooked \/ OneEach(results)
<1> DEFINE m == [Assistant(FALSE) EXCEPT !.results = results]
<1>1. m \in Messages /\ m.calls = {} /\ m.results = results
  BY DEF Assistant, Messages, Control, LoopTypeOK
<1>2. /\ at = "tools" /\ todo = {} /\ at' = "top"
      /\ msgs' = IF results = {} THEN msgs ELSE msgs \o <<m>>
  BY DEF PushResults, AppendMessages
<1> HIDE DEF m
<1>3. msgs \in Seq(Messages) /\ Len(msgs) \in Nat
  BY DEF Control, LoopTypeOK
<1>4. /\ \A r \in results : r.how # "aborted"
      /\ a = 0 => results = {}
      /\ a # 0 => /\ msgs[a].calls = todo \cup {r.call : r \in results}
                  /\ a = Len(msgs) \/ Last.hooked
                  /\ msgs[a].hooked \/ OneEach(results)
  BY <1>2, Zenon DEF Executing
<1>5. a # 0 => msgs[a].calls = {r.call : r \in results}
  BY <1>2, <1>4
<1>6. Executed(m) = results
  BY <1>1, <1>4 DEF Executed
<1>7. CASE results = {}
  BY <1>2, <1>5, <1>7
<1>8. CASE results # {}
  <2>1. /\ msgs' \in Seq(Messages) /\ Len(msgs') = Len(msgs) + 1
        /\ msgs'[Len(msgs) + 1] = m
        /\ \A i \in 1..Len(msgs) : msgs'[i] = msgs[i]
    BY <1>1, <1>2, <1>3, <1>8, MessagesIn
  <2> QED
    BY <1>1, <1>2, <1>4, <1>5, <1>6, <1>8, <2>1, Zenon
<1> QED
  BY <1>7, <1>8

\* Steps that leave the messages alone and do not leave the round.
Idles == Cancel \/ ExecuteTool \/ UNCHANGED loopVars

LEMMA StepKinds ==
    [LoopNext]_loopVars =>
        \/ Idles
        \/ PushResults
        \/ Finalize \/ ChatMessageHook
        \/ Top \/ Subtasks \/ Step \/ Connect \/ ConnectFails
        \/ StreamCancelled \/ StreamEvent \/ StreamEnds \/ StreamFails \/ After
BY Zenon DEF LoopNext, Own, Provider, Idles

LEMMA HistoryStays == [LoopNext]_loopVars => history' = history
<1> SUFFICES ASSUME [LoopNext]_loopVars PROVE history' = history
  OBVIOUS
<1>1. CASE Idles
  BY <1>1 DEF Idles, Cancel, ExecuteTool, loopVars
<1>2. CASE PushResults \/ Finalize \/ ChatMessageHook
  BY <1>2 DEF PushResults, Finalize, ChatMessageHook
<1>3. CASE Top \/ Subtasks \/ Step \/ Connect \/ ConnectFails
  BY <1>3 DEF Top, Subtasks, Step, Connect, ConnectFails
<1>4. CASE StreamCancelled \/ StreamEvent \/ StreamEnds \/ StreamFails \/ After
  BY <1>4 DEF StreamCancelled, StreamEvent, StreamEnds, StreamFails, After
<1> QED
  BY <1>1, <1>2, <1>3, <1>4, StepKinds

-----------------------------------------------------------------------------
\* What is known inside a round.
LEMMA RoundInductive == Control /\ Round /\ [LoopNext]_loopVars => Round'
<1> SUFFICES ASSUME Control, Round, [LoopNext]_loopVars PROVE Round'
  OBVIOUS
<1>0. /\ Len(msgs) \in Nat /\ Len(history) \in Nat /\ history' = history
  BY HistoriesAreConversations, HistoryStays DEF Control, LoopTypeOK
<1>1. CASE ExecuteTool
  <2> DEFINE a == LastWhere(msgs, IsAssistant)
  <2>1. PICK c \in todo, hows \in ExecutionsOf(msgs[a]) :
            /\ todo' = todo \ {c}
            /\ results' = results \cup {[call |-> c, how |-> h] : h \in hows}
    BY <1>1 DEF ExecuteTool
  <2>2. /\ at = "tools" /\ at' = "tools" /\ msgs' = msgs /\ Last' = Last
        /\ LastWhere(msgs, IsAssistant)' = a
    BY <1>1 DEF ExecuteTool, Last
  <2>3. /\ \A r \in results : r.how # "aborted" /\ r.call \notin todo
        /\ a = 0 => todo = {} /\ results = {}
        /\ a # 0 => /\ msgs[a].calls = todo \cup {r.call : r \in results}
                    /\ a = Len(msgs) \/ Last.hooked
                    /\ msgs[a].hooked \/ OneEach(results)
    BY <2>2, Zenon DEF Round, Executing
  <2> HIDE DEF a
  <2>4. a # 0
    BY <2>3
  <2> DEFINE new == {[call |-> c, how |-> h] : h \in hows}
  <2>5. /\ new # {}
        /\ \A r \in new : r.call = c /\ r.how # "aborted"
        /\ msgs[a].hooked \/ OneEach(new)
    <3>1. /\ hows \in SUBSET {"done", "failed"} /\ hows # {}
          /\ msgs[a].hooked \/ \A h, k \in hows : h = k
      BY <2>1, ExecutionsEnd
    <3>2. (\A h, k \in hows : h = k) => OneEach(new)
      BY DEF OneEach
    <3>3. /\ new # {}
          /\ \A r \in new : r.call = c /\ r.how # "aborted"
      <4>1. \A h \in hows : [call |-> c, how |-> h].call = c
                           /\ [call |-> c, how |-> h].how = h /\ h # "aborted"
        BY <3>1
      <4> QED
        BY <3>1, <4>1
    <3> QED
      BY <3>1, <3>2, <3>3, Zenon
  <2>6. results' = results \cup new
    BY <2>1
  <2> HIDE DEF new
  <2>7. \A r \in results' : r.how # "aborted" /\ r.call \notin todo'
    BY <2>1, <2>3, <2>5, <2>6
  <2>8. todo' \cup {r.call : r \in results'} = todo \cup {r.call : r \in results}
    BY <2>1, <2>5, <2>6
  <2>9. msgs[a].hooked \/ OneEach(results')
    <3>1. ASSUME OneEach(results), OneEach(new) PROVE OneEach(results')
      BY <2>1, <2>3, <2>5, <2>6, <3>1 DEF OneEach
    <3> QED
      BY <2>3, <2>4, <2>5, <3>1
  <2>10. /\ msgs[a].calls = todo' \cup {r.call : r \in results'}
         /\ a = Len(msgs) \/ Last.hooked
    BY <2>3, <2>4, <2>8
  <2>11. Executing'
    BY <2>2, <2>4, <2>7, <2>9, <2>10, Zenon DEF Executing, OneEach
  <2>12. Answering'
    BY <2>2 DEF Answering
  <2> QED
    BY <2>11, <2>12 DEF Round
<1>2. CASE Cancel \/ UNCHANGED loopVars
  <2>1. UNCHANGED <<msgs, history, at, todo, results>>
    BY <1>2 DEF Cancel, loopVars
  <2> QED
    BY <2>1 DEF Round, Answering, Executing, Last, OneEach
<1>3. CASE PushResults
  BY <1>3 DEF PushResults, Round, Answering, Executing
<1>4. CASE Finalize
  <2>1. Len(msgs') = Len(msgs) /\ at' = "hook"
    BY <1>4, FinalizeRecalls DEF Control
  <2>2. Len(history) < Len(msgs)
    BY <1>4 DEF Finalize, Round, Answering
  <2> QED
    BY <1>0, <2>1, <2>2 DEF Round, Answering, Executing
<1>5. CASE ChatMessageHook
  <2>1. /\ msgs' \in Seq(Messages) /\ Len(msgs') = Len(msgs)
        /\ Len(msgs) > 0
        /\ Last'.hooked \/ IsAssistant(Last')
        /\ at' = "tools" => todo' = CallsToExecute(msgs') /\ results' = {}
        /\ at' \in {"tools", "top", "after"}
    BY <1>5, HookReplaces DEF Control
  <2> DEFINE a == LastWhere(msgs', IsAssistant)
  <2>2. /\ a \in 0..Len(msgs')
        /\ \A i \in 1..Len(msgs') : IsAssistant(msgs'[i]) => a # 0 /\ i <= a
    BY <2>1, LastAssistant
  <2>3. at' = "tools" => todo' = IF a = 0 THEN {} ELSE msgs'[a].calls
    BY <2>1 DEF CallsToExecute
  <2> HIDE DEF a
  <2>4. IsAssistant(Last') => a = Len(msgs')
    BY <1>0, <2>1, <2>2 DEF Last
  <2>5. at' = "tools" => {r.call : r \in results'} = {} /\ OneEach(results')
    BY <2>1 DEF OneEach
  <2>6. a = Len(msgs') \/ Last'.hooked
    BY <2>1, <2>4
  <2>7. Executing'
    <3>1. at' = "tools" =>
            /\ \A r \in results' : r.how # "aborted" /\ r.call \notin todo'
            /\ a = 0 => todo' = {} /\ results' = {}
            /\ a # 0 => /\ msgs'[a].calls = todo' \cup {r.call : r \in results'}
                        /\ a = Len(msgs') \/ Last'.hooked
                        /\ msgs'[a].hooked \/ OneEach(results')
      BY <2>1, <2>3, <2>5, <2>6
    <3> QED
      BY <3>1, Zenon DEF Executing, OneEach, a
  <2> QED
    BY <2>1, <2>7 DEF Round, Answering
<1>6. CASE Connect
  <2> DEFINE m == Assistant(FALSE)
  <2>1. m \in Messages /\ m.calls = {}
    BY Builders
  <2>2. msgs' = msgs \o <<m>> /\ at' = "stream"
    BY <1>6 DEF Connect, AppendMessages
  <2> HIDE DEF m
  <2>3. Len(msgs') = Len(msgs) + 1 /\ msgs'[Len(msgs) + 1] = m
    BY <2>1, <2>2, MessagesIn DEF Control, LoopTypeOK
  <2>4. Last'.calls = {}
    BY <2>1, <2>3 DEF Last
  <2>5. Len(history') < Len(msgs')
    BY <1>0, <2>3 DEF Control
  <2> QED
    BY <2>2, <2>4, <2>5 DEF Round, Answering, Executing
<1>7. CASE StreamEvent
  <2>1. at = "stream" /\ at' = "stream"
    BY <1>7 DEF StreamEvent
  <2>2. /\ Len(msgs) \in 1..Len(msgs) /\ Last.calls = {} /\ Len(history) < Len(msgs)
    BY <1>0, <2>1 DEF Round, Answering, Control, LoopTypeOK
  <2>3. Len(msgs') = Len(msgs) /\ Last'.calls = {}
    <3>1. CASE msgs' = msgs
      BY <2>2, <3>1 DEF Last
    <3>2. CASE UpdateLast([Last EXCEPT !.text = TRUE])
      <4>1. /\ msgs' = [msgs EXCEPT ![Len(msgs)] = [Last EXCEPT !.text = TRUE]]
            /\ msgs \in Seq(Messages) /\ Last \in Messages
        BY <2>2, <3>2 DEF UpdateLast, Control, LoopTypeOK, Last
      <4> DEFINE m == [Last EXCEPT !.text = TRUE]
      <4>2. m.calls = Last.calls
        BY <4>1 DEF Messages
      <4> HIDE DEF m
      <4>3. Len(msgs') = Len(msgs) /\ msgs'[Len(msgs)] = m
        BY <2>2, <4>1 DEF m
      <4> QED
        BY <2>2, <4>2, <4>3 DEF Last
    <3> QED
      BY <1>7, <3>1, <3>2 DEF StreamEvent
  <2> QED
    BY <1>0, <2>1, <2>2, <2>3 DEF Round, Answering, Executing
<1>8. CASE StreamCancelled \/ StreamEnds
  BY <1>8 DEF StreamCancelled, StreamEnds, Round, Answering, Executing, Last
<1>9. CASE Top \/ Subtasks \/ Step \/ ConnectFails \/ StreamFails \/ After
  <2>1. at' \notin {"stream", "finalize", "hook", "tools"}
    BY <1>9 DEF Top, Subtasks, Step, ConnectFails, StreamFails, After, Fail
  <2> QED
    BY <2>1 DEF Round, Answering, Executing
<1> QED
  BY <1>1, <1>2, <1>3, <1>4, <1>5, <1>6, <1>7, <1>8, <1>9, StepKinds DEF Idles

-----------------------------------------------------------------------------
\* The three promises.
LEMMA ConversationInductive ==
    Control /\ Round /\ ResultsFollowTheirCalls /\ [LoopNext]_loopVars
        => ResultsFollowTheirCalls'
<1> SUFFICES ASSUME Control, Round, Conversation(msgs), [LoopNext]_loopVars
             PROVE  Conversation(msgs')
  BY DEF ResultsFollowTheirCalls
<1>0. msgs \in Seq(Messages) /\ Len(msgs) \in Nat
  BY DEF Control, LoopTypeOK
<1>1. CASE Idles
  <2>1. msgs' = msgs
    BY <1>1 DEF Idles, Cancel, ExecuteTool, loopVars
  <2> QED
    BY <2>1
<1>2. CASE Grows
  <2>1. /\ msgs' \in Seq(Messages) /\ Len(msgs) <= Len(msgs') /\ Keeps(msgs, msgs')
        /\ \A i \in Len(msgs) + 1..Len(msgs') :
              msgs'[i].calls = {} /\ Executed(msgs'[i]) = {}
    BY <1>2 DEF Grows, Keeps, Executed
  <2> QED
    BY <1>0, <2>1, GrownConversation
<1>3. CASE Finalize
  BY <1>3, FinalizeRecalls DEF Control
<1>4. CASE ChatMessageHook
  BY <1>4, HookReplaces DEF Control
<1>5. CASE PushResults
  <2> DEFINE n == Len(msgs)
             a == LastWhere(msgs, IsAssistant)
  <2>1. /\ a \in 0..n
        /\ a # 0 => IsAssistant(msgs[a])
        /\ \A i \in 1..n : IsAssistant(msgs[i]) => a # 0 /\ i <= a
    BY <1>0, LastAssistant
  <2>2. results = {} => msgs' = msgs
    BY <1>5, StepPushes DEF Round
  <2>3. results # {} =>
          /\ msgs' \in Seq(Messages) /\ Len(msgs') = n + 1
          /\ \A i \in 1..n : msgs'[i] = msgs[i]
          /\ msgs'[n + 1].calls = {}
          /\ Executed(msgs'[n + 1]) = results
          /\ a # 0
          /\ msgs[a].calls = {r.call : r \in results}
          /\ a = n \/ Last.hooked
          /\ msgs[a].hooked \/ OneEach(results)
    BY <1>5, StepPushes DEF Round
  <2> HIDE DEF a
  <2>4. CASE results = {}
    BY <2>2, <2>4
  <2>5. CASE results # {}
    <3>1. \A i \in 1..n + 1 : i \in 1..n \/ i = n + 1
      BY <1>0
    <3>2. a \in 1..n /\ a \in 1..(n + 1) - 1 /\ n \in 1..n /\ (n + 1) - 1 = n
      BY <1>0, <2>1, <2>3, <2>5
    <3>3. ExecutesCallsOf(msgs', a, n + 1)
      <4>1. msgs'[a] = msgs[a] /\ msgs'[n] = msgs[n] /\ Last = msgs[n]
        BY <2>3, <2>5, <3>2 DEF Last
      <4>2. \A i \in a + 1..(n + 1) - 1 : ~IsAssistant(msgs'[i])
        <5>1. \A i \in a + 1..(n + 1) - 1 : i \in 1..n /\ ~(i <= a)
          BY <1>0, <3>2
        <5> QED
          BY <2>1, <2>3, <2>5, <5>1, Zenon
      <4> QED
        BY <2>1, <2>3, <2>5, <3>2, <4>1, <4>2, Zenon DEF ExecutesCallsOf, OneEach
    <3>4. ASSUME NEW i \in 1..n + 1, msgs'[i].calls # {}
          PROVE  IsAssistant(msgs'[i]) \/ msgs'[i].hooked
      BY <2>3, <2>5, <3>1, <3>4 DEF Conversation
    <3>5. ASSUME NEW j \in 1..n + 1, Executed(msgs'[j]) # {}
          PROVE  msgs'[j].hooked \/ \E b \in 1..j - 1 : ExecutesCallsOf(msgs', b, j)
      <4>1. CASE j = n + 1
        BY <3>2, <3>3, <4>1
      <4>2. CASE j \in 1..n
        <5>1. msgs'[j] = msgs[j]
          BY <2>3, <2>5, <4>2
        <5>2. msgs[j].hooked \/ \E b \in 1..j - 1 : ExecutesCallsOf(msgs, b, j)
          BY <3>5, <4>2, <5>1, Zenon DEF Conversation
        <5>3. \A i \in 1..j : msgs'[i] = msgs[i]
          BY <1>0, <2>3, <2>5, <4>2
        <5>4. ASSUME NEW b \in 1..j - 1, ExecutesCallsOf(msgs, b, j)
              PROVE  ExecutesCallsOf(msgs', b, j)
          BY <1>0, <2>3, <2>5, <4>2, <5>3, <5>4, RoundKept
        <5> QED
          BY <5>1, <5>2, <5>4
      <4> QED
        BY <3>1, <4>1, <4>2
    <3> QED
      BY <2>3, <2>5, <3>4, <3>5, Zenon DEF Conversation
  <2> QED
    BY <2>4, <2>5
<1> QED
  BY <1>1, <1>2, <1>3, <1>4, <1>5, StepKinds, StepsGrow

\* What is answered stays answered while no message loses results.
LEMMA AnswersStay ==
    ASSUME Len(msgs) \in Nat, Len(msgs') \in Nat, Len(msgs) <= Len(msgs'),
           \A j \in 1..Len(msgs) : msgs[j].results \subseteq msgs'[j].results,
           NEW i \in 1..Len(msgs), msgs'[i].calls = msgs[i].calls,
           AnsweredBehind(i)
    PROVE  AnsweredBehind(i)'
<1> SUFFICES ASSUME NEW c \in msgs[i].calls
             PROVE  \E j \in i..Len(msgs') : \E r \in msgs'[j].results : r.call = c
  BY DEF AnsweredBehind
<1>1. PICK j \in i..Len(msgs) : \E r \in msgs[j].results : r.call = c
  BY DEF AnsweredBehind
<1>2. j \in i..Len(msgs') /\ j \in 1..Len(msgs)
  OBVIOUS
<1> QED
  BY <1>1, <1>2

LEMMA SettledInductive ==
    Control /\ Control' /\ Round /\ Settled /\ [LoopNext]_loopVars => Settled'
<1> SUFFICES ASSUME Control, Control', Round, Settled, [LoopNext]_loopVars,
                    NEW i \in Len(history) + 1..Len(msgs'), IsAssistant(msgs'[i]),
                    i < Len(msgs') \/ at' \notin {"hook", "tools"}
             PROVE  AnsweredBehind(i)'
  BY HistoryStays DEF Settled, IsAssistant
<1>0. /\ msgs \in Seq(Messages) /\ Len(msgs) \in Nat
      /\ Len(msgs') \in Nat /\ Len(history) \in Nat /\ i \in Nat \ {0}
  BY HistoriesAreConversations DEF Control, LoopTypeOK
<1>1. CASE Idles
  <2>1. msgs' = msgs /\ at' = at
    BY <1>1 DEF Idles, Cancel, ExecuteTool, loopVars
  <2>2. AnsweredBehind(i)
    BY <2>1 DEF Settled
  <2> QED
    BY <2>1, <2>2 DEF AnsweredBehind
<1>2. CASE Grows /\ at \notin {"hook", "tools"}
  <2>1. CASE i <= Len(msgs)
    <3>1. i \in 1..Len(msgs) /\ IsAssistant(msgs[i])
      BY <1>0, <1>2, <2>1 DEF Grows, IsAssistant
    <3>2. AnsweredBehind(i)
      BY <1>0, <1>2, <2>1, <3>1 DEF Settled
    <3> QED
      BY <1>0, <1>2, <3>1, <3>2, AnswersStay DEF Grows
  <2>2. CASE i > Len(msgs)
    <3>1. msgs'[i].calls = {}
      BY <1>0, <1>2, <2>2 DEF Grows
    <3> QED
      BY <3>1 DEF AnsweredBehind
  <2> QED
    BY <1>0, <2>1, <2>2
<1>3. CASE Finalize \/ ChatMessageHook
  <2>1. /\ Len(msgs') = Len(msgs) /\ Len(msgs) > 0
        /\ \A j \in 1..Len(msgs) : j # Len(msgs) => msgs'[j] = msgs[j]
        /\ at' \notin {"hook", "tools"} => Last'.calls = {}
    BY <1>3, FinalizeRecalls, HookReplaces DEF Control
  <2>2. CASE i < Len(msgs)
    <3>1. i \in 1..Len(msgs) /\ msgs'[i] = msgs[i]
      BY <1>0, <2>1, <2>2
    <3>2. AnsweredBehind(i)
      BY <1>0, <2>2, <3>1 DEF Settled
    <3>3. Len(msgs) \in 1..Len(msgs) /\ msgs[Len(msgs)].results = {}
      BY <1>0, <1>3, <2>1
         DEF Finalize, ChatMessageHook, Control, LoopTypeOK, Last
    <3>4. \A j \in 1..Len(msgs) : msgs[j].results \subseteq msgs'[j].results
      BY <2>1, <3>3
    <3> QED
      BY <1>0, <2>1, <3>1, <3>2, <3>4, AnswersStay
  <2>3. CASE i = Len(msgs)
    <3>1. at' \notin {"hook", "tools"}
      BY <2>1, <2>3
    <3>2. msgs'[i].calls = {}
      BY <2>1, <2>3, <3>1 DEF Last
    <3> QED
      BY <3>2 DEF AnsweredBehind
  <2> QED
    BY <1>0, <2>1, <2>2, <2>3
<1>4. CASE PushResults
  <2> DEFINE n == Len(msgs)
             a == LastWhere(msgs, IsAssistant)
  <2>1. /\ a \in 0..n
        /\ \A k \in 1..n : IsAssistant(msgs[k]) => a # 0 /\ k <= a
    BY <1>0, LastAssistant
  <2>2. results = {} => msgs' = msgs /\ (a # 0 => msgs[a].calls = {})
    BY <1>4, StepPushes DEF Round
  <2>3. results # {} =>
          /\ Len(msgs') = n + 1
          /\ \A j \in 1..n : msgs'[j] = msgs[j]
          /\ msgs'[n + 1].calls = {}
          /\ msgs'[n + 1].results = results
          /\ a # 0
          /\ msgs[a].calls = {r.call : r \in results}
    BY <1>4, StepPushes DEF Round
  <2> HIDE DEF a
  <2>4. CASE i = n + 1
    <3>1. msgs'[i].calls = {}
      BY <1>0, <2>2, <2>3, <2>4
    <3> QED
      BY <3>1 DEF AnsweredBehind
  <2>5. CASE i < n
    <3>1. i \in 1..n /\ msgs'[i] = msgs[i]
      BY <1>0, <2>2, <2>3, <2>5
    <3>2. AnsweredBehind(i)
      BY <1>0, <2>5, <3>1 DEF Settled
    <3>3. Len(msgs) <= Len(msgs')
      BY <1>0, <2>2, <2>3
    <3>4. \A j \in 1..n : msgs[j].results \subseteq msgs'[j].results
      BY <2>2, <2>3
    <3> QED
      BY <1>0, <3>1, <3>2, <3>3, <3>4, AnswersStay
  <2>6. CASE i = n
    <3>1. i \in 1..n /\ msgs'[i] = msgs[i]
      BY <1>0, <2>2, <2>3, <2>6
    <3>2. a = n
      BY <1>0, <2>1, <2>6, <3>1
    <3>3. CASE results = {}
      <4>1. msgs'[i].calls = {}
        BY <1>0, <2>2, <2>6, <3>1, <3>2, <3>3
      <4> QED
        BY <4>1 DEF AnsweredBehind
    <3>4. CASE results # {}
      <4>1. \A c \in msgs'[i].calls : \E r \in msgs'[n + 1].results : r.call = c
        BY <2>3, <2>6, <3>1, <3>2, <3>4
      <4>2. n + 1 \in i..Len(msgs')
        BY <1>0, <2>3, <2>6, <3>4
      <4> QED
        BY <4>1, <4>2 DEF AnsweredBehind
    <3> QED
      BY <3>3, <3>4
  <2>7. i <= n + 1
    BY <1>0, <2>2, <2>3
  <2> QED
    BY <1>0, <2>4, <2>5, <2>6, <2>7
<1> QED
  BY <1>1, <1>2, <1>3, <1>4, StepKinds, StepsGrow

\* abort_pending_tool_calls leaves no call open where there is an assistant
\* message to put results on.
LEMMA AbortCloses ==
    ASSUME NEW s \in Seq(Messages)
    PROVE  LET t == AbortPending(s) IN
           \/ \A i \in 1..Len(t) : ~IsAssistant(t[i])
           \/ Called(t) \subseteq Answered(t)
<1> DEFINE a == LastWhere(s, IsAssistant)
           aborted == {[call |-> c, how |-> "aborted"] : c \in Called(s) \ Answered(s)}
           m == [s[a] EXCEPT !.results = @ \cup aborted]
           t == AbortPending(s)
<1>1. /\ a \in 0..Len(s)
      /\ \A i \in 1..Len(s) : IsAssistant(s[i]) => a # 0
  BY LastAssistant
<1>2. /\ t \in Seq(Messages) /\ Len(t) = Len(s)
      /\ \A i \in 1..Len(s) : /\ t[i].calls = s[i].calls
                              /\ s[i].results \subseteq t[i].results
  BY AbortAdds
<1>3. CASE a = 0
  <2>1. t = s
    BY <1>3 DEF AbortPending
  <2>2. \A i \in 1..Len(s) : ~IsAssistant(s[i])
    BY <1>1, <1>3
  <2> QED
    BY <2>1, <2>2, Zenon
<1>4. CASE a # 0
  <2>1. t = [s EXCEPT ![a] = m]
    BY <1>4 DEF AbortPending
  <2>2. a \in 1..Len(s)
    BY <1>1, <1>4
  <2> HIDE DEF a
  <2>3. m.results = s[a].results \cup aborted
    <3>1. s[a] \in Messages
      BY <2>2
    <3> QED
      BY <3>1 DEF Messages
  <2> HIDE DEF m
  <2>4. t[a] = m
    BY <2>1, <2>2
  <2> HIDE DEF t
  <2>5. SUFFICES ASSUME NEW c \in Called(t) PROVE c \in Answered(t)
    BY DEF t
  <2>6. c \in Called(s)
    <3>1. PICK i \in 1..Len(t) : c \in t[i].calls
      BY DEF Called
    <3> QED
      BY <1>2, <3>1 DEF Called
  <2>7. CASE c \in Answered(s)
    <3>1. PICK i \in 1..Len(s) : \E r \in s[i].results : r.call = c
      BY <2>7 DEF Answered
    <3>2. \E r \in t[i].results : r.call = c
      BY <1>2, <3>1
    <3> QED
      BY <1>2, <3>1, <3>2 DEF Answered
  <2>8. CASE c \notin Answered(s)
    <3> DEFINE r0 == [call |-> c, how |-> "aborted"]
    <3>1. r0 \in aborted /\ r0.call = c
      BY <2>6, <2>8
    <3>2. r0 \in t[a].results
      BY <2>3, <2>4, <3>1
    <3> QED
      BY <1>2, <2>2, <3>1, <3>2 DEF Answered
  <2> QED
    BY <2>7, <2>8
<1> QED
  BY <1>1, <1>3, <1>4

LEMMA CancelInductive ==
    Control /\ CancelClosesOpenCalls /\ [LoopNext]_loopVars => CancelClosesOpenCalls'
<1> SUFFICES ASSUME Control, CancelClosesOpenCalls, [LoopNext]_loopVars,
                    outcome' = "cancelled"
             PROVE  CancelClosesOpenCalls'
  BY DEF CancelClosesOpenCalls
<1>1. CASE After
  <2>1. msgs' = AbortPending(msgs) /\ msgs \in Seq(Messages)
    BY <1>1 DEF After, Control, LoopTypeOK
  <2> QED
    BY <2>1, AbortCloses DEF CancelClosesOpenCalls, Called, Answered, IsAssistant
<1>2. CASE UNCHANGED loopVars
  BY <1>2 DEF CancelClosesOpenCalls, Called, Answered, IsAssistant, loopVars
<1>3. ASSUME outcome' = outcome, at # "returned" PROVE FALSE
  BY <1>3 DEF Control
<1>4. CASE Cancel \/ ExecuteTool \/ PushResults \/ Finalize \/ ChatMessageHook
  BY <1>3, <1>4 DEF Cancel, ExecuteTool, PushResults, Finalize, ChatMessageHook
<1>5. CASE Top \/ Subtasks \/ Step \/ Connect \/ ConnectFails
  BY <1>3, <1>5 DEF Top, Subtasks, Step, Connect, ConnectFails, Fail
<1>6. CASE StreamCancelled \/ StreamEvent \/ StreamEnds \/ StreamFails
  BY <1>3, <1>6 DEF StreamCancelled, StreamEvent, StreamEnds, StreamFails, Fail
<1> QED
  BY <1>1, <1>2, <1>4, <1>5, <1>6, StepKinds DEF Idles

LEMMA LoopInvariant == LoopSpec => []LoopIInv
<1>1. LoopIInv /\ [LoopNext]_loopVars => LoopIInv'
  BY ControlInductive, RoundInductive, ConversationInductive, SettledInductive,
     CancelInductive DEF LoopIInv
<1> QED
  BY LoopStarts, <1>1, PTL DEF LoopSpec

-----------------------------------------------------------------------------
\* Whatever the provider streams and the tools and the hook do, the loop is at
\* a declared point with values of the declared types, never takes more than
\* MAX_STEPS steps and one, and an answer that is being assembled is an
\* assistant message without results.
THEOREM LoopTypeCorrect == LoopSpec => []LoopTypeOK
<1>1. LoopIInv => LoopTypeOK
  BY DEF LoopIInv, Control
<1> QED
  BY LoopInvariant, <1>1, PTL

\* At every moment the results of tools in the session are those of the calls of
\* the answer before them, one each, wherever no plugin put a message of its own.
THEOREM ResultsAlwaysFollow == LoopSpec => []ResultsFollowTheirCalls
<1>1. LoopIInv => ResultsFollowTheirCalls
  BY DEF LoopIInv
<1> QED
  BY LoopInvariant, <1>1, PTL

\* Whatever a run has come to and plugins have made of its answers, with the next
\* prompt behind it the session is what HistoriesAssumption asks of the session a
\* run starts from: what is proved of one run holds of all that follow each other,
\* broken off or not.
THEOREM RunsMayFollow ==
    LoopSpec => [](\A n \in Nat : /\ Append(msgs, User(n)) \in Seq(Messages)
                                  /\ Conversation(Append(msgs, User(n))))
<1>1. ASSUME LoopIInv, NEW n \in Nat
      PROVE  Append(msgs, User(n)) \in Seq(Messages) /\ Conversation(Append(msgs, User(n)))
  <2>1. msgs \in Seq(Messages) /\ Conversation(msgs) /\ Len(msgs) \in Nat
    BY <1>1 DEF LoopIInv, Control, LoopTypeOK, ResultsFollowTheirCalls
  <2>2. User(n) \in Messages /\ User(n).calls = {} /\ Executed(User(n)) = {}
    BY DEF User, Messages, Executed
  <2> DEFINE t == Append(msgs, User(n))
  <2>3. /\ t \in Seq(Messages) /\ Len(t) = Len(msgs) + 1
        /\ \A i \in 1..Len(msgs) : t[i] = msgs[i]
        /\ t[Len(msgs) + 1] = User(n)
    BY <2>1, <2>2, AppendProperties
  <2>4. Len(msgs) <= Len(t) /\ \A i \in Len(msgs) + 1..Len(t) : t[i] = User(n)
    <3>1. \A i \in Len(msgs) + 1..Len(msgs) + 1 : i = Len(msgs) + 1
      BY <2>1
    <3> QED
      BY <2>1, <2>3, <3>1
  <2> HIDE DEF t
  <2>5. Keeps(msgs, t)
    BY <2>3 DEF Keeps
  <2>6. Conversation(t)
    BY <2>1, <2>2, <2>3, <2>4, <2>5, GrownConversation
  <2> QED
    BY <2>3, <2>6 DEF t
<1>2. LoopIInv => \A n \in Nat : /\ Append(msgs, User(n)) \in Seq(Messages)
                                 /\ Conversation(Append(msgs, User(n)))
  BY <1>1
<1> QED
  BY LoopInvariant, <1>2, PTL

\* A run that is over, however it ended, has a result behind each call of its
\* answers, those that plugins wrote included.
THEOREM EveryOwnCallIsAnswered == LoopSpec => []OwnCallsAreAnswered
<1>1. LoopIInv => OwnCallsAreAnswered
  <2> SUFFICES ASSUME LoopIInv, at = "returned" PROVE
          \A i \in Len(history) + 1..Len(msgs) :
              IsAssistant(msgs[i]) => AnsweredBehind(i)
    BY DEF OwnCallsAreAnswered, AnsweredBehind
  <2> QED
    BY DEF LoopIInv, Settled
<1> QED
  BY LoopInvariant, <1>1, PTL

\* After a cancelled run no call of the session is open, those of earlier runs
\* and of messages under another role included, unless no assistant message is
\* there to put results on.
THEOREM CancelledRunsCloseCalls == LoopSpec => []CancelClosesOpenCalls
<1>1. LoopIInv => CancelClosesOpenCalls
  BY DEF LoopIInv
<1> QED
  BY LoopInvariant, <1>1, PTL
=============================================================================
