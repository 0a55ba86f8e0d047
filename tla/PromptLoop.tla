----------------------------- MODULE PromptLoop -----------------------------
(***************************************************************************)
(* One run of SessionPrompt::loop_inner (kfcode-session, prompt.rs): the   *)
(* agentic loop that asks the model, assembles the answer from stream      *)
(* events, executes the tool calls and asks again, while any task may      *)
(* cancel its token at any moment.                                         *)
(*                                                                         *)
(* A message keeps what the loop decides on: its role, whether it has a    *)
(* non-empty text, its tool calls, its tool results and how each came      *)
(* about, whether it holds a compaction part, and how many subtasks of it  *)
(* are pending.  A plugin on the chat.message hook may put any message in  *)
(* the place of a finished answer; a ghost field tells where one did.      *)
(* Wording, tokens, titles and the hooks that rewrite the request (a copy  *)
(* of the session) are left out.  The names are apart from those of        *)
(* PromptRun, for one module proves both.                                  *)
(***************************************************************************)
EXTENDS Integers, Sequences

CONSTANTS
    CallIds,        \* tool call ids, chosen by the provider and reusable
    Histories,      \* the message sequences a run may start from
    Rewritten,      \* what plugins may put in the place of an answer
    MaxSteps,       \* MAX_STEPS
    MinToCompact    \* trigger_compaction leaves shorter histories alone (10)

ASSUME MaxStepsAssumption == MaxSteps \in Nat \ {0}
ASSUME MinToCompactAssumption == MinToCompact \in Nat \ {0}

VARIABLES
    history,         \* ghost: the messages the run started from
    msgs,            \* session.messages
    at,              \* where the loop is
    tokenCancelled,  \* the token
    step,            \* the step counter of loop_inner
    assembled,       \* tool_calls: the calls of which anything arrived
    finish,          \* finish_reason of the current step
    todo,            \* calls of the last assistant message still to execute
    results,         \* results of this round of tool calls so far
    outcome          \* what loop_inner returned

loopVars == <<history, msgs, at, tokenCancelled, step, assembled, finish, todo,
              results, outcome>>

Points == {"top", "subtasks", "step", "connect", "stream", "finalize", "hook",
       "tools", "after", "returned"}
\* finish_reason: "tool-calls", or none yet or any other.
FinishReasons == {"other", "tool-calls"}
Results == [call : CallIds, how : {"done", "failed", "aborted"}]
\* hooked (ghost): a plugin put this message in the place of another one.
\* "other" stands for the roles system and tool.
Messages ==
    [role : {"user", "assistant", "other"}, text : BOOLEAN, calls : SUBSET CallIds,
     results : SUBSET Results, compaction : BOOLEAN, subtasks : Nat, hooked : BOOLEAN]

\* A chat.message hook answers with JSON that may be any message.
ASSUME RewrittenAssumption == Rewritten \subseteq Messages

User(n) == [role |-> "user", text |-> TRUE, calls |-> {}, results |-> {},
            compaction |-> FALSE, subtasks |-> n, hooked |-> FALSE]
Assistant(text) == [role |-> "assistant", text |-> text, calls |-> {}, results |-> {},
                    compaction |-> FALSE, subtasks |-> 0, hooked |-> FALSE]
Compaction == [Assistant(FALSE) EXCEPT !.compaction = TRUE]

IsUser(m) == m.role = "user"
IsAssistant(m) == m.role = "assistant"
IsCompaction(m) == m.compaction

Executed(m) == {r \in m.results : r.how # "aborted"}

\* s[j] holds what came of a round of tools, and s[a] is the answer whose calls
\* were executed: the last one before s[j], and directly before it unless a
\* plugin put another message there.  Each of its calls, and no other, has one
\* result (a plugin may name a call twice, which is then executed twice).
ExecutesCallsOf(s, a, j) ==
    /\ IsAssistant(s[a])
    /\ \A i \in a + 1..j - 1 : ~IsAssistant(s[i])
    /\ a = j - 1 \/ s[j - 1].hooked
    /\ s[a].calls = {r.call : r \in Executed(s[j])}
    /\ s[a].hooked \/ \A r, q \in Executed(s[j]) : r.call = q.call => r = q

\* Where no plugin put a message, only answers call tools, and results of tools
\* are those of the calls of one answer.
Conversation(s) ==
    /\ \A i \in 1..Len(s) : s[i].calls # {} => IsAssistant(s[i]) \/ s[i].hooked
    /\ \A j \in 1..Len(s) :
          Executed(s[j]) # {} =>
              s[j].hooked \/ \E a \in 1..j - 1 : ExecutesCallsOf(s, a, j)

\* A run starts from what earlier runs left, finished or not, and a prompt.
ASSUME HistoriesAssumption == \A h \in Histories : h \in Seq(Messages) /\ Conversation(h)

\* Iterator::rposition: the last index of s where P holds, or 0.
LastWhere(s, P(_)) ==
    LET hits == {i \in 1..Len(s) : P(s[i])}
    IN  IF hits = {} THEN 0 ELSE CHOOSE i \in hits : \A j \in hits : j <= i

\* filter_compacted_messages: the tail that begins with the last compaction.
FilterCompacted(s) ==
    LET cut == LastWhere(s, IsCompaction)
    IN  IF cut = 0 THEN s ELSE SubSeq(s, cut, Len(s))

Last == msgs[Len(msgs)]
AppendMessages(ms) == msgs' = msgs \o ms
UpdateLast(m) == msgs' = [msgs EXCEPT ![Len(msgs)] = m]

Answered(s) == {r.call : r \in UNION {s[i].results : i \in 1..Len(s)}}
Called(s) == UNION {s[i].calls : i \in 1..Len(s)}

\* What execute_tool_calls finds to do: the calls of the last assistant message,
\* which is an older one when a plugin gave the answer another role.
CallsToExecute(s) ==
    LET a == LastWhere(s, IsAssistant)
    IN  IF a = 0 THEN {} ELSE s[a].calls

LoopInit ==
    /\ history \in Histories
    /\ msgs = history
    /\ at = "top"
    /\ tokenCancelled = FALSE
    /\ step = 0
    /\ assembled = {}
    /\ finish = "other"
    /\ todo = {}
    /\ results = {}
    /\ outcome = "running"

Fail(why) ==
    /\ at' = "returned"
    /\ outcome' = why

-----------------------------------------------------------------------------
\* SessionPrompt::cancel, by another task, while the run goes on.
Cancel ==
    /\ at # "returned"
    /\ ~tokenCancelled
    /\ tokenCancelled' = TRUE
    /\ UNCHANGED <<history, msgs, at, step, assembled, finish, todo, results, outcome>>

\* The head of the loop: leave when cancelled, fail without a user message in
\* what the last compaction kept.
Top ==
    /\ at = "top"
    /\ IF tokenCancelled THEN at' = "after" /\ UNCHANGED outcome
       ELSE IF LastWhere(FilterCompacted(msgs), IsUser) = 0 THEN Fail("noUser")
       ELSE at' = "subtasks" /\ UNCHANGED outcome
    /\ UNCHANGED <<history, msgs, tokenCancelled, step, assembled, finish, todo, results>>

\* (mutant) the status of an executed subtask stays "pending".
SubtasksStayPending ==
    /\ at = "subtasks"
    /\ LET u == LastWhere(msgs, IsUser)
       IN  at' = IF msgs[u].subtasks = 0 THEN "step" ELSE "top"
    /\ UNCHANGED <<history, msgs, tokenCancelled, step, assembled, finish, todo, results,
                   outcome>>

\* process_pending_subtasks: every pending subtask of the last user message
\* is executed, marked, and answered by an assistant message of its own.
\* Then the loop starts over.
Subtasks ==
    /\ at = "subtasks"
    /\ LET u == LastWhere(msgs, IsUser)
       IN  IF msgs[u].subtasks = 0 THEN at' = "step" /\ UNCHANGED msgs
           ELSE /\ msgs' = [msgs EXCEPT ![u].subtasks = 0]
                           \o [i \in 1..msgs[u].subtasks |-> Assistant(TRUE)]
                /\ at' = "top"
    /\ UNCHANGED <<history, tokenCancelled, step, assembled, finish, todo, results, outcome>>

\* (mutant) the limit is compared with the counter before it was increased.
StepOffByOne ==
    /\ at = "step"
    /\ step' = step + 1
    /\ at' = IF step > MaxSteps THEN "after" ELSE "connect"
    /\ UNCHANGED <<history, msgs, tokenCancelled, assembled, finish, todo, results,
                   outcome>>

\* The last assistant message answers the last user message when it has text
\* and last_user.id < assistant.id.  The ids are "msg_" followed by a random
\* uuid, or by a timestamp counting down: how two of them compare is chance.
\* last_assistant and last_user were taken at the head of the loop.
Step ==
    /\ at = "step"
    /\ LET kept == FilterCompacted(msgs)
           a == LastWhere(kept, IsAssistant)
       IN  \/ /\ a # 0 /\ kept[a].text
              /\ at' = "after"
              /\ UNCHANGED <<msgs, step>>
           \/ /\ step' = step + 1
              /\ IF step' > MaxSteps
                 THEN at' = "after" /\ UNCHANGED msgs
                 ELSE /\ at' = "connect"
                      /\ \/ UNCHANGED msgs
                         \/ \* should_compact, then trigger_compaction
                            /\ Len(kept) >= MinToCompact
                            /\ AppendMessages(<<Compaction>>)
    /\ UNCHANGED <<history, tokenCancelled, assembled, finish, todo, results, outcome>>

\* chat_stream answers with a stream: the placeholder message is pushed.
Connect ==
    /\ at = "connect"
    /\ AppendMessages(<<Assistant(FALSE)>>)
    /\ assembled' = {}
    /\ finish' = "other"
    /\ at' = "stream"
    /\ UNCHANGED <<history, tokenCancelled, step, todo, results, outcome>>

\* chat_stream fails.
ConnectFails ==
    /\ at = "connect"
    /\ Fail("error")
    /\ UNCHANGED <<history, msgs, tokenCancelled, step, assembled, finish, todo, results>>

\* The next event of the stream, whatever it is, finds the token cancelled.
StreamCancelled ==
    /\ at = "stream"
    /\ tokenCancelled
    /\ at' = "finalize"
    /\ UNCHANGED <<history, msgs, tokenCancelled, step, assembled, finish, todo, results,
                   outcome>>

\* A piece of text; a call or a piece of one (ToolCallStart, ToolCallDelta,
\* ToolCallEnd and the ToolInput events), which puts its id into tool_calls;
\* or the reason the step ends for.
StreamEvent ==
    /\ at = "stream"
    /\ ~tokenCancelled
    /\ \/ /\ UpdateLast([Last EXCEPT !.text = TRUE])
          /\ UNCHANGED <<assembled, finish>>
       \/ /\ \E c \in CallIds : assembled' = assembled \cup {c}
          /\ UNCHANGED <<msgs, finish>>
       \/ /\ finish' \in FinishReasons
          /\ UNCHANGED <<msgs, assembled>>
    /\ UNCHANGED <<history, at, tokenCancelled, step, todo, results, outcome>>

\* Done or Finish, or the stream just ends, which no look at the token
\* precedes.
StreamEnds ==
    /\ at = "stream"
    /\ at' = "finalize"
    /\ UNCHANGED <<history, msgs, tokenCancelled, step, assembled, finish, todo, results,
                   outcome>>

\* An error event or a broken stream returns at once: no tool call is kept.
StreamFails ==
    /\ at = "stream"
    /\ ~tokenCancelled
    /\ Fail("error")
    /\ UNCHANGED <<history, msgs, tokenCancelled, step, assembled, finish, todo, results>>

\* Everything that was assembled becomes a tool call of the placeholder; a
\* call whose arguments do not parse yet gets {}.
Finalize ==
    /\ at = "finalize"
    /\ UpdateLast([Last EXCEPT !.calls = assembled])
    /\ at' = "hook"
    /\ UNCHANGED <<history, tokenCancelled, step, assembled, finish, todo, results, outcome>>

\* What the answer is after the hook: itself, or what a plugin made of it.
HookOutcomes == {Last} \cup {[m EXCEPT !.hooked = TRUE] : m \in Rewritten}

\* (mutant) has_tool_calls and the calls to execute are those from before the
\* hook.
ChatMessageHookStale ==
    /\ at = "hook"
    /\ \E m \in HookOutcomes : UpdateLast(m)
    /\ todo' = IF LastWhere(msgs', IsAssistant) = 0 THEN {} ELSE Last.calls
    /\ at' = IF Last.calls # {} THEN "tools"
             ELSE IF finish = "tool-calls" THEN "top"
             ELSE "after"
    /\ results' = {}
    /\ UNCHANGED <<history, tokenCancelled, step, assembled, finish, outcome>>

\* The chat.message hook may put any message in the place of the answer; then
\* has_tool_calls is told from what is there now.  With calls the loop executes
\* some, else it goes round again on "tool-calls" or is through.
ChatMessageHook ==
    /\ at = "hook"
    /\ \E m \in HookOutcomes :
          /\ UpdateLast(m)
          /\ \/ /\ m.calls # {}
                /\ at' = "tools"
                /\ todo' = CallsToExecute(msgs')
             \/ /\ m.calls = {}
                /\ at' = IF finish = "tool-calls" THEN "top" ELSE "after"
                /\ todo' = {}
    /\ results' = {}
    /\ UNCHANGED <<history, tokenCancelled, step, assembled, finish, outcome>>

\* How the execution of a call of message m may end.  An answer has each id once
\* (Finalize); a message from a plugin may have a call twice.
ExecutionsOf(m) ==
    {{"done"}, {"failed"}} \cup (IF m.hooked THEN {{"done", "failed"}} ELSE {})

\* execute_tool_calls, one call after the other, in the order of the parts.
ExecuteTool ==
    /\ at = "tools"
    /\ \E c \in todo : \E hows \in ExecutionsOf(msgs[LastWhere(msgs, IsAssistant)]) :
          /\ todo' = todo \ {c}
          /\ results' = results \cup {[call |-> c, how |-> h] : h \in hows}
    /\ UNCHANGED <<history, msgs, at, tokenCancelled, step, assembled, finish, outcome>>

\* (mutant) a failed tool ends the round: its result and the rest are lost.
PushOnlyDone ==
    /\ at = "tools"
    /\ todo = {}
    /\ AppendMessages(<<[Assistant(FALSE) EXCEPT
                            !.results = {r \in results : r.how = "done"}]>>)
    /\ at' = "top"
    /\ UNCHANGED <<history, tokenCancelled, step, assembled, finish, todo, results, outcome>>

\* ... and one message with all the results, or none when there was no call.
PushResults ==
    /\ at = "tools"
    /\ todo = {}
    /\ IF results = {} THEN UNCHANGED msgs
       ELSE AppendMessages(<<[Assistant(FALSE) EXCEPT !.results = results]>>)
    /\ at' = "top"
    /\ UNCHANGED <<history, tokenCancelled, step, assembled, finish, todo, results, outcome>>

\* (mutant) only the calls of the last assistant message are looked at.
AbortPendingOfLast(s) ==
    LET a == LastWhere(s, IsAssistant)
    IN  IF a = 0 THEN s
        ELSE [s EXCEPT ![a].results =
                 @ \cup {[call |-> c, how |-> "aborted"] :
                            c \in s[a].calls \ Answered(s)}]

\* abort_pending_tool_calls: error results for the calls without a result,
\* on the last assistant message.
AbortPending(s) ==
    LET pending == Called(s) \ Answered(s)
        a == LastWhere(s, IsAssistant)
    IN  IF a = 0 THEN s
        ELSE [s EXCEPT ![a].results =
                 @ \cup {[call |-> c, how |-> "aborted"] : c \in pending}]

\* After the loop.  prune_after_loop only shortens texts of results.
After ==
    /\ at = "after"
    /\ msgs' = IF tokenCancelled THEN AbortPending(msgs) ELSE msgs
    /\ at' = "returned"
    /\ outcome' = IF tokenCancelled THEN "cancelled" ELSE "ok"
    /\ UNCHANGED <<history, tokenCancelled, step, assembled, finish, todo, results>>

Own == Top \/ Subtasks \/ Step \/ Finalize \/ ChatMessageHook
       \/ ExecuteTool \/ PushResults \/ After
Provider == Connect \/ ConnectFails \/ StreamCancelled \/ StreamEvent
            \/ StreamEnds \/ StreamFails

LoopNext == Own \/ Provider \/ Cancel

LoopSpec == LoopInit /\ [][LoopNext]_loopVars

\* The runtime goes on with the loop and with the tools it calls.
LocalFairness == WF_loopVars(Own)

\* The provider answers a request, and a stream that delivers events ends
\* one day; every event makes the loop look at its token.
ProviderFairness ==
    /\ WF_loopVars(Connect \/ ConnectFails)
    /\ WF_loopVars(StreamCancelled)
    /\ SF_loopVars(StreamEnds \/ StreamFails)

FairLoopSpec == LoopSpec /\ LocalFairness /\ ProviderFairness

-----------------------------------------------------------------------------
LoopTypeOK ==
    /\ history \in Histories
    /\ msgs \in Seq(Messages)
    /\ at \in Points
    /\ tokenCancelled \in BOOLEAN
    /\ step \in 0..MaxSteps + 1
    /\ assembled \subseteq CallIds
    /\ finish \in FinishReasons
    /\ todo \subseteq CallIds
    /\ results \subseteq Results
    /\ outcome \in {"running", "ok", "cancelled", "noUser", "error"}
    /\ at \in {"stream", "finalize", "hook"} =>
          Len(msgs) > 0 /\ IsAssistant(Last) /\ Last.results = {}

\* Results follow the answer whose calls they are of.  Providers refuse results
\* of calls that the answer before them did not make, so whatever the stream, the
\* tools and a cancellation leave behind, the results of a round of tools are
\* those of the calls of the last answer, one each, and stand directly behind it.
\* Only a plugin can come between: by a message of another role in the answer's
\* place, which has the calls of the answer before that one executed (again).
\* What plugins write into a message themselves, the results that an abort adds
\* and calls that have no result yet are not spoken of.
ResultsFollowTheirCalls == Conversation(msgs)

\* However a run ends, by itself, by cancellation or by an error, and wherever in
\* a round that happens, every call of an answer of it has a result behind it,
\* those that a plugin wrote there included.  Calls that a plugin put under
\* another role than assistant are not executed and stay open.
OwnCallsAreAnswered ==
    at = "returned" =>
        \A i \in Len(history) + 1..Len(msgs) :
            IsAssistant(msgs[i]) =>
                \A c \in msgs[i].calls :
                    \E j \in i..Len(msgs) : \E r \in msgs[j].results : r.call = c

\* A cancelled run leaves no call open, not even one that an earlier run left
\* behind when the program died, or one that a plugin put under another role:
\* provided that there is an assistant message to put the results on.
CancelClosesOpenCalls ==
    outcome = "cancelled" =>
        \/ \A i \in 1..Len(msgs) : ~IsAssistant(msgs[i])
        \/ Called(msgs) \subseteq Answered(msgs)

\* A run always comes back: neither subtasks, nor a model that never stops
\* calling tools, nor a cancellation at a bad moment keep it going for ever.
RunReturns == <>(at = "returned")

-----------------------------------------------------------------------------
\* What comments say, refuted by the code (see the findings in README.md).

\* prompt_with_update_hook: "create the user message and drive the LLM loop":
\* a run that returns without an error, a cancellation or the step limit has
\* an answer behind the last user message.
PromptIsAnswered ==
    outcome = "ok" /\ step <= MaxSteps =>
        LastWhere(msgs, IsAssistant) > LastWhere(msgs, IsUser)
=============================================================================
