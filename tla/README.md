# KFCode: a verification project

KFCode is a coding agent: a server that keeps sessions, a loop that asks a
language model and executes the tools it calls, plugins and tool servers that
run as processes of their own, and a terminal interface on top.  The modules in
this directory model the parts of it in which several tasks meet, in which a
step may fail or be broken off between two others, or in which something must
eventually happen.  TLC checks them on small instances, and TLAPS proves the
types and every safety property that a passing run checks for every instance.

Paths below are relative to `src/crates/`.

## 1. Inventory

| Component | State it keeps | Operations | What is hard | What makes it correct |
|---|---|---|---|---|
| Prompt run lifecycle, `kfcode-session/src/prompt.rs` 172-202, 745-917 | `state`: the cancel token of each session; `session_state`: busy or idle; two locks | `prompt`, `resume_session`, `cancel` | the table's lock is given back between the check and the insert; `cancel` awaits under a lock | no registered token is dead; prompts do not share tokens; no entry outlives its run; busy ends; a cancelled run returns |
| Prompt loop, `prompt.rs` 975-1585, 2023-2152, 2582-2628 | the messages of one session, a step counter, the token | `loop_inner`: subtasks, compaction, stream, hook, tool rounds | cancellation at every point, streams that break, a plugin that puts another message in an answer's place, runs after a crash | what was executed matches what was called; the calls of every answer have results; the run returns |
| Responses API stream, `kfcode-provider/src/responses.rs` 1490-2100 | a parser of interleaved items, a bounded channel, the message under construction | one chunk in, stream events out, one event heard | items interleave and change their ids, answers are cut, the channel is full, the receiver goes | what is heard is what was said; brackets match; the loop asks again only for a call; the task ends |
| Session table, `kfcode-session/src/session.rs`; handlers in `kfcode-server/src/routes.rs` | all sessions, the run status of each | create, fork, change, delete, prompt, stream | a prompt works on a clone for minutes and writes it back | acknowledged changes survive; deleted trees are gone; busy ends |
| Persistence, `kfcode-server/src/server.rs` 174-260; `kfcode-storage/src/repository.rs`, `schema.rs` | SQLite tables `sessions` and `messages` | sync the whole table, load it | no lock and no transaction around a sync; crashes; key constraints | what was saved is found again; a message stays in its session |
| Terminal interface, `kfcode-tui/src/app/app.rs`, `context/session_context.rs` | a copy of the sessions, messages and statuses of the server | submit, handle an event, poll, navigate | optimistic copies, lost events, requests that fail or lose their answers | nothing is shown twice or left behind; what is shown settles to what the server has |
| PTY sessions, `kfcode-server/src/pty.rs`, `routes.rs` 3562-3696 | a ring buffer and cursor per terminal, a broadcast, a channel per client | create, read, subscribe, replay, forward, delete | a client joins while output arrives; a client is slow | bytes come in order, and only a slow client and the seam lose any |
| File tools, `kfcode-tool/src/{tool,edit/tool,write,multiedit,apply_patch,batch}.rs` | files; one mutex per path | edit, write, multiedit, apply_patch | parallel calls; reads that are old when written; refusal and failure in the middle | edits do not undo each other; a refused call changes nothing; a move keeps its text |
| Plugin RPC, `kfcode-plugin/src/subprocess/client.rs`, `host/plugin-host.ts` | a pipe each way, `rpc_lock`, request ids | call, stream, shutdown | late answers, streams that outlive their caller, full channels, a host that dies | own answers only; a cut stream is noticed; every call returns |
| Plugin loader, hooks, auth bridge, `kfcode-plugin/src` | loaded plugins, hook handlers | load, trigger | hooks run in turn, through the RPC | hooks see each other's output in order |
| MCP client, `kfcode-mcp/src`; `kfcode-server/src/mcp_oauth.rs` | one transport per server, a tool registry, statuses | connect, request, refresh, close | send and receive lock separately; no timeouts; reloads overlap | own answers only; the registry follows the server |
| LSP client, `kfcode-lsp/src/lib.rs` | pending responses, versions, diagnostics | request, notify, open | the reader task may end under waiting requests | every request ends |
| Hunk application, `kfcode-tool/src/apply_patch.rs` 648-740 | none | `apply_hunks` | offsets, context lines | the patch's meaning |
| Permissions, `kfcode-permission/src`; requests in `routes.rs` | pending requests, approvals | ask, respond, clear | answers for sessions that are gone | a request is answered once |
| Todo lists, `kfcode-session/src/todo.rs` | a list per session, in memory and in rows | update, add, remove, set_status | two copies, no transaction | rows and list agree |
| Event bus and ids, `kfcode-core/src` | subscribers, a counter | publish, subscribe, create | slow receivers, ids that must order | order of creation |
| Retry, compaction, revert, snapshot, summary, status | mostly none | pure or one call of git | boundaries | - |
| Other providers, agent executor, other tools, configuration, commands, watcher, grep, rendering, command line | - | - | wire formats, rendering, input and output | - |

How they interact.  The terminal interface (TuiSync) submits a prompt, shows it
at once, and fetches when the server's event stream tells it to.  A request of
the server changes the session table under its lock and then syncs the table to
SQLite (StorageSync).  `POST /prompt` spawns a task that clones the session
(SessionStore), creates a `SessionPrompt` **of its own** (`routes.rs:1752`),
runs the loop on the clone (PromptRun, PromptLoop), sends snapshots through a
channel to a task that writes them to the table, and writes the clone at the
end.  The loop hears the model through a provider's stream (ResponsesStream),
which may fetch through a plugin (PluginRpc), and executes tools (FileTools),
several at once under `batch`.  Cancellation is a token the loop looks at.
Terminals (PtyOutput) live beside the sessions.

The modules meet at assumptions that another one discharges.  SessionStore
assumes that a run comes back, which is `RunReturns` of PromptLoop; PromptRun
assumes that a loop sees its cancelled token, and PromptLoop that a provider
sends events or ends, which is what `TaskEnds` of ResponsesStream shows for one
provider; TuiSync assumes that the server's tasks go on, which is `BusyEnds` of
SessionStore.

## 2. Modules

Every module names the code it models in its header, and `PROJECT.json` maps
each definition to its lines.  Definitions marked `(mutant)` are no part of a
model: each is a plausible bug of the definition after it, and the property it
is paired with in `PROJECT.json` fails when it takes that definition's place.
A ghost variable is one the code does not have; no guard reads it.

### PromptRun (prompt.rs)

One action per stretch of code between two points at which a task gives a lock
back or awaits.  `state[s]` is the registered token of a session, `cancelled`
the tokens whose `cancel()` was called, `stateLock` the lock `cancel` keeps
across its await.  `Call` begins a prompt, an empty prompt, a prompt without
reply, a resume or a cancel; `StartCheck` and `StartInsert` are the two halves
of `start`; the loop is one program point, `loop`, left by `LoopEnds` or
`LoopCancelled`.  `refused` is a ghost, the tokens of prompts that
`create_user_message` refused.  The bound is `MaxCalls`, on calls begun.

The model contains, and the properties do not forbid, what the code does: two
prompts for one session may both pass `StartCheck` and run at once, after which
the second's token is the registered one and `cancel` no longer reaches the
first; `CreateUserMessage` may fail and leave its entry, so that every later
prompt is refused until a cancel.  `EntriesHaveRuns` says that this is the only
way an entry is left.

### PromptLoop (prompt.rs, message.rs)

One run of `loop_inner`.  A message keeps its role, whether it has text, its
calls and results, whether it is a compaction, how many subtasks are pending.
`Own` are the steps of the loop, `Provider` what the model service may do:
answer or refuse, stream anything in any order, break, end.  `Cancel` may come
between any two steps.  `Histories` are the conversations a run starts from: a
first prompt, one with subtasks, a follow-up, one after a run that died in a
round of tools, and one after a run whose answer a plugin had put under another
role.  Two ids are compared in `Step`; both generators make the
order of any two chance, so the comparison is a free choice.  Whether a step
compacts depends on a token estimate and is a free choice too, above the
minimal length.  Left out: wording, titles, hooks that rewrite the request (they
get a copy of the session), shell commands; tool execution is a result or a
failure.

`ChatMessageHook`: when an answer is complete, plugins may answer the
`chat.message` hook with JSON that takes its place, its parts or all of it
(`apply_chat_message_hook_outputs`, prompt.rs:2930).  The constant `Rewritten` is
the set of messages they may put there, of any role, with any calls and any
results; `RewrittenAssumption` asks only that they are messages, so the proofs
hold for every such plugin.  What follows goes by the message that is there now:
with calls in it, `CallsToExecute` takes those of the last message whose role is
assistant, which is an older answer when a plugin gave this one another role.
The ghost field `hooked` marks what a plugin put in place of an answer.

`HistoriesAssumption` is what any run leaves behind for the next: messages of
their type, in which what was executed matches what was called, wherever no
plugin put a message (`Conversation`).  The second half is `ResultsFollowTheirCalls`, and that a session with the next prompt behind
it is such a history again is a theorem (`RunsMayFollow`).

### ResponsesStream (responses.rs, stream.rs, prompt.rs)

One streamed answer of the Responses API on its way into a message.  The
service adds items (a message, thoughts, a function call), says pieces of them
interleaved, finishes them or not, and ends its answer: completed, incomplete,
with an error, with `response.failed` (which the parser does not know), cut, or
broken.  `rotates` is a service that gives an item another id in every chunk, as
one of them does (responses.rs:751).  `do_stream`'s task turns each chunk into
events (`out`), sends them into a channel of `Capacity`, and closes what is
left open; the loop of `prompt.rs` hears them one by one (`Hear`), may be
cancelled, and drops the receiver at its round's end.  Pieces of text are
numbered as they are said, so that a lost or misplaced piece is a wrong
sequence.  Hosted tools are left out: the program offers only function tools.

### SessionStore (session.rs, routes.rs)

The table, the run status and the tasks that requests leave behind.  A session
is its parent and the set of changes it contains, each numbered once, so that a
lost change is a missing number.  `Descendants`, which the code finds by
recursion, is the least set with the session in it that leaves no child out.
Handlers that finish under the lock are one
action; a prompt task is `CloneSession`, `SetBusy`, `RunEmits`, `ApplyUpdate`
(the update task), `RunEnds`, `FinalUpdate`, `SetIdle`; a stream is
`StreamMessage` and `StreamWriteBack`.  Bounds: the sessions, the tasks, and
`MaxRequests`, on sessions made, changes and spawned tasks together.

### StorageSync and DurableSessions (server.rs, repository.rs, schema.rs)

StorageSync executes `sync_sessions_to_storage` one SQL statement per action,
with the primary and foreign keys of the schema; `Restart` is a crash between
any two statements followed by a load; `StatementFails` breaks a sync off.
`patient`, chosen once, says whether the users make one request at a time and
never fork: what holds only for them is stated under it, and the rest for
overlapping syncs and forks too.
DurableSessions is the abstract specification, what saving promises to a
patient user: a save that ends is the truth, a save that breaks off may lose
messages of the session it was at and nothing else, and nothing is ever
invented.  The refinement is the identity on `mem`, `kept` and `damaged`;
`kept` and `damaged` are ghosts of StorageSync.

### TuiSync (app.rs, session_context.rs, session_list.rs)

The interface's one thread, the listener and the server's prompt tasks.  A
request is two points: what is shown before it, and its outcome, where it may
have failed, or have succeeded and lost its answer.  A message is `local` (the
optimistic copy), `user` or `reply`; `view` is what each session shows and
`stored` what the server has.  `Disconnect` loses the events that wait, and
events that come while nobody is connected are lost.  `PollSession`,
`PollPending` and `PollStatus` are the three ticks that repair that; `Search`
sets the query that the session dialog leaves behind (`hidden`).  Left out:
rendering, other dialogs, editing.

### PtyOutput and PtyStream (pty.rs, routes.rs)

A terminal whose bytes are numbered from 1.  The reader appends to the ring
buffer under its locks and broadcasts afterwards (`ReadChunk`, `Broadcast`); a
client copies the buffer and subscribes afterwards (`Snapshot`, `Subscribe`),
is shown the replay, and then what its forward task moves from the broadcast to
its channel (`Forward`, `Push`, `Show`).  A late receiver skips what the
broadcast has dropped.  PtyStream is the abstract specification: runs of bytes
that never go back, except that the last chunk of the replay may come once
more, which is the seam between the two halves of `subscribe`.  The refinement
maps `cursor` and the last run shown.

### FileTools (kfcode-tool)

Calls with a plan of operations.  `fs::write` truncates first, so writing is
`Truncate` and `Fill`; `ReadFails`, `Ask`, `ExternalRefused` and `WriteFails`
are the ways out.  A file holds the set of calls whose text is in it, so a lost
edit is a missing call.  `edit` takes the lock of its path and holds it while
it asks; the other tools take none; `apply_patch` reads everything, asks once,
then writes; `multiedit` reads and writes file by file and asks nobody.

### PluginRpc (client.rs, plugin-host.ts)

Tasks that call, stream or shut down, and the host, which handles one request
after the other and may die.  `stdout` is a sequence of frames; reading one is
two steps, header and body, because a call may time out in between: `front`
says what has become of the first frame.  A stream's reader is a task with
`rpc_lock` in its pocket, which goes on when its caller is gone.  A caller that
is dropped inside `write_request` is not modelled.  Bounds: `Tasks`, one call
each; `Capacity` of a stream's channel; `MaxChunks`.

## 3. Runs

All runs set `CHECK_DEADLOCK FALSE`: each system stops when its bounded inputs
are used up, or when no request comes.  The type invariants are theorems
(section 5); a run checks one only in `prompt_loop` (`LoopTypeOK`).

| Run | Asks | Instance | Result |
|---|---|---|---|
| `prompt_run` | the token table, the status, the locks | 3 tasks, 1 session, 3 calls of all 5 kinds | holds |
| `prompt_loop` | the conversation a run leaves, and that it ends | 2 call ids, 5 histories, 5 messages a plugin may put in an answer's place, `MAX_STEPS` 2, compaction from 3 messages | holds |
| `prompt_loop_unanswered` | "create the user message and drive the LLM loop" (prompt.rs:802) | a follow-up prompt, no plugin | **violated** |
| `responses_stream` | what was said against what is heard; the task's end | 2 items of any kind, 3 pieces, channel of 2 | holds |
| `session_store` | lost changes, busy, late snapshots, revived sessions, trees | 3 sessions, 2 prompt tasks, 1 stream, 5 requests | holds |
| `session_deleted` | "Delete a session and all its children" (session.rs:1104) | 1 session, 1 prompt task | **violated** |
| `storage_sync` | crashes, failures, overlaps, forks: what the disk holds | 2 requests, 2 sessions, 2 messages | holds, and implements DurableSessions |
| `storage_sync_overlap` | "Persists all in-memory sessions" (server.rs:218), also when syncs overlap | 2 requests, 1 session, 1 message | **violated** |
| `tui_sync` | what is shown against what the server has | 2 sessions, a prompt and a shell command, 2 events waiting | holds |
| `pty_output` | what a client of a terminal is shown | 1 client, 4 bytes, buffer of 2, channels of 1 | holds, and implements PtyStream |
| `file_tools` | lost edits, refusals, moves, locks | 2 calls of any tool, 2 files | holds |
| `plugin_rpc` | one reader, own answers, complete streams, every call ends | 2 tasks, channel of 1, 2 chunks | holds |

Why the bounds are enough to be interesting.  `prompt_run`: the worst overlap is
a prompt between the halves of another's `start` while a third call cancels or
resumes, which takes three calls on one session; sessions do not share anything
but the lock.  `prompt_loop`: two ids give rounds with several calls and the
reuse of an id; two steps give a round, a second round and the limit.  The five
messages of a plugin are a part of the calls, both with a result of the plugin's
own, no call, and two under another role, one with a subtask.
`responses_stream`: two items are what it takes to interleave, of one kind or of
two; a channel of two is full after one chunk's events, three pieces make a
text of two and another's in between.  `session_store`: two prompts of one
session interleave their clones with a stream and a change, and three sessions
make a tree of three generations.  `storage_sync`: two sessions with two
messages are what it takes to tell damage of one session from damage of
another, and losing a part from losing all.  `tui_sync`: two sessions to
navigate between, one submission that makes a session and one for what is
there, and a queue that is full before the server is done.  `pty_output`: four
bytes overrun a buffer of two twice, and a broadcast of one chunk makes every
client late; clients share nothing but the terminal's locks, so one is enough.
`file_tools`: two calls on one file are the hazard, the second file is for
patches and moves.  `plugin_rpc`: a stream that is given up and a call behind
it are the hazard; a channel of one is full at once, and a second chunk waits.

What the passing runs show.

- Overlapping starts never share a token or register a dead one, the status
  never sticks, and only a refused prompt leaves its entry behind
  (`RegisteredTokenIsLive`, `PromptsDoNotShareTokens`, `BusyHasARun`,
  `EntriesHaveRuns`).
- The results of a round of tools are those of the calls of the answer before
  them, one each, and stand directly behind it (`ResultsFollowTheirCalls`).  Two
  exceptions are in the property: a plugin that gives its answer another role,
  and what a plugin writes into its message itself.  It is not about the results
  an abort adds, nor about calls that have none yet.  However a run ends, the
  calls of its answers, as plugins left them, have results
  (`OwnCallsAreAnswered`; calls under another role do not).  A cancelled run
  closes even what a crash left open, if there is an assistant message to put
  the results on (`CancelClosesOpenCalls`).
- However items interleave, what the message holds is what was said, and a call
  whose arguments were cut is told from a whole one (`NothingLost`); every end
  has its start and a finished step has nothing open (`Bracketed`).  An answer
  that is said to have ended for its calls has brought a whole one
  (`AsksAgainForCalls`): the reason alone makes the loop ask again when the
  message has no call, while calls are run whatever the reason, cut ones too.
  The exception of `NothingLost` is in the property: thoughts of a service that
  changes its ids are dropped.
- A change acknowledged while no prompt held a clone is never lost
  (`QuietChangesSurvive`): the losses come from the clones alone, and so do
  revived sessions (`OnlyPromptsReinsert`) and orphans (`OrphansWereDeleted`).
- A sync repairs whatever an earlier one left (`SavedWhenIdle`), one that is cut
  damages one session (`ImplementsDurableSessions`), and a message is never
  under another session, whatever overlaps (`RowsBelong`).
- An optimistic message is never shown next to the server's and never left
  where no sync finds it (`ShownOnce`, `NothingLeftBehind`); whatever events
  are lost, the view and the status settle (`MessagesSettle`, `StatusSettles`),
  the status if the last query of the session dialog matches the session.
- A client of a terminal is shown bytes in order, misses only what it was too
  late for and what fell into the seam (`ImplementsPtyStream`,
  `OnlyLagAndSeamLose`), and catches up (`ClientsCatchUp`).
- The lock of `edit` does what it promises, to edits (`EditsSurviveEdits`); a
  refused call changed nothing, a `multiedit` only what came before
  (`RefusedChangesNothing`); a move keeps its text (`MoveNeverLoses`).
- No answer reaches the wrong caller, in any order of timeouts (`OwnAnswers`).

## 4. Fairness

- PromptRun: strong fairness of a task's own steps.  Tokio polls every woken
  task and its `Mutex` is FIFO.  `Call` and `LoopEnds` are not fair.
  `LoopCancelled` is: it relies on the provider to send an event or end, as the
  loop looks at its token only then.
- PromptLoop: weak fairness of the loop's steps, and `ProviderFairness`: a
  request is answered or refused, a stream delivers events and ends one day.
  Without it the code hangs (`prompt.rs:1150` has no timeout).
- ResponsesStream: weak fairness of the task and of the loop; strong fairness
  of the service's last chunk, since the task reads only between two sends: a
  service that is read again and again ends its answer one day.
- SessionStore: weak fairness of a prompt task's steps; that the run itself
  ends is `RunReturns` of PromptLoop.
- TuiSync: weak fairness of the server's task, of a request's outcome, of
  handling an event and of the two polls, which thereby succeed one day.  The
  listener has none: it may never connect again, and the properties hold.
- PtyOutput: weak fairness of a client's steps and of the reader's broadcast and
  end.  The child writes or exits when it likes.
- FileTools: strong fairness of a call's steps: fair mutexes, and a user who
  answers.
- PluginRpc: strong fairness of taking the lock and of the timeout, weak
  fairness of the other steps and of the host going on with its request.
  Without the last one `CallsReturn` fails: waiting for `rpc_lock` is outside
  the timeout, so a stream whose host is silent blocks every other call.

## 5. Proofs

Each proof module proves the types (`TypeCorrect`) and then its properties, for
every value of the constants that the named assumptions of the module allow.
None takes anything else on trust.

`PromptProofs`, of PromptRun:

- `RegisteredTokensAreLive` and `PromptTokensDiffer`.  Neither is inductive.  A
  token cancelled through one session must not be registered for another:
  `RegisteredOnce`.  A prompt must never reach a token by looking it up:
  `LookupIsResume`.  `IInv` is the conjunction, and `TokensInductive` its step.
- `BusyNeverSticks` (`BusyHasARun`) and `EntriesAreOfRuns` (`EntriesHaveRuns`),
  each inductive over the types: who gives a token up takes the entry out in
  the same step, or was refused.

and of PromptLoop, for any calls, any histories of section 2, anything plugins may
put in the place of an answer, and any limits:
`LoopTypeCorrect`, `ResultsAlwaysFollow` (`ResultsFollowTheirCalls`) with
`RunsMayFollow`, `EveryOwnCallIsAnswered` (`OwnCallsAreAnswered`) and
`CancelledRunsCloseCalls` (`CancelClosesOpenCalls`).  The three properties are about the conversation as a
whole, so the invariant `LoopIInv` says where in a round the loop is.  `Control`
ties the program point to its variables; `Answering` says that the message under
construction is one of this run and has no calls before its stream is through;
`Executing` that the calls through and those still to do are those of the last
assistant message, none twice unless a plugin named it twice, and that this is
the last message, or a plugin put the one behind it there; and `Settled` that
every call of this run's answers before that round has its result behind it.  A
step changes the conversation in one of two ways: it puts messages behind the
others (`StepsGrow`), or it replaces the last one (`LastReplaced`), which is when
the calls get into it (`FinalizeRecalls`) and when a plugin takes its place
(`HookReplaces`).  Each kind keeps the invariant (`ConversationInductive`,
`SettledInductive`).  That a cancel closes what a crash
left open is a lemma of its own (`AbortCloses`).

`PluginRpcProofs`:

- `OneReader`: `ReadersHoldTheLock`, strengthened to `Owner`: who writes has the
  lock too, and the task of a stream runs only once its caller is past the
  write, which is what makes handing the guard over sound.
- `NoForeignAnswers`: `OwnAnswers`, strengthened to `Own`: a frame in a channel
  carries the id of its stream, and a task without an id has received nothing.
- `StreamsArriveWhole`: `StreamsAreComplete`.  `Pipe` says where a request can
  be, in stdin, at the host or answered, in one of them only, and that its chunks
  are in stdout in ascending order with the end behind them (`Ids`, `Places`,
  `Frames`).  `Whole` says of each stream that the chunks its caller got and those
  in its channel are the first ones without a gap (`Through`), and of one whose
  task reads on that the others are still to come (`Pending`).  A timeout, a
  caller that left or a host that died stops the task; only the end of the stream,
  with nothing left to come, lets it end well.

`FileToolsProofs`: `EditsSurvive`, `RefusalChangesNothing`, `MovesNeverLose`.
The invariant follows a call: what it has read by then (`Reads`), that an edit
holds its lock (`Locks`), that nobody writes before the last question (`Quiet`),
that a multiedit has behind it what it wrote (`Gradual`), that what an edit read
holds what earlier edits wrote (`Carried`, `Lasting`), where the text of a move
is (`Moving`).

`SessionStoreProofs`: `QuietChangesStay`, `BusyMeansBusy`, `SnapshotsAreApplied`,
`NobodyElseReinserts`.  A prompt task holds a clone only at some points (`Held`),
and whatever it holds, or has in its channel, contains every change that was
made while nobody held a clone (`Keeps`).  `DeletesTakeTheTree`
(`OrphansWereDeleted`) needs `Family`: every id that was handed out is in the
table or was deleted, all copies of a session, in the table, in clones and in
channels, are below one parent, and each is `Attached`: it has no parent, or one
that is there, or was deleted itself.

`StorageSyncProofs`:

- `RowsStayTogether` (`RowsBelong`), for any overlap and any crash, needs only
  what a request knows of its own snapshot (`Req`).
- `NothingIsRefused`, `SyncSaves` and `Implements`, the refinement of
  DurableSessions, are for patient users.  The invariant `Phase` says what the
  sync under way has behind it and before it: what it has written is what the
  table holds, what it still has to insert is not there; `Found` says that of a
  session it is at, or at which one broke off, a part may be missing.  A crash
  keeps both, since they are about rows, and that a restart finds what
  DurableSessions allows is `Found`.
- `CrashesFindWhatWasSaved` says what that is worth to such a user, of the disk at
  every moment: a deletion that was saved is not undone, a session that was saved
  is not missing, and none holds more than it once held.

`TuiSyncProofs`: `NothingStaysBehind` and `NeverShownTwice`.  The interface's own
messages are where the progress of their request says (`Locals`), the server's
only in the session they were sent to, in its table, in the copies its tasks
work on, and in the view (`Users`).

`PtyOutputProofs`: `Implements`, the refinement of PtyStream, and
`NothingElseIsLost`; `NeverGoesBack`, that bytes are not shown out of order, is a
theorem of PtyStream that the refinement carries over.  The argument follows a
chunk: chunks are broadcast in order and without a hole (`Chunks`), a copy of the
buffer ends where one of them ends (`Copied`), a client has its chunks in order
behind the one it was shown last (`Ordered`, `Seen`), and each that it misses is
somewhere (`Delivered`).

`ResponsesStreamProofs`: `EndsWhatStarted` (`Bracketed`), `AsksForACall`
(`AsksAgainForCalls`) and `AllIsHeard` (`NothingLost`).  What the parser has open
follows from what each item is (`ItemsTell`), and equals what is open after the
channel's events and those not sent yet (`Balanced`).  For the other two, the
events in the channel and behind it are one sequence, `Ahead`, which a `Send`
does not change and from which `Hear` takes the first.  In it the end of a call
is followed by no more of its arguments (`CallsEnd`), and the end of the step by
nothing but the end of the stream (`Finishes`).  Each piece that comes through is
in the message or in `Ahead`, those in `Ahead` are in their order and behind all
that the message has (`Flows`), and so is the end of each call that was finished
(`EndsCome`); when the end of the step is heard, `Ahead` has neither, so that all
of it is in the message.  A piece comes through unless it is a thought of a
service that changes its ids (`Told`, `ThoughtsKnown`).

Only model-checked: the liveness properties (`CancelledRunReturns`,
`CallsAdvance`, `RunReturns`, `BusyEnds`, `CallsReturn` of FileTools and of
PluginRpc, `ClientsCatchUp`, `MessagesSettle`, `StatusSettles`, `TaskEnds`), since
fairness and ENABLED are out of the prover's reach.  Every invariant, action
property and refinement of a passing run is a theorem.

## 6. Where code and comments disagree

Shown by a run, and listed with their lines in `PROJECT.json` under findings:

1. `prompt_loop_unanswered`: a follow-up prompt may return the old answer
   without asking the model, since two ids that do not order are compared.
2. `session_deleted`: a session deleted while a prompt runs comes back with the
   prompt's next snapshot, and is persisted.
3. `storage_sync_overlap`: of two syncs that overlap, the one with the older
   copy of the table may write last; both end well, and a session that was
   deleted, say, is on disk again.

Met while modelling, without a run of their own:

- forked messages keep their ids, which are the primary key, so the sync after
  a fork breaks off, and so does each one after it (StorageSync);
- two prompts at once for one `SessionPrompt`, and an entry that a refused
  prompt leaves behind (PromptRun);
- a compaction message behind the last user message makes the next step fail
  with "No user message found" (PromptLoop, outcome `noUser`);
- calls of a stream that was cut by a cancellation are executed (PromptLoop); a
  connection that closes in the middle of a call ends like a normal stop, and
  the call is run with `{}`; calls get into the message in the order of a
  `HashMap` (ResponsesStream);
- a `chat.message` plugin that gives an answer with calls another role makes
  `execute_tool_calls` (prompt.rs:1523) take those of an older answer: the new
  ones are not executed, the old ones are, again; in a session without any
  assistant message a cancel then closes nothing; a plugin that withdraws the
  calls leaves the reason "tool-calls", so the loop asks again (PromptLoop);
- responses.rs:751 says that thoughts are tracked by their index because ids
  rotate, but their deltas and ends are looked up by id, so those of such a
  service are dropped; `response.failed` is no known chunk and looks like a
  normal stop; `from_utf8_lossy` per network chunk (responses.rs:1492) spoils a
  character that two chunks share;
- `multiedit` writes file by file, though `multiedit.rs:8` says atomically; a
  patch that moves a file onto itself deletes it; `edit` locks by spelling;
- a call that times out inside a frame makes the next reader of the pipe fail,
  and each one after it; `shutdown` does not kill a host that does not answer
  (PluginRpc);
- the abort endpoints (`routes.rs:1835-1855`) answer "aborted" and reach no run,
  because the run's `SessionPrompt` is the task's own, though
  `kfcode-tui/src/api.rs:471` says "Abort an in-progress session run."; the
  interface shows idle until the next poll says busy again;
- the session dialog clears its query when it opens, not when it closes, so the
  status poll skips the sessions that the last query does not match; the
  listener's client has a total timeout of 30 seconds, so the event stream
  breaks regularly, and nothing is fetched when it is back; a poll between the
  answer to a prompt and the run's first snapshot makes the message vanish for a
  moment (TuiSync);
- pty.rs:350 promises live output "after the snapshot", but a chunk in the seam
  comes twice or not at all; a terminal's status never becomes exited; aborting
  the reader has no effect (PtyOutput);
- `StdioTransport::receive` (kfcode-mcp transport.rs:104-150) reads a body right
  behind its `Content-Length` line, without the blank line that its own `send`
  writes, so such a frame is cut and does not parse; closing an old client
  clears a new client's tools by the server's name (client.rs:655-667);
  overlapping connects and disconnects can leave a server "connected" without
  a client, or "disabled" with one.

## 7. Not modelled

`PROJECT.json` lists every component with its status and reason.  Formats of
model services, rendering, configuration and calls of git have no state that
interleaves; they are most of the code, and the map covers none of them.
Message contents are abstract, so nothing here speaks of the metadata that a
restart loses (`repository.rs:518`).  The permission engine is called by no
other crate; the server's tables of permission and question requests are plain
tables under one lock with no task that waits on them.  The MCP manager keeps
hardly a promise when its requests overlap (section 6), so a model of it would
have little to check beyond what one request does.

## 8. Plan

In this order:

1. McpClient: one request at a time on one transport, its notifications and
   reloads.  Properties: own answers, the registry equals the last list loaded.
2. LspClient: pending responses against a reader that ends.
3. ApplyHunks: a recursive function against the reference meaning of a hunk.
4. TodoList; the plugin loader's hooks on top of PluginRpc.
5. Pure operators: retry delays, pruning order of the compaction.
6. A composition of SessionStore and StorageSync: the handlers' changes through
   to disk.

Proofs still worth having: of each new module, its types and its first invariant,
and that the composition of 6 keeps what its two parts promise.
