------------------------------ MODULE TuiSync ------------------------------
(***************************************************************************)
(* The terminal interface of kfcode-tui against the server (app/app.rs,    *)
(* context/session_context.rs).  One thread handles keys, ticks and the    *)
(* events that a listener thread reads from the server's event stream, and *)
(* makes its HTTP requests itself.  What it shows is a copy: a submitted   *)
(* message appears before the server knows it, events say when to fetch    *)
(* again, the stream breaks and loses events, and two polls repair what    *)
(* was missed.                                                             *)
(*                                                                         *)
(* Ticks stand in the same queue as events, but may come anywhere in it,   *)
(* so a tick may be handled whenever the thread is free.                   *)
(***************************************************************************)
EXTENDS Naturals, Sequences

CONSTANTS
    Sessions,   \* session ids the server may hand out
    Prompts,    \* what the user submits, each once
    Shells,     \* those that are shell commands
    Local,      \* the optimistic session
    Home,       \* the route without a session
    None,       \* no session
    MaxQueue    \* bound on the events that wait: the stream breaks before more

ASSUME NamesAssumption ==
    /\ Local \notin Sessions /\ Home \notin Sessions /\ None \notin Sessions
    /\ Local # Home /\ Local # None /\ Home # None
ASSUME ShellsAssumption == Shells \subseteq Prompts
ASSUME MaxQueueAssumption == MaxQueue \in Nat

VARIABLES
    \* the server
    made,       \* sessions in its table
    stored,     \* messages of each session
    run,        \* of each prompt: where its task is
    target,     \* of each prompt: the session it was sent to
    work,       \* of each prompt: the task's copy of the session's messages
    busy,       \* SESSION_RUN_STATUS: sessions that are not idle
    \* between the two
    linked,     \* whether the listener's stream is connected
    queue,      \* events that the interface has not handled
    \* the interface
    pc,         \* "loop", or the request under way: "create", "send"
    sub,        \* the submission under way
    route,      \* what is shown
    view,       \* SessionContext.messages
    status,     \* SessionContext.session_status
    pending,    \* pending_session_sync
    hidden,     \* sessions that the session dialog's query does not match
    failed      \* ghost: submissions whose request failed

server == <<made, stored, run, target, work, busy>>
link == <<linked, queue>>
shown == <<route, view, status>>
dialogs == <<pending, hidden>>
vars == <<server, link, pc, sub, shown, dialogs, failed>>

Messages == {"local", "user", "reply"} \X Prompts
Places == Sessions \cup {Local}
Submissions == [prompt : Prompts, home : BOOLEAN]
NoSub == [prompt |-> None, home |-> FALSE]

Fresh == {p \in Prompts : run[p] = "none" /\ \A f \in failed : f.prompt # p}

Init ==
    /\ made = {}
    /\ stored = [s \in Sessions |-> {}]
    /\ run = [p \in Prompts |-> "none"]
    /\ target = [p \in Prompts |-> None]
    /\ work = [p \in Prompts |-> {}]
    /\ busy = {}
    /\ linked = FALSE
    /\ queue = <<>>
    /\ pc = "loop"
    /\ sub = NoSub
    /\ route = Home
    /\ view = [s \in Places |-> {}]
    /\ status = [s \in Places |-> "idle"]
    /\ pending = None
    /\ hidden = {}
    /\ failed = {}

-----------------------------------------------------------------------------
(* The server: what session_prompt's task does to a session and what it    *)
(* broadcasts (SessionStore has it in full).                               *)

\* An event reaches the interface's queue while the stream is connected.
Tell(kind, s) ==
    /\ linked' = (linked /\ Len(queue) < MaxQueue)
    /\ queue' = IF linked' THEN Append(queue, <<kind, s>>) ELSE queue

RunStarts(p) ==
    /\ run[p] = "spawned"
    /\ run' = [run EXCEPT ![p] = "busy"]
    /\ work' = [work EXCEPT ![p] = stored[target[p]]]
    /\ busy' = busy \cup {target[p]}
    /\ Tell("busy", target[p])
    /\ UNCHANGED <<made, stored, target, pc, sub, shown, dialogs, failed>>

\* The run puts its copy into the table, with the user's message.
RunEmits(p) ==
    /\ run[p] = "busy"
    /\ <<"user", p>> \notin work[p]
    /\ work' = [work EXCEPT ![p] = @ \cup {<<"user", p>>}]
    /\ stored' = [stored EXCEPT ![target[p]] = work'[p]]
    /\ Tell("updated", target[p])
    /\ UNCHANGED <<made, run, target, busy, pc, sub, shown, dialogs, failed>>

\* The answer, or the message that says what went wrong.
RunEnds(p) ==
    /\ run[p] = "busy"
    /\ run' = [run EXCEPT ![p] = "ended"]
    /\ work' = [work EXCEPT ![p] = @ \cup {<<"reply", p>>}]
    /\ stored' = [stored EXCEPT ![target[p]] = work'[p]]
    /\ Tell("updated", target[p])
    /\ UNCHANGED <<made, target, busy, pc, sub, shown, dialogs, failed>>

RunIdles(p) ==
    /\ run[p] = "ended"
    /\ run' = [run EXCEPT ![p] = "done"]
    /\ work' = [work EXCEPT ![p] = {}]
    /\ busy' = busy \ {target[p]}
    /\ Tell("idle", target[p])
    /\ UNCHANGED <<made, stored, target, pc, sub, shown, dialogs, failed>>

ServerStep(p) == RunStarts(p) \/ RunEmits(p) \/ RunEnds(p) \/ RunIdles(p)

\* The listener connects, and reconnects after any kind of end.  What is
\* broadcast in the meantime, or is on its way when the stream breaks, is lost.
Connect == ~linked /\ linked' = TRUE /\ UNCHANGED <<server, queue, pc, sub, shown, dialogs, failed>>
Disconnect == linked /\ linked' = FALSE /\ UNCHANGED <<server, queue, pc, sub, shown, dialogs, failed>>

-----------------------------------------------------------------------------
(* Fetching.                                                               *)

\* (mutant) what is there already stays.
SyncMerges(s) == view' = [view EXCEPT ![s] = @ \cup stored[s]]

\* sync_session_from_server: the messages are replaced as a whole.
Sync(s) == view' = [view EXCEPT ![s] = stored[s]]

\* A request to the server, or its answer, may be lost: nothing changes then.
TrySync(s) == Sync(s) \/ UNCHANGED view

\* (mutant) while the stream is up, the events are enough.
PollSessionUnlessLinked ==
    /\ pc = "loop"
    /\ ~linked
    /\ route \in made
    /\ Sync(route)
    /\ UNCHANGED <<server, link, pc, sub, route, status, dialogs, failed>>

\* The 2-second poll of a Tick.
PollSession ==
    /\ pc = "loop"
    /\ route \in made
    /\ Sync(route)
    /\ UNCHANGED <<server, link, pc, sub, route, status, dialogs, failed>>

\* What a Tick does for an update that came too soon after the last fetch.
PollPending ==
    /\ pc = "loop"
    /\ route \in made
    /\ pending = route
    /\ Sync(route)
    /\ pending' = None
    /\ UNCHANGED <<server, link, pc, sub, route, status, hidden, failed>>

\* (mutant) only the sessions that are busy are looked at.
PollStatusBusyOnly ==
    /\ pc = "loop"
    /\ status' = [s \in Places |-> IF s \in busy \ hidden THEN "running" ELSE status[s]]
    /\ UNCHANGED <<server, link, pc, sub, route, view, dialogs, failed>>

\* The 5-second poll: refresh_session_list_dialog lists the sessions that
\* match the dialog's query, whether or not the dialog is open.
PollStatus ==
    /\ pc = "loop"
    /\ status' = [s \in Places |->
                     IF s \in made \ hidden
                     THEN IF s \in busy THEN "running" ELSE "idle"
                     ELSE status[s]]
    /\ UNCHANGED <<server, link, pc, sub, route, view, dialogs, failed>>

-----------------------------------------------------------------------------
(* Events.                                                                 *)

\* session.updated: fetched at once, or left to a Tick when the last fetch
\* was less than 50 ms ago.
HandleUpdated(s) ==
    /\ \/ route = s /\ TrySync(s) /\ pending' = None
       \/ route = s /\ pending' = s /\ UNCHANGED view
       \/ route # s /\ UNCHANGED <<view, pending>>
    /\ UNCHANGED <<route, status, hidden>>

HandleStatus(s, value) ==
    /\ status' = [status EXCEPT ![s] = value]
    /\ UNCHANGED <<route, view, dialogs>>

HandleEvent ==
    /\ pc = "loop"
    /\ queue # <<>>
    /\ queue' = Tail(queue)
    /\ LET kind == Head(queue)[1]
           s == Head(queue)[2]
       IN \/ kind = "updated" /\ HandleUpdated(s)
          \/ kind = "busy" /\ HandleStatus(s, "running")
          \/ kind = "idle" /\ HandleStatus(s, "idle")
    /\ UNCHANGED <<server, linked, pc, sub, failed>>

-----------------------------------------------------------------------------
(* The user.                                                               *)

Optimistic(s, p) == view' = [view EXCEPT ![s] = @ \cup {<<"local", p>>}]

\* submit_prompt and submit_shell_command: the message is shown before the
\* request is made, in a session made up for it when there is none.
Submit ==
    /\ pc = "loop"
    /\ \E p \in Fresh :
          /\ sub' = [prompt |-> p, home |-> route = Home]
          /\ LET s == IF route = Home THEN Local ELSE route IN
             /\ Optimistic(s, p)
             /\ route' = s
             /\ status' = IF p \in Shells THEN status ELSE [status EXCEPT ![s] = "running"]
    /\ pc' = IF route = Home THEN "create" ELSE "send"
    /\ UNCHANGED <<server, link, dialogs, failed>>

\* remove_optimistic_session
DropLocal ==
    /\ view' = [view EXCEPT ![Local] = {}]
    /\ status' = [status EXCEPT ![Local] = "idle"]

\* promote_optimistic_session: what was shown moves to the server's session.
Promote(s) ==
    /\ view' = [view EXCEPT ![s] = view[Local], ![Local] = {}]
    /\ status' = [status EXCEPT ![s] = status[Local], ![Local] = "idle"]

Created ==
    /\ pc = "create"
    /\ \E s \in Sessions \ made :
          /\ made' = made \cup {s}
          /\ Promote(s)
          /\ route' = s
    /\ pc' = "send"
    /\ UNCHANGED <<stored, run, target, work, busy, link, sub, dialogs, failed>>

\* The request fails, or only its answer is lost.
CreateFails ==
    /\ pc = "create"
    /\ \/ UNCHANGED made
       \/ \E s \in Sessions \ made : made' = made \cup {s}
    /\ DropLocal
    /\ route' = Home
    /\ failed' = failed \cup {sub}
    /\ pc' = "loop"
    /\ sub' = NoSub
    /\ UNCHANGED <<stored, run, target, work, busy, link, dialogs>>

\* The server takes a prompt and answers at once, or files a shell command.
Accept ==
    LET p == sub.prompt IN
    IF sub.prompt \in Shells
    THEN /\ stored' = [stored EXCEPT ![route] = @ \cup {<<"user", p>>, <<"reply", p>>}]
         /\ run' = [run EXCEPT ![p] = "done"]
         /\ target' = [target EXCEPT ![p] = route]
    ELSE /\ run' = [run EXCEPT ![p] = "spawned"]
         /\ target' = [target EXCEPT ![p] = route]
         /\ UNCHANGED stored

Sent ==
    /\ pc = "send"
    /\ Accept
    /\ IF sub.prompt \in Shells
       THEN /\ status' = [status EXCEPT ![route] = "idle"]
            /\ \/ view' = [view EXCEPT ![route] = stored'[route]]
               \/ UNCHANGED view
       ELSE /\ status' = IF sub.home THEN [status EXCEPT ![route] = "running"] ELSE status
            /\ UNCHANGED view
    /\ pc' = "loop"
    /\ sub' = NoSub
    /\ UNCHANGED <<made, work, busy, link, route, dialogs, failed>>

\* (mutant) the message that was not sent stays.
SendFailsVisibly ==
    /\ pc = "send"
    /\ UNCHANGED <<stored, run, target, view>>
    /\ status' = IF sub.prompt \in Shells THEN status ELSE [status EXCEPT ![route] = "idle"]
    /\ failed' = failed \cup {sub}
    /\ pc' = "loop"
    /\ sub' = NoSub
    /\ UNCHANGED <<made, work, busy, link, route, dialogs>>

\* remove_optimistic_message, which a shell command in a new session leaves out.
SendFails ==
    /\ pc = "send"
    /\ Accept \/ UNCHANGED <<stored, run, target>>
    /\ view' = IF sub.prompt \in Shells /\ sub.home
               THEN view
               ELSE [view EXCEPT ![route] = @ \ {<<"local", sub.prompt>>}]
    /\ status' = IF sub.prompt \in Shells THEN status ELSE [status EXCEPT ![route] = "idle"]
    /\ failed' = failed \cup {sub}
    /\ pc' = "loop"
    /\ sub' = NoSub
    /\ UNCHANGED <<made, work, busy, link, route, dialogs>>

\* Escape twice: the request is made, whatever comes of it the session is
\* shown as idle.  The server answers "aborted" and does nothing.
Interrupt ==
    /\ pc = "loop"
    /\ route \in Sessions
    /\ status[route] # "idle"
    /\ status' = [status EXCEPT ![route] = "idle"]
    /\ UNCHANGED <<server, link, pc, sub, route, view, dialogs, failed>>

\* A session is picked from the list.
OpenSession ==
    /\ pc = "loop"
    /\ \E s \in made :
          /\ route' = s
          /\ TrySync(s)
    /\ UNCHANGED <<server, link, pc, sub, status, dialogs, failed>>

NewSession ==
    /\ pc = "loop"
    /\ route' = Home
    /\ UNCHANGED <<server, link, pc, sub, view, status, dialogs, failed>>

\* The list is opened, which clears its query, searched, and closed, which
\* does not.
Search ==
    /\ pc = "loop"
    /\ hidden' \in SUBSET Sessions
    /\ UNCHANGED <<server, link, pc, sub, shown, pending, failed>>

Request == Created \/ CreateFails \/ Sent \/ SendFails

Next ==
    \/ \E p \in Prompts : ServerStep(p)
    \/ Connect \/ Disconnect
    \/ PollSession \/ PollPending \/ PollStatus \/ HandleEvent
    \/ Submit \/ Request \/ Interrupt \/ OpenSession \/ NewSession \/ Search

Spec == Init /\ [][Next]_vars

Fairness ==
    /\ \A p \in Prompts : WF_vars(ServerStep(p))
    /\ WF_vars(Request)
    /\ WF_vars(HandleEvent)
    /\ WF_vars(PollSession)
    /\ WF_vars(PollStatus)
FairSpec == Spec /\ Fairness

-----------------------------------------------------------------------------
(* Properties.                                                             *)

TypeOK ==
    /\ made \in SUBSET Sessions
    /\ stored \in [Sessions -> SUBSET Messages]
    /\ run \in [Prompts -> {"none", "spawned", "busy", "ended", "done"}]
    /\ target \in [Prompts -> made \cup {None}]
    /\ work \in [Prompts -> SUBSET Messages]
    /\ busy \in SUBSET made
    /\ linked \in BOOLEAN
    /\ queue \in Seq({"updated", "busy", "idle"} \X Sessions)
    /\ pc \in {"loop", "create", "send"}
    /\ sub \in Submissions \cup {NoSub}
    /\ route \in made \cup {Home, Local}
    /\ view \in [Places -> SUBSET Messages]
    /\ status \in [Places -> {"idle", "running"}]
    /\ pending \in made \cup {None}
    /\ hidden \in SUBSET Sessions
    /\ failed \in SUBSET Submissions

\* What the user typed is never shown twice, as the interface's own copy and
\* as the server's, and never in a session it was not sent to.
ShownOnce ==
    \A s \in Sessions, p \in Prompts :
        /\ ~ ({<<"local", p>>, <<"user", p>>} \subseteq view[s])
        /\ <<"user", p>> \in view[s] => target[p] = s

\* The session that was made up for a message is shown, and holds anything,
\* only while the request for a real one is under way: no message is left
\* where no sync will ever find it.  And a message whose request failed is
\* not left behind, with one exception: a shell command that was the first
\* thing said in its session.
NothingLeftBehind ==
    /\ pc # "create" => route # Local /\ view[Local] = {} /\ status[Local] = "idle"
    /\ \A s \in Sessions, f \in failed :
          <<"local", f.prompt>> \in view[s] => f.prompt \in Shells /\ f.home

\* Once the server is done, a session the user stays at shows exactly what
\* the server has, whatever events were lost.
MessagesSettle ==
    \A s \in Sessions : <>[](route = s) => <>[](view[s] = stored[s])

\* Once the server is done, a session is shown as busy only if it is, whatever
\* events were lost and whatever was interrupted or failed: if the dialog's
\* last query matches it.
StatusSettles ==
    \A s \in Sessions :
        <>[](s \in made \ hidden) => <>[](status[s] = "running" <=> s \in busy)
=============================================================================
