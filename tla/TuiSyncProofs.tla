--------------------------- MODULE TuiSyncProofs ---------------------------
(***************************************************************************)
(* TuiSync for any number of sessions and submissions, and an event queue  *)
(* of any length: the types, and that nothing is shown twice or left       *)
(* behind.  What is shown depends on how far a submission got, so the      *)
(* invariant says where the interface's own messages may be at each point  *)
(* of a request (Locals), and that the server's messages are found only in *)
(* the session they were sent to, in its table, in the copies its tasks    *)
(* work on and in the view (Users).                                        *)
(***************************************************************************)
EXTENDS TuiSync, TLAPS

\* A request under way is about a submission that nobody has heard of yet.
Requests ==
    pc # "loop" =>
        /\ sub \in Submissions
        /\ run[sub.prompt] = "none"
        /\ \A f \in failed : f.prompt # sub.prompt
        /\ pc = "create" => route = Local
        /\ pc = "send" => route \in made

\* The server knows a submission's session exactly if it accepted it.
Targets == \A p \in Prompts : run[p] = "none" <=> target[p] = None

Users ==
    /\ \A s \in Sessions, p \in Prompts :
          <<"user", p>> \in stored[s] \cup view[s] => target[p] = s
    /\ \A q \in Prompts, p \in Prompts :
          <<"user", p>> \in work[q] => target[p] = target[q] /\ target[q] # None
    /\ \A p \in Prompts : <<"user", p>> \notin view[Local]

\* Submissions that were made.
Submitted(p) ==
    \/ run[p] # "none"
    \/ \E f \in failed : f.prompt = p
    \/ pc # "loop" /\ sub.prompt = p

Locals ==
    /\ \A s \in Sessions, p \in Prompts : <<"local", p>> \notin stored[s]
    /\ \A q \in Prompts, p \in Prompts : <<"local", p>> \notin work[q]
    /\ \A x \in Places, p \in Prompts : <<"local", p>> \in view[x] => Submitted(p)
    /\ pc = "create" =>
          /\ \A p \in Prompts : <<"local", p>> \in view[Local] => p = sub.prompt
          /\ \A s \in Sessions : <<"local", sub.prompt>> \notin view[s]
    /\ pc = "send" => \A s \in Sessions : <<"local", sub.prompt>> \in view[s] => s = route

\* The part of ShownOnce that Users does not say.
Alone ==
    \A s \in Sessions, p \in Prompts :
        <<"local", p>> \in view[s] => <<"user", p>> \notin view[s]

IInv == TypeOK /\ Requests /\ Targets /\ Users /\ Locals /\ NothingLeftBehind /\ Alone

Tellings == {"updated", "busy", "idle"} \X Sessions

LEMMA TellType ==
  ASSUME queue \in Seq(Tellings), NEW kind \in {"updated", "busy", "idle"}, NEW s \in Sessions,
         Tell(kind, s)
  PROVE  queue' \in Seq(Tellings) /\ linked' \in BOOLEAN
<1>1. linked' \in BOOLEAN
  BY DEF Tell
<1>2. <<kind, s>> \in Tellings
  BY DEF Tellings
<1>3. Append(queue, <<kind, s>>) \in Seq(Tellings)
  BY <1>2
<1> QED
  BY <1>1, <1>3 DEF Tell

-----------------------------------------------------------------------------
\* Every step of the server, the link, the interface and the user keeps it.
LEMMA Inductive == IInv /\ [Next]_vars => IInv'
<1> SUFFICES ASSUME IInv, [Next]_vars PROVE IInv'
  OBVIOUS
<1> USE NamesAssumption DEF IInv, TypeOK, Places
<1>1. ASSUME NEW p \in Prompts, RunStarts(p) PROVE IInv'
  <2>a. target[p] \in made
    BY <1>1 DEF RunStarts, Targets
  <2>b. queue' \in Seq(Tellings) /\ linked' \in BOOLEAN
    BY <1>1, <2>a, TellType DEF RunStarts, Tellings
  <2>1. TypeOK'
    BY <1>1, <2>a, <2>b DEF RunStarts, Tellings, Messages, shown, dialogs
  <2>2. Requests'
    BY <1>1 DEF RunStarts, Requests, Submissions, NoSub, shown, dialogs
  <2>3. Targets'
    BY <1>1 DEF RunStarts, Targets, Requests, shown, dialogs
  <2>4. Users'
    BY <1>1 DEF RunStarts, Users, Targets, Requests, Locals, shown, dialogs
  <2>5. Locals'
    <3>1. \A u \in Prompts : Submitted(u) => Submitted(u)'
      BY <1>1 DEF RunStarts, Submitted
    <3> QED
      BY <1>1, <3>1, <2>a DEF RunStarts, Locals, shown, dialogs
  <2>6. NothingLeftBehind'
    BY <1>1 DEF RunStarts, NothingLeftBehind, Locals, Requests, Submitted, shown, dialogs
  <2>7. Alone'
    BY <1>1 DEF RunStarts, Alone, server, link, shown, dialogs
  <2> QED
    BY <2>1, <2>2, <2>3, <2>4, <2>5, <2>6, <2>7
<1>2. ASSUME NEW p \in Prompts, RunEmits(p) PROVE IInv'
  <2>a. target[p] \in made
    BY <1>2 DEF RunEmits, Targets
  <2>b. queue' \in Seq(Tellings) /\ linked' \in BOOLEAN
    BY <1>2, <2>a, TellType DEF RunEmits, Tellings
  <2>1. TypeOK'
    BY <1>2, <2>a, <2>b DEF RunEmits, Tellings, Messages, shown, dialogs
  <2>2. Requests'
    BY <1>2 DEF RunEmits, Requests, Submissions, NoSub, shown, dialogs
  <2>3. Targets'
    BY <1>2 DEF RunEmits, Targets, Requests, shown, dialogs
  <2>4. Users'
    BY <1>2 DEF RunEmits, Users, Targets, Requests, Locals, shown, dialogs
  <2>5. Locals'
    BY <1>2 DEF RunEmits, Locals, Submitted, Requests, Users, NothingLeftBehind, shown, dialogs
  <2>6. NothingLeftBehind'
    BY <1>2 DEF RunEmits, NothingLeftBehind, Locals, Requests, Submitted, shown, dialogs
  <2>7. Alone'
    BY <1>2 DEF RunEmits, Alone, server, link, shown, dialogs
  <2> QED
    BY <2>1, <2>2, <2>3, <2>4, <2>5, <2>6, <2>7
<1>3. ASSUME NEW p \in Prompts, RunEnds(p) PROVE IInv'
  <2>a. target[p] \in made
    BY <1>3 DEF RunEnds, Targets
  <2>b. queue' \in Seq(Tellings) /\ linked' \in BOOLEAN
    BY <1>3, <2>a, TellType DEF RunEnds, Tellings
  <2>1. TypeOK'
    BY <1>3, <2>a, <2>b DEF RunEnds, Tellings, Messages, shown, dialogs
  <2>2. Requests'
    BY <1>3 DEF RunEnds, Requests, Submissions, NoSub, shown, dialogs
  <2>3. Targets'
    BY <1>3 DEF RunEnds, Targets, Requests, shown, dialogs
  <2>4. Users'
    BY <1>3 DEF RunEnds, Users, Targets, Requests, Locals, shown, dialogs
  <2>5. Locals'
    <3>1. \A u \in Prompts : Submitted(u) => Submitted(u)'
      BY <1>3 DEF RunEnds, Submitted
    <3> QED
      BY <1>3, <3>1, <2>a DEF RunEnds, Locals, shown, dialogs
  <2>6. NothingLeftBehind'
    BY <1>3 DEF RunEnds, NothingLeftBehind, Locals, Requests, Submitted, shown, dialogs
  <2>7. Alone'
    BY <1>3 DEF RunEnds, Alone, server, link, shown, dialogs
  <2> QED
    BY <2>1, <2>2, <2>3, <2>4, <2>5, <2>6, <2>7
<1>4. ASSUME NEW p \in Prompts, RunIdles(p) PROVE IInv'
  <2>a. target[p] \in made
    BY <1>4 DEF RunIdles, Targets
  <2>b. queue' \in Seq(Tellings) /\ linked' \in BOOLEAN
    BY <1>4, <2>a, TellType DEF RunIdles, Tellings
  <2>1. TypeOK'
    BY <1>4, <2>a, <2>b DEF RunIdles, Tellings, Messages, shown, dialogs
  <2>2. Requests'
    BY <1>4 DEF RunIdles, Requests, Submissions, NoSub, shown, dialogs
  <2>3. Targets'
    BY <1>4 DEF RunIdles, Targets, Requests, shown, dialogs
  <2>4. Users'
    BY <1>4 DEF RunIdles, Users, Targets, Requests, Locals, shown, dialogs
  <2>5. Locals'
    <3>1. \A u \in Prompts : Submitted(u) => Submitted(u)'
      BY <1>4 DEF RunIdles, Submitted
    <3> QED
      BY <1>4, <3>1, <2>a DEF RunIdles, Locals, shown, dialogs
  <2>6. NothingLeftBehind'
    BY <1>4 DEF RunIdles, NothingLeftBehind, Locals, Requests, Submitted, shown, dialogs
  <2>7. Alone'
    BY <1>4 DEF RunIdles, Alone, server, link, shown, dialogs
  <2> QED
    BY <2>1, <2>2, <2>3, <2>4, <2>5, <2>6, <2>7
<1>5. ASSUME Connect PROVE IInv'
  <2>1. TypeOK'
    BY <1>5 DEF Connect, Requests, Messages, Submissions, NoSub, server, link, shown, dialogs
  <2>2. Requests'
    BY <1>5 DEF Connect, Requests, Submissions, NoSub, server, link, shown, dialogs
  <2>3. Targets'
    BY <1>5 DEF Connect, Targets, Requests, server, link, shown, dialogs
  <2>4. Users'
    BY <1>5 DEF Connect, Users, Targets, Requests, Locals, server, link, shown, dialogs
  <2>5. Locals'
    BY ZenonT(60), <1>5 DEF Connect, Locals, Submitted, Requests, Users, NothingLeftBehind, server, link,
       shown, dialogs
  <2>6. NothingLeftBehind'
    BY <1>5 DEF Connect, NothingLeftBehind, Locals, Requests, Submitted, server, link, shown,
       dialogs
  <2>7. Alone'
    BY <1>5 DEF Connect, Alone, server, link, shown, dialogs
  <2> QED
    BY <2>1, <2>2, <2>3, <2>4, <2>5, <2>6, <2>7
<1>6. ASSUME Disconnect PROVE IInv'
  <2>1. TypeOK'
    BY <1>6 DEF Disconnect, Requests, Messages, Submissions, NoSub, server, link, shown, dialogs
  <2>2. Requests'
    BY <1>6 DEF Disconnect, Requests, Submissions, NoSub, server, link, shown, dialogs
  <2>3. Targets'
    BY <1>6 DEF Disconnect, Targets, Requests, server, link, shown, dialogs
  <2>4. Users'
    BY <1>6 DEF Disconnect, Users, Targets, Requests, Locals, server, link, shown, dialogs
  <2>5. Locals'
    BY <1>6 DEF Disconnect, Locals, Submitted, Requests, Users, NothingLeftBehind, server, link,
       shown, dialogs
  <2>6. NothingLeftBehind'
    BY <1>6 DEF Disconnect, NothingLeftBehind, Locals, Requests, Submitted, server, link, shown,
       dialogs
  <2>7. Alone'
    BY <1>6 DEF Disconnect, Alone, server, link, shown, dialogs
  <2> QED
    BY <2>1, <2>2, <2>3, <2>4, <2>5, <2>6, <2>7
<1>7. ASSUME PollSession PROVE IInv'
  <2>1. TypeOK'
    BY <1>7 DEF PollSession, Requests, Messages, Submissions, NoSub, server, link, shown,
       dialogs, Sync
  <2>2. Requests'
    BY <1>7 DEF PollSession, Requests, Submissions, NoSub, server, link, shown, dialogs, Sync
  <2>3. Targets'
    BY <1>7 DEF PollSession, Targets, Requests, server, link, shown, dialogs, Sync
  <2>4. Users'
    BY <1>7 DEF PollSession, Users, Targets, Requests, Locals, server, link, shown, dialogs, Sync
  <2>5. Locals'
    BY <1>7 DEF PollSession, Locals, Submitted, Requests, Users, NothingLeftBehind, server, link,
       shown, dialogs, Sync
  <2>6. NothingLeftBehind'
    BY <1>7 DEF PollSession, Sync, NothingLeftBehind, Locals, Submissions, server, link
  <2>7. Alone'
    BY <1>7 DEF PollSession, Sync, Locals, Alone, server, link, shown, dialogs
  <2> QED
    BY <2>1, <2>2, <2>3, <2>4, <2>5, <2>6, <2>7
<1>8. ASSUME PollPending PROVE IInv'
  <2>1. TypeOK'
    BY <1>8 DEF PollPending, Requests, Messages, Submissions, NoSub, server, link, shown,
       dialogs, Sync
  <2>2. Requests'
    BY <1>8 DEF PollPending, Requests, Submissions, NoSub, server, link, shown, dialogs, Sync
  <2>3. Targets'
    BY <1>8 DEF PollPending, Targets, Requests, server, link, shown, dialogs, Sync
  <2>4. Users'
    BY <1>8 DEF PollPending, Users, Targets, Requests, Locals, server, link, shown, dialogs, Sync
  <2>5. Locals'
    BY <1>8 DEF PollPending, Locals, Submitted, Requests, Users, NothingLeftBehind, server, link,
       shown, dialogs, Sync
  <2>6. NothingLeftBehind'
    BY <1>8 DEF PollPending, Sync, NothingLeftBehind, Locals, Submissions, server, link
  <2>7. Alone'
    BY <1>8 DEF PollPending, Sync, Locals, Alone, server, link, shown, dialogs
  <2> QED
    BY <2>1, <2>2, <2>3, <2>4, <2>5, <2>6, <2>7
<1>9. ASSUME PollStatus PROVE IInv'
  <2>1. TypeOK'
    BY <1>9 DEF PollStatus, Requests, Messages, Submissions, NoSub, server, link, shown, dialogs
  <2>2. Requests'
    BY <1>9 DEF PollStatus, Requests, Submissions, NoSub, server, link, shown, dialogs
  <2>3. Targets'
    BY <1>9 DEF PollStatus, Targets, Requests, server, link, shown, dialogs
  <2>4. Users'
    BY <1>9 DEF PollStatus, Users, Targets, Requests, Locals, server, link, shown, dialogs
  <2>5. Locals'
    BY <1>9 DEF PollStatus, Locals, Submitted, Requests, Users, NothingLeftBehind, server, link,
       shown, dialogs
  <2>6. NothingLeftBehind'
    BY <1>9 DEF PollStatus, NothingLeftBehind, Locals, Requests, Submitted, server, link, shown,
       dialogs
  <2>7. Alone'
    BY <1>9 DEF PollStatus, Alone, server, link, shown, dialogs
  <2> QED
    BY <2>1, <2>2, <2>3, <2>4, <2>5, <2>6, <2>7
<1>10. ASSUME HandleEvent PROVE IInv'
  <2>a. Head(queue) \in Tellings /\ queue' \in Seq(Tellings)
    BY <1>10 DEF HandleEvent, Tellings
  <2>b. Head(queue)[2] \in Sessions
    BY <2>a DEF Tellings
  <2>v. view' = view \/ view' = [view EXCEPT ![Head(queue)[2]] = stored[Head(queue)[2]]]
    BY <1>10 DEF HandleEvent, HandleUpdated, HandleStatus, TrySync, Sync
  <2>s. status' = status \/ \E x \in {"idle", "running"} : status' = [status EXCEPT ![Head(queue)[2]] = x]
    BY <1>10 DEF HandleEvent, HandleUpdated, HandleStatus
  <2>c. view' \in [Places -> SUBSET Messages] /\ status' \in [Places -> {"idle", "running"}]
    BY <2>b, <2>v, <2>s
  <2>e. /\ \A s \in Sessions : view'[s] = view[s] \/ view'[s] = stored[s]
        /\ view'[Local] = view[Local] /\ status'[Local] = status[Local]
    BY <2>b, <2>v, <2>s
  <2>f. UNCHANGED <<server, pc, sub, failed, route>>
    BY <1>10 DEF HandleEvent, HandleUpdated, HandleStatus
  <2>d. pending' \in made \cup {None}
    BY <1>10 DEF HandleEvent, HandleUpdated, HandleStatus, dialogs
  <2>1. TypeOK'
    BY <1>10, <2>a, <2>c, <2>d DEF HandleEvent, HandleUpdated, HandleStatus, Tellings, server,
       dialogs
  <2>2. Requests'
    BY <1>10 DEF HandleEvent, HandleUpdated, HandleStatus, Requests, Submissions, NoSub, server,
       link, shown, dialogs, Sync, TrySync
  <2>3. Targets'
    BY <1>10 DEF HandleEvent, HandleUpdated, HandleStatus, Targets, Requests, server, link,
       shown, dialogs, Sync, TrySync
  <2>4. Users'
    BY <1>10 DEF HandleEvent, HandleUpdated, HandleStatus, Users, Targets, Requests, Locals,
       server, link, shown, dialogs, Sync, TrySync
  <2>5. Locals'
    <3>1. \A u \in Prompts : Submitted(u) <=> Submitted(u)'
      BY <2>f DEF Submitted, server
    <3>2. \A x \in Places, p \in Prompts : <<"local", p>> \in view'[x] => <<"local", p>> \in view[x]
      BY <2>e DEF Locals
    <3>3. UNCHANGED <<stored, work>>
      BY <2>f DEF server
    <3>4. /\ \A s \in Sessions, p \in Prompts : <<"local", p>> \notin stored'[s]
          /\ \A q \in Prompts, p \in Prompts : <<"local", p>> \notin work'[q]
      BY <3>3 DEF Locals
    <3>5. \A x \in Places, p \in Prompts : <<"local", p>> \in view'[x] => Submitted(p)'
      BY <3>1, <3>2 DEF Locals
    <3>6. pc = "create" \/ pc = "send" => sub.prompt \in Prompts
      BY DEF Requests, Submissions
    <3>7. pc' = "create" =>
            /\ \A p \in Prompts : <<"local", p>> \in view'[Local] => p = sub'.prompt
            /\ \A s \in Sessions : <<"local", sub'.prompt>> \notin view'[s]
      BY <2>f, <3>2, <3>6 DEF Locals
    <3>8. pc' = "send" => \A s \in Sessions : <<"local", sub'.prompt>> \in view'[s] => s = route'
      BY <2>f, <3>2, <3>6 DEF Locals
    <3> QED
      BY <3>4, <3>5, <3>7, <3>8 DEF Locals
  <2>6. NothingLeftBehind'
    BY <2>e, <2>f DEF NothingLeftBehind, Locals, Submissions
  <2>7. Alone'
    BY <2>e DEF Alone, Locals
  <2> QED
    BY <2>1, <2>2, <2>3, <2>4, <2>5, <2>6, <2>7
<1>11. ASSUME Submit PROVE IInv'
  <2>1. TypeOK'
    BY <1>11 DEF Submit, Optimistic, Fresh, Requests, Messages, Submissions, NoSub, server, link,
       shown, dialogs
  <2>2. Requests'
    <3>1. PICK p \in Fresh : sub' = [prompt |-> p, home |-> route = Home]
      BY <1>11 DEF Submit
    <3>2. p \in Prompts /\ run[p] = "none" /\ \A f \in failed : f.prompt # p
      BY <3>1 DEF Fresh
    <3>3. sub'.prompt = p /\ sub' \in Submissions
      BY <3>1, <3>2 DEF Submissions
    <3> QED
      BY <1>11, <3>2, <3>3 DEF Submit, Requests, NothingLeftBehind, server
  <2>3. Targets'
    BY <1>11 DEF Submit, Optimistic, Fresh, Targets, Requests, server, link, shown, dialogs
  <2>4. Users'
    BY <1>11 DEF Submit, Optimistic, Fresh, Users, Targets, Requests, Locals, server, link,
       shown, dialogs
  <2>5. Locals'
    BY <1>11 DEF Submit, Optimistic, Fresh, Locals, Submitted, Requests, Users,
       NothingLeftBehind, server, link, shown, dialogs
  <2>6. NothingLeftBehind'
    BY <1>11 DEF Submit, Optimistic, Fresh, NothingLeftBehind, Locals, Requests, Submitted,
       server, link, shown, dialogs
  <2>7. Alone'
    <3>1. PICK p \in Fresh : \E x \in Places : view' = [view EXCEPT ![x] = @ \cup {<<"local", p>>}]
      BY <1>11 DEF Submit, Optimistic
    <3>2. p \in Prompts /\ target[p] = None
      BY <3>1 DEF Fresh, Targets
    <3>3. \A s \in Sessions : <<"user", p>> \notin view[s]
      BY <3>2 DEF Users
    <3>4. \A s \in Sessions : view'[s] = view[s] \/ view'[s] = view[s] \cup {<<"local", p>>}
      BY <3>1
    <3> QED
      BY <3>3, <3>4 DEF Alone
  <2> QED
    BY <2>1, <2>2, <2>3, <2>4, <2>5, <2>6, <2>7
<1>12. ASSUME Created PROVE IInv'
  <2>a. PICK s \in Sessions \ made :
          /\ made' = made \cup {s}
          /\ view' = [view EXCEPT ![s] = view[Local], ![Local] = {}]
          /\ status' = [status EXCEPT ![s] = status[Local], ![Local] = "idle"]
          /\ route' = s
    BY <1>12 DEF Created, Promote
  <2>b. view'[s] = view[Local] /\ view'[Local] = {}
        /\ \A r \in Sessions : r # s => view'[r] = view[r]
    BY <2>a
  <2>c. /\ sub \in Submissions /\ run[sub.prompt] = "none" /\ \A f \in failed : f.prompt # sub.prompt
        /\ pc = "create" /\ pc' = "send"
        /\ UNCHANGED <<stored, run, target, work, busy, sub, failed>>
    BY <1>12 DEF Created, Requests
  <2>1. TypeOK'
    <3>1. target' \in [Prompts -> made' \cup {None}] /\ busy' \in SUBSET made'
      BY <2>a, <2>c
    <3>2. view' \in [Places -> SUBSET Messages] /\ status' \in [Places -> {"idle", "running"}]
      BY <2>a
    <3>3. pending' \in made' \cup {None} /\ hidden' \in SUBSET Sessions
      BY <1>12, <2>a DEF Created, dialogs
    <3>4. linked' \in BOOLEAN /\ queue' = queue
      BY <1>12 DEF Created, link
    <3>5. made' \in SUBSET Sessions /\ route' \in made' \cup {Home, Local}
      BY <2>a
    <3>6. stored' = stored /\ run' = run /\ work' = work /\ sub' = sub /\ failed' = failed /\ pc' = "send"
      BY <2>c
    <3> QED
      BY <3>1, <3>2, <3>3, <3>4, <3>5, <3>6
  <2>2. Requests'
    BY <1>12 DEF Created, Promote, Requests, Submissions, NoSub, server, link, shown, dialogs
  <2>3. Targets'
    BY <1>12 DEF Created, Promote, Targets, Requests, server, link, shown, dialogs
  <2>4. Users'
    BY SMTT(60), <1>12 DEF Created, Promote, Users, Targets, Requests, Locals, server, link, shown, dialogs
  <2>5. Locals'
    <3>1. \A u \in Prompts : Submitted(u) => Submitted(u)'
      BY <2>c DEF Submitted
    <3> QED
      BY <2>a, <2>b, <2>c, <3>1 DEF Locals
  <2>6. NothingLeftBehind'
    BY <2>a, <2>b, <2>c DEF NothingLeftBehind, Locals, Submissions
  <2>7. Alone'
    BY <2>a, <2>b, <2>c DEF Alone, Users
  <2> QED
    BY <2>1, <2>2, <2>3, <2>4, <2>5, <2>6, <2>7
<1>13. ASSUME CreateFails PROVE IInv'
  <2>1. TypeOK'
    BY <1>13 DEF CreateFails, DropLocal, Requests, Messages, Submissions, NoSub, server, link,
       shown, dialogs
  <2>2. Requests'
    BY <1>13 DEF CreateFails, DropLocal, Requests, Submissions, NoSub, server, link, shown, dialogs
  <2>3. Targets'
    BY <1>13 DEF CreateFails, DropLocal, Targets, Requests, server, link, shown, dialogs
  <2>4. Users'
    BY <1>13 DEF CreateFails, DropLocal, Users, Targets, Requests, Locals, server, link, shown,
       dialogs
  <2>5. Locals'
    BY <1>13 DEF CreateFails, DropLocal, Locals, Submitted, Requests, Users, NothingLeftBehind,
       server, link, shown, dialogs
  <2>6. NothingLeftBehind'
    BY <1>13 DEF CreateFails, DropLocal, NothingLeftBehind, Locals, Requests, Submitted, server,
       link, shown, dialogs
  <2>7. Alone'
    BY <1>13 DEF CreateFails, DropLocal, Alone, server, link, shown, dialogs
  <2> QED
    BY <2>1, <2>2, <2>3, <2>4, <2>5, <2>6, <2>7
<1>14. ASSUME Sent PROVE IInv'
  <2>a. /\ pc = "send" /\ pc' = "loop" /\ sub \in Submissions /\ sub.prompt \in Prompts
        /\ route \in made /\ route' = route /\ made' = made /\ failed' = failed /\ work' = work
    BY <1>14 DEF Sent, Requests, Submissions
  <2>b. run' = [run EXCEPT ![sub.prompt] = run'[sub.prompt]] /\ run'[sub.prompt] \in {"done", "spawned"}
    BY <1>14, <2>a DEF Sent, Accept
  <2>c. target' = [target EXCEPT ![sub.prompt] = route]
    BY <1>14 DEF Sent, Accept
  <2>d. \/ UNCHANGED stored
        \/ stored' = [stored EXCEPT ![route] = @ \cup {<<"user", sub.prompt>>, <<"reply", sub.prompt>>}]
    BY <1>14 DEF Sent, Accept
  <2>f. \A s \in Sessions, u \in Prompts : <<"local", u>> \notin stored'[s]
    <3>1. \A u \in Prompts : <<"local", u>> \notin {<<"user", sub.prompt>>, <<"reply", sub.prompt>>}
      OBVIOUS
    <3>2. \A s \in Sessions : \/ stored'[s] = stored[s]
                            \/ stored'[s] = stored[s] \cup {<<"user", sub.prompt>>, <<"reply", sub.prompt>>}
      BY <2>a, <2>d
    <3> QED
      BY <3>1, <3>2 DEF Locals
  <2>e. UNCHANGED view \/ view' = [view EXCEPT ![route] = stored'[route]]
    BY <1>14 DEF Sent
  <2>1. TypeOK'
    <3>1. stored' \in [Sessions -> SUBSET Messages]
      BY <2>a, <2>d DEF Messages
    <3>2. view' \in [Places -> SUBSET Messages]
      BY <2>a, <2>e, <3>1
    <3>3. run' \in [Prompts -> {"none", "spawned", "busy", "ended", "done"}]
      BY <2>a, <2>b
    <3>4. target' \in [Prompts -> made' \cup {None}]
      BY <2>a, <2>c
    <3>5. status' \in [Places -> {"idle", "running"}]
      BY <1>14 DEF Sent
    <3> QED
      BY <1>14, <2>a, <3>1, <3>2, <3>3, <3>4, <3>5 DEF Sent, link, dialogs
  <2>2. Requests'
    BY <1>14 DEF Sent, Accept, Requests, Submissions, NoSub, server, link, shown, dialogs
  <2>3. Targets'
    BY <1>14 DEF Sent, Accept, Targets, Requests, server, link, shown, dialogs
  <2>4. Users'
    BY <1>14 DEF Sent, Accept, Users, Targets, Requests, Locals, server, link, shown, dialogs
  <2>5. Locals'
    <3>1. \A u \in Prompts : Submitted(u) => Submitted(u)'
      BY <2>a, <2>b DEF Submitted
    <3>2. \A s \in Sessions, u \in Prompts : <<"local", u>> \notin stored'[s]
      BY <2>f
    <3>3. \A x \in Places, u \in Prompts : <<"local", u>> \in view'[x] => <<"local", u>> \in view[x]
      BY <2>a, <2>e, <3>2
    <3> QED
      BY <2>a, <3>1, <3>2, <3>3 DEF Locals
  <2>6. NothingLeftBehind'
    <3>1. \A s \in Sessions, u \in Prompts : <<"local", u>> \notin stored'[s]
      BY <2>f
    <3>2. \A s \in Sessions, f \in failed : <<"local", f.prompt>> \in view'[s] => <<"local", f.prompt>> \in view[s]
      BY ZenonT(60), <2>a, <2>e, <3>1 DEF Submissions
    <3>3. view'[Local] = view[Local] /\ status'[Local] = status[Local]
      BY <1>14, <2>a, <2>e DEF Sent
    <3> QED
      BY <2>a, <3>2, <3>3 DEF NothingLeftBehind
  <2>7. Alone'
    BY <2>a, <2>e, <2>f DEF Alone
  <2> QED
    BY <2>1, <2>2, <2>3, <2>4, <2>5, <2>6, <2>7
<1>15. ASSUME SendFails PROVE IInv'
  <2>a. /\ pc = "send" /\ sub \in Submissions /\ sub.prompt \in Prompts
        /\ route \in made /\ route' = route /\ made' = made
    BY <1>15 DEF SendFails, Requests, Submissions
  <2>1. TypeOK'
    <3>0. \/ UNCHANGED stored
          \/ stored' = [stored EXCEPT ![route] = @ \cup {<<"user", sub.prompt>>, <<"reply", sub.prompt>>}]
      BY <1>15 DEF SendFails, Accept
    <3>1. stored' \in [Sessions -> SUBSET Messages]
      BY <2>a, <3>0 DEF Messages
    <3>2. run' \in [Prompts -> {"none", "spawned", "busy", "ended", "done"}]
      BY <1>15, <2>a DEF SendFails, Accept
    <3>3. UNCHANGED target \/ target' = [target EXCEPT ![sub.prompt] = route]
      BY <1>15 DEF SendFails, Accept
    <3>5. target' \in [Prompts -> made' \cup {None}]
      BY <2>a, <3>3
    <3>4. view' \in [Places -> SUBSET Messages] /\ status' \in [Places -> {"idle", "running"}]
      BY <1>15, <2>a DEF SendFails
    <3> QED
      BY <1>15, <2>a, <3>1, <3>2, <3>5, <3>4 DEF SendFails, link, dialogs
  <2>2. Requests'
    BY <1>15 DEF SendFails, Accept, Requests, Submissions, NoSub, server, link, shown, dialogs
  <2>3. Targets'
    BY <1>15 DEF SendFails, Accept, Targets, Requests, server, link, shown, dialogs
  <2>4. Users'
    BY <1>15 DEF SendFails, Accept, Users, Targets, Requests, Locals, server, link, shown, dialogs
  <2>5. Locals'
    BY <1>15 DEF SendFails, Accept, Locals, Submitted, Requests, Users, NothingLeftBehind,
       server, link, shown, dialogs
  <2>6. NothingLeftBehind'
    BY <1>15 DEF SendFails, Accept, NothingLeftBehind, Locals, Requests, Submitted, server, link,
       shown, dialogs
  <2>7. Alone'
    <3>1. \A s \in Sessions : view'[s] \subseteq view[s]
      BY <1>15, <2>a DEF SendFails
    <3> QED
      BY <3>1 DEF Alone
  <2> QED
    BY <2>1, <2>2, <2>3, <2>4, <2>5, <2>6, <2>7
<1>16. ASSUME Interrupt PROVE IInv'
  <2>1. TypeOK'
    BY <1>16 DEF Interrupt, Requests, Messages, Submissions, NoSub, server, link, shown, dialogs
  <2>2. Requests'
    BY <1>16 DEF Interrupt, Requests, Submissions, NoSub, server, link, shown, dialogs
  <2>3. Targets'
    BY <1>16 DEF Interrupt, Targets, Requests, server, link, shown, dialogs
  <2>4. Users'
    BY <1>16 DEF Interrupt, Users, Targets, Requests, Locals, server, link, shown, dialogs
  <2>5. Locals'
    BY <1>16 DEF Interrupt, Locals, Submitted, Requests, Users, NothingLeftBehind, server, link,
       shown, dialogs
  <2>6. NothingLeftBehind'
    BY <1>16 DEF Interrupt, NothingLeftBehind, Locals, Requests, Submitted, server, link, shown,
       dialogs
  <2>7. Alone'
    BY <1>16 DEF Interrupt, Alone, server, link, shown, dialogs
  <2> QED
    BY <2>1, <2>2, <2>3, <2>4, <2>5, <2>6, <2>7
<1>17. ASSUME OpenSession PROVE IInv'
  <2>1. TypeOK'
    BY <1>17 DEF OpenSession, Requests, Messages, Submissions, NoSub, server, link, shown,
       dialogs, Sync, TrySync
  <2>2. Requests'
    BY <1>17 DEF OpenSession, Requests, Submissions, NoSub, server, link, shown, dialogs, Sync,
       TrySync
  <2>3. Targets'
    BY <1>17 DEF OpenSession, Targets, Requests, server, link, shown, dialogs, Sync, TrySync
  <2>4. Users'
    BY <1>17 DEF OpenSession, Users, Targets, Requests, Locals, server, link, shown, dialogs,
       Sync, TrySync
  <2>5. Locals'
    BY <1>17 DEF OpenSession, Locals, Submitted, Requests, Users, NothingLeftBehind, server,
       link, shown, dialogs, Sync, TrySync
  <2>6. NothingLeftBehind'
    BY <1>17 DEF OpenSession, TrySync, Sync, NothingLeftBehind, Locals, Submissions, server, link
  <2>7. Alone'
    BY <1>17 DEF OpenSession, TrySync, Sync, Locals, Alone, server, link, shown, dialogs
  <2> QED
    BY <2>1, <2>2, <2>3, <2>4, <2>5, <2>6, <2>7
<1>18. ASSUME NewSession PROVE IInv'
  <2>1. TypeOK'
    BY <1>18 DEF NewSession, Requests, Messages, Submissions, NoSub, server, link, shown, dialogs
  <2>2. Requests'
    BY <1>18 DEF NewSession, Requests, Submissions, NoSub, server, link, shown, dialogs
  <2>3. Targets'
    BY <1>18 DEF NewSession, Targets, Requests, server, link, shown, dialogs
  <2>4. Users'
    BY <1>18 DEF NewSession, Users, Targets, Requests, Locals, server, link, shown, dialogs
  <2>5. Locals'
    BY <1>18 DEF NewSession, Locals, Submitted, Requests, Users, NothingLeftBehind, server, link,
       shown, dialogs
  <2>6. NothingLeftBehind'
    BY <1>18 DEF NewSession, NothingLeftBehind, Locals, Requests, Submitted, server, link, shown,
       dialogs
  <2>7. Alone'
    BY <1>18 DEF NewSession, Alone, server, link, shown, dialogs
  <2> QED
    BY <2>1, <2>2, <2>3, <2>4, <2>5, <2>6, <2>7
<1>19. ASSUME Search PROVE IInv'
  <2>1. TypeOK'
    BY <1>19 DEF Search, Requests, Messages, Submissions, NoSub, server, link, shown, dialogs
  <2>2. Requests'
    BY <1>19 DEF Search, Requests, Submissions, NoSub, server, link, shown, dialogs
  <2>3. Targets'
    BY <1>19 DEF Search, Targets, Requests, server, link, shown, dialogs
  <2>4. Users'
    BY <1>19 DEF Search, Users, Targets, Requests, Locals, server, link, shown, dialogs
  <2>5. Locals'
    BY <1>19 DEF Search, Locals, Submitted, Requests, Users, NothingLeftBehind, server, link,
       shown, dialogs
  <2>6. NothingLeftBehind'
    BY <1>19 DEF Search, NothingLeftBehind, Locals, Requests, Submitted, server, link, shown,
       dialogs
  <2>7. Alone'
    BY <1>19 DEF Search, Alone, server, link, shown, dialogs
  <2> QED
    BY <2>1, <2>2, <2>3, <2>4, <2>5, <2>6, <2>7
<1>20. CASE UNCHANGED vars
  <2> USE <1>20 DEF vars, server, link, shown, dialogs
  <2>1. TypeOK' /\ Requests' /\ Targets' /\ Users'
    BY DEF Requests, Targets, Users
  <2>2. Locals' /\ NothingLeftBehind'
    BY DEF Locals, Submitted, NothingLeftBehind
  <2>3. Alone'
    BY DEF Alone
  <2> QED
    BY <2>1, <2>2, <2>3
<1> QED
  BY <1>1, <1>2, <1>3, <1>4, <1>5, <1>6, <1>7, <1>8, <1>9, <1>10, <1>11, <1>12, <1>13, <1>14, <1>15,
     <1>16, <1>17, <1>18, <1>19, <1>20 DEF Next, ServerStep, Request

-----------------------------------------------------------------------------
LEMMA Initial == Init => IInv
<1> USE NamesAssumption
<1> SUFFICES ASSUME Init PROVE IInv
  OBVIOUS
<1> USE DEF Init, Places
<1>a. <<>> \in Seq({"updated", "busy", "idle"} \X Sessions)
  OBVIOUS
<1>1. TypeOK
  BY <1>a DEF TypeOK
<1>2. Requests /\ Targets /\ Users /\ Locals /\ NothingLeftBehind /\ Alone
  BY DEF Requests, Targets, Users, Locals, NothingLeftBehind, Alone
<1> QED
  BY <1>1, <1>2 DEF IInv

LEMMA Invariant == Spec => []IInv
BY Initial, Inductive, PTL DEF Spec

\* Whatever fails, is lost or comes late, the interface shows a session that
\* exists, its home screen or a submission under way, and what it holds of a
\* session are messages.
THEOREM TypeCorrect == Spec => []TypeOK
<1>1. IInv => TypeOK
  BY DEF IInv
<1> QED
  BY Invariant, <1>1, PTL

\* However many sessions and submissions there are, whichever requests fail or
\* lose their answers: no message stays where no sync finds it, and none whose
\* request failed stays, but a first shell command.
THEOREM NothingStaysBehind == Spec => []NothingLeftBehind
<1>1. IInv => NothingLeftBehind
  BY DEF IInv
<1> QED
  BY Invariant, <1>1, PTL

\* The interface's own copy of a message and the server's are never shown
\* together, and no message in a session it was not sent to, whatever polls,
\* events and requests fetch in which order.
THEOREM NeverShownTwice == Spec => []ShownOnce
<1>1. IInv => ShownOnce
  BY DEF IInv, Users, Alone, ShownOnce
<1> QED
  BY Invariant, <1>1, PTL
=============================================================================
