----------------------------- MODULE PluginRpc -----------------------------
(***************************************************************************)
(* PluginSubprocess, the client of one TypeScript plugin host: JSON-RPC    *)
(* frames over the child's stdin and stdout, one exchange at a time under  *)
(* rpc_lock.  A call gives up after a timeout and its answer arrives late; *)
(* auth_fetch_stream hands the lock to a task of its own, which reads      *)
(* chunks until the stream ends, whether or not anybody still listens.     *)
(* The host, plugin-host.ts, handles one request after the other and may   *)
(* die at any time.                                                        *)
(***************************************************************************)
EXTENDS Naturals, Sequences

CONSTANTS
    Tasks,      \* tasks of the server, each makes one call
    NoTask,     \* nobody holds rpc_lock
    Capacity,   \* room in the channel of a stream (128 in the code)
    MaxChunks   \* bound: chunks of one stream

ASSUME NoTaskAssumption == NoTask \notin Tasks
ASSUME BoundsAssumption == Capacity \in Nat \ {0} /\ MaxChunks \in Nat

Kinds == {"call", "stream", "shutdown"}
PC == {"idle", "lock", "write", "read", "start", "stream", "kill", "done"}

Requests == [id : Nat, kind : Kinds]

\* The frames of the host: answers, and the notifications of a stream, which
\* name its request; n counts the chunks.
What == {"result", "error", "chunk", "failed", "end"}
Messages == [what : What, id : Nat, n : 0..MaxChunks]
Frame(what, id, n) == [what |-> what, id |-> id, n |-> n]
Idle == [id |-> 0, kind |-> "call", n |-> 0, started |-> FALSE]

VARIABLES
    kind,       \* of each task: what it calls
    pc,         \* of each task: where it is
    id,         \* of each task: the id of its request, 0 before it has one
    nextId,     \* request_id
    rpc,        \* rpc_lock: who holds it
    reader,     \* of each task: does the task that reads its stream run?
    chan,       \* of each task: the channel of its stream
    got,        \* of each task: what came back to it
    outcome,    \* of each task: how its call ended
    stdin,      \* the requests the host has not read yet
    stdout,     \* the frames nobody has read yet
    front,      \* the first of them: "whole"; "opened", its header read by the
                \* holder of the lock; "orphan", its header read by one that left
    host,       \* the request the host is at
    alive,      \* the host process
    sent        \* ghost: of each request id, the chunks the host sent

vars == <<kind, pc, id, nextId, rpc, reader, chan, got, outcome, stdin, stdout,
          front, host, alive, sent>>
callerVars == <<kind, id, nextId>>
hostVars == <<stdin, host, alive, sent>>

Init ==
    /\ kind \in [Tasks -> Kinds]
    /\ pc = [c \in Tasks |-> "idle"]
    /\ id = [c \in Tasks |-> 0]
    /\ nextId = 1
    /\ rpc = NoTask
    /\ reader = [c \in Tasks |-> FALSE]
    /\ chan = [c \in Tasks |-> <<>>]
    /\ got = [c \in Tasks |-> <<>>]
    /\ outcome = [c \in Tasks |-> "none"]
    /\ stdin = <<>>
    /\ stdout = <<>>
    /\ front = "whole"
    /\ host = Idle
    /\ alive = TRUE
    /\ sent = [i \in {} |-> 0]

IsStream(c) == kind[c] = "stream"
Goto(c, label) == pc' = [pc EXCEPT ![c] = label]
Returns(c, how) == Goto(c, "done") /\ outcome' = [outcome EXCEPT ![c] = how]
Unlock(c) == rpc' = IF rpc = c THEN NoTask ELSE rpc
Stays == UNCHANGED <<pc, outcome>>

TakeId(c) == id' = [id EXCEPT ![c] = nextId] /\ nextId' = nextId + 1

-----------------------------------------------------------------------------
(* The callers *)

\* A stream takes its id before it waits for the lock, a call after.
Enter(c) ==
    /\ pc[c] = "idle"
    /\ Goto(c, "lock")
    /\ IF IsStream(c) THEN TakeId(c) ELSE UNCHANGED <<id, nextId>>
    /\ UNCHANGED <<kind, rpc, reader, chan, got, outcome, stdout, front, hostVars>>

Lock(c) ==
    /\ pc[c] = "lock"
    /\ rpc = NoTask
    /\ rpc' = c
    /\ Goto(c, "write")
    /\ IF IsStream(c) THEN UNCHANGED <<id, nextId>> ELSE TakeId(c)
    /\ UNCHANGED <<kind, reader, chan, got, outcome, stdout, front, hostVars>>

\* write_request; then a call reads by itself and a stream has a task for it,
\* which owns the lock from now on.
Write(c) ==
    /\ pc[c] = "write"
    /\ IF alive
       THEN /\ stdin' = Append(stdin, [id |-> id[c], kind |-> kind[c]])
            /\ Goto(c, IF IsStream(c) THEN "start" ELSE "read")
            /\ reader' = [reader EXCEPT ![c] = IsStream(c)]
            /\ UNCHANGED <<rpc, outcome>>
       ELSE Returns(c, "notRunning") /\ Unlock(c) /\ UNCHANGED <<stdin, reader>>
    /\ UNCHANGED <<callerVars, chan, got, stdout, front, host, alive, sent>>

Leaves(c) == front' = IF front = "opened" /\ ~reader[c] THEN "orphan" ELSE front

\* (mutant) the guard of a stream stays with its caller.
TimeoutUnlocks(c) ==
    /\ pc[c] \in {"read", "start"}
    /\ Returns(c, "timeout")
    /\ Leaves(c)
    /\ Unlock(c)
    /\ UNCHANGED <<callerVars, reader, chan, got, stdout, hostVars>>

\* The timeout of a call, or of the wait for the start of a stream: the task of
\* the stream reads on.  A caller that is dropped leaves in the same way.  What
\* was read of a frame is lost with the call that was reading it.
Timeout(c) ==
    /\ pc[c] \in {"read", "start"}
    /\ Returns(c, "timeout")
    /\ Leaves(c)
    /\ IF pc[c] = "read" THEN Unlock(c) ELSE UNCHANGED rpc
    /\ UNCHANGED <<callerVars, reader, chan, got, stdout, hostVars>>

\* The caller takes a chunk out of the channel, or an error, or learns that the
\* sender is gone: the stream is over.
Consume(c) ==
    /\ pc[c] = "stream"
    /\ IF chan[c] # <<>>
       THEN /\ chan' = [chan EXCEPT ![c] = Tail(@)]
            /\ IF Head(chan[c]).what = "chunk"
               THEN got' = [got EXCEPT ![c] = Append(@, Head(chan[c]))] /\ Stays
               ELSE Returns(c, "failed") /\ UNCHANGED got
       ELSE ~reader[c] /\ Returns(c, "ok") /\ UNCHANGED <<chan, got>>
    /\ UNCHANGED <<callerVars, rpc, reader, stdout, front, hostVars>>

\* The caller drops the stream.
Drop(c) ==
    /\ pc[c] = "stream"
    /\ Returns(c, "left")
    /\ chan' = [chan EXCEPT ![c] = <<>>]
    /\ UNCHANGED <<callerVars, rpc, reader, got, stdout, front, hostVars>>

\* shutdown: the child is killed once it has answered.
Kill(c) ==
    /\ pc[c] = "kill"
    /\ Returns(c, "ok")
    /\ alive' = FALSE
    /\ host' = Idle
    /\ UNCHANGED <<callerVars, rpc, reader, chan, got, stdin, stdout, front, sent>>

-----------------------------------------------------------------------------
(* Whoever reads stdout: a call, or the task of a stream *)

Reads(c) == pc[c] = "read" \/ reader[c]

\* chunk_tx.send waits for room, unless nobody listens.
HasRoom(c) == pc[c] # "stream" \/ Len(chan[c]) < Capacity

SendChunk(c, m) ==
    chan' = IF pc[c] = "stream" THEN [chan EXCEPT ![c] = Append(@, m)] ELSE chan

\* The task of a stream ends; its guard goes with it.
EndReader(c) == reader' = [reader EXCEPT ![c] = FALSE] /\ Unlock(c)

\* (mutant) an error after the start only ends the task.
FailQuietly(c, how) ==
    IF pc[c] = "read"
    THEN Returns(c, how) /\ Unlock(c) /\ UNCHANGED <<reader, chan>>
    ELSE /\ EndReader(c)
         /\ IF pc[c] = "start" THEN Returns(c, how) ELSE Stays
         /\ UNCHANGED chan

\* An error: a call returns it; a stream sends it to start_rx, or after that
\* down the channel, and ends.
Fail(c, how) ==
    IF pc[c] = "read"
    THEN Returns(c, how) /\ Unlock(c) /\ UNCHANGED <<reader, chan>>
    ELSE /\ HasRoom(c)
         /\ EndReader(c)
         /\ IF pc[c] = "start" THEN Returns(c, how) ELSE Stays
         /\ SendChunk(c, Frame("failed", id[c], 0))

ReadHeader(c) ==
    /\ Reads(c)
    /\ stdout # <<>> /\ front = "whole"
    /\ front' = "opened"
    /\ UNCHANGED <<callerVars, pc, rpc, reader, chan, got, outcome, stdout, hostVars>>

\* A frame without its header is one line with the header of the next frame,
\* the empty line after it ends the "headers", and there is no Content-Length.
ReadOrphan(c) ==
    /\ Reads(c)
    /\ front = "orphan"
    /\ Len(stdout) >= 2
    /\ stdout' = Tail(stdout)
    /\ Fail(c, "protocol")
    /\ UNCHANGED <<callerVars, got, front, hostVars>>

\* End of file, at a frame or in the middle of one.
ReadEnd(c) ==
    /\ Reads(c)
    /\ ~alive
    /\ stdout = <<>> \/ (front = "orphan" /\ Len(stdout) = 1)
    /\ stdout' = <<>>
    /\ front' = "whole"
    /\ Fail(c, "notRunning")
    /\ UNCHANGED <<callerVars, got, hostVars>>

IsAnswer(m) == m.what \in {"result", "error"}

\* (mutant) the answer to whatever was asked last.
CallReadsAny(c, m) ==
    IF IsAnswer(m)
    THEN IF m.what = "error"
         THEN Fail(c, "failed") /\ UNCHANGED got
         ELSE /\ got' = [got EXCEPT ![c] = <<m>>]
              /\ Unlock(c)
              /\ IF kind[c] = "shutdown" THEN Goto(c, "kill") /\ UNCHANGED outcome
                 ELSE Returns(c, "ok")
              /\ UNCHANGED <<reader, chan>>
    ELSE Stays /\ UNCHANGED <<rpc, reader, chan, got>>

\* read_response_for_id: every other frame is skipped.
CallReads(c, m) ==
    IF IsAnswer(m) /\ m.id = id[c]
    THEN IF m.what = "error"
         THEN Fail(c, "failed") /\ UNCHANGED got
         ELSE /\ got' = [got EXCEPT ![c] = <<m>>]
              /\ Unlock(c)
              /\ IF kind[c] = "shutdown" THEN Goto(c, "kill") /\ UNCHANGED outcome
                 ELSE Returns(c, "ok")
              /\ UNCHANGED <<reader, chan>>
    ELSE Stays /\ UNCHANGED <<rpc, reader, chan, got>>

\* (mutant) "end" leaves the match and not the loop.
OnEndReadsOn(c) == Stays /\ UNCHANGED <<rpc, reader, chan>>

\* The task leaves the loop; a start_tx that was never used is dropped.
OnEnd(c) ==
    /\ EndReader(c)
    /\ IF pc[c] = "start" THEN Returns(c, "notRunning") ELSE Stays
    /\ UNCHANGED chan

\* One round of the loop in the task of a stream.
StreamReads(c, m) ==
    /\ UNCHANGED got
    /\ \/ m.id # id[c] /\ Stays /\ UNCHANGED <<rpc, reader, chan>>
       \/ /\ m.id = id[c] /\ m.what = "result"
          /\ IF pc[c] = "start" THEN Goto(c, "stream") ELSE UNCHANGED pc
          /\ UNCHANGED <<outcome, rpc, reader, chan>>
       \/ m.id = id[c] /\ m.what \in {"error", "failed"} /\ Fail(c, "failed")
       \/ /\ m.id = id[c] /\ m.what = "chunk" /\ HasRoom(c)
          /\ SendChunk(c, m)
          /\ IF pc[c] = "stream" THEN UNCHANGED <<rpc, reader>> ELSE EndReader(c)
          /\ Stays
       \/ m.id = id[c] /\ m.what = "end" /\ OnEnd(c)

ReadBody(c) ==
    /\ Reads(c)
    /\ front = "opened"
    /\ stdout' = Tail(stdout)
    /\ front' = "whole"
    /\ IF pc[c] = "read" THEN CallReads(c, Head(stdout)) ELSE StreamReads(c, Head(stdout))
    /\ UNCHANGED <<callerVars, hostVars>>

-----------------------------------------------------------------------------
(* plugin-host.ts *)

hostOnly == <<callerVars, pc, rpc, reader, chan, got, outcome, front>>

HostTakes ==
    /\ alive /\ host = Idle /\ stdin # <<>>
    /\ host' = [Idle EXCEPT !.id = Head(stdin).id, !.kind = Head(stdin).kind]
    /\ stdin' = Tail(stdin)
    /\ UNCHANGED <<hostOnly, stdout, alive, sent>>

HostBusy == alive /\ host # Idle
Says(m) == stdout' = Append(stdout, m)

\* A result, or an error; after the answer to "shutdown" the process exits.
HostAnswers ==
    /\ HostBusy /\ ~host.started
    /\ \/ host.kind # "stream" /\ Says(Frame("result", host.id, 0))
       \/ host.kind # "shutdown" /\ Says(Frame("error", host.id, 0))
    /\ alive' = (host.kind # "shutdown")
    /\ host' = Idle
    /\ UNCHANGED <<hostOnly, stdin, sent>>

HostStarts ==
    /\ HostBusy /\ host.kind = "stream" /\ ~host.started
    /\ Says(Frame("result", host.id, 0))
    /\ host' = [host EXCEPT !.started = TRUE]
    /\ UNCHANGED <<hostOnly, stdin, alive, sent>>

HostSendsChunk ==
    /\ HostBusy /\ host.started /\ host.n < MaxChunks
    /\ Says(Frame("chunk", host.id, host.n + 1))
    /\ host' = [host EXCEPT !.n = @ + 1]
    /\ UNCHANGED <<hostOnly, stdin, alive, sent>>

\* The end of a stream, before the start only after a failure.
HostEnds ==
    /\ HostBusy /\ host.kind = "stream"
    /\ \/ host.started /\ Says(Frame("end", host.id, 0))
       \/ stdout' = stdout \o <<Frame("failed", host.id, 0), Frame("end", host.id, 0)>>
    /\ sent' = [i \in DOMAIN sent \cup {host.id} |-> IF i = host.id THEN host.n ELSE sent[i]]
    /\ host' = Idle
    /\ UNCHANGED <<hostOnly, stdin, alive>>

HostDies ==
    /\ alive
    /\ alive' = FALSE
    /\ host' = Idle
    /\ UNCHANGED <<hostOnly, stdin, stdout, sent>>

HostStep == HostTakes \/ HostAnswers \/ HostStarts \/ HostSendsChunk \/ HostEnds

-----------------------------------------------------------------------------
Step(c) == Lock(c) \/ Write(c) \/ Kill(c) \/ Consume(c)
Reading(c) == ReadHeader(c) \/ ReadOrphan(c) \/ ReadEnd(c) \/ ReadBody(c)

Next ==
    \/ \E c \in Tasks :
        Enter(c) \/ Step(c) \/ Timeout(c) \/ Drop(c) \/ Reading(c)
    \/ HostStep \/ HostDies

Spec == Init /\ [][Next]_vars

\* Tasks are polled, tokio's mutex is fair, timers fire, a listener takes what
\* is in its channel; and the host goes on with what it is at.
Fairness ==
    /\ \A c \in Tasks : /\ SF_vars(Lock(c)) /\ WF_vars(Step(c))
                        /\ WF_vars(Reading(c)) /\ SF_vars(Timeout(c))
    /\ WF_vars(HostStep)
FairSpec == Spec /\ Fairness

-----------------------------------------------------------------------------
TypeOK ==
    /\ kind \in [Tasks -> Kinds]
    /\ pc \in [Tasks -> PC]
    /\ id \in [Tasks -> Nat]
    /\ nextId \in Nat \ {0}
    /\ rpc \in Tasks \cup {NoTask}
    /\ reader \in [Tasks -> BOOLEAN]
    /\ chan \in [Tasks -> Seq(Messages)]
    /\ \A c \in Tasks : Len(chan[c]) <= Capacity
    /\ got \in [Tasks -> Seq(Messages)]
    /\ outcome \in [Tasks -> {"none", "ok", "failed", "timeout", "left",
                              "protocol", "notRunning"}]
    /\ stdin \in Seq(Requests)
    /\ stdout \in Seq(Messages)
    /\ front \in {"whole", "opened", "orphan"}
    /\ front # "whole" => stdout # <<>>
    /\ host \in [id : Nat, kind : Kinds, n : 0..MaxChunks, started : BOOLEAN]
    /\ alive \in BOOLEAN
    /\ DOMAIN sent \subseteq Nat

\* Only the holder of rpc_lock reads stdout, so no frame is taken by the wrong
\* reader: also when the caller of a stream gave up and its task reads on.
ReadersHoldTheLock == \A c \in Tasks : Reads(c) => rpc = c

\* Nobody is given the answer, or a chunk, of somebody else's request, however
\* late the answers of requests arrive that were given up.
OwnAnswers == \A c \in Tasks : \A k \in 1..Len(got[c]) : got[c][k].id = id[c]

\* A stream that ends well has delivered every chunk the host sent, in order:
\* one that was cut off never looks complete.
StreamsAreComplete ==
    \A c \in Tasks :
        IsStream(c) /\ outcome[c] = "ok" =>
            /\ id[c] \in DOMAIN sent
            /\ Len(got[c]) = sent[id[c]]
            /\ \A k \in 1..Len(got[c]) : got[c][k].n = k

\* Every call comes back, whatever the callers before it left in the pipe.
CallsReturn == \A c \in Tasks : pc[c] # "idle" ~> pc[c] = "done"

=============================================================================
