----------------------------- MODULE PtyOutput -----------------------------
(***************************************************************************)
(* A pseudo terminal of kfcode-server: PtyManager (pty.rs) and the         *)
(* WebSocket that shows it (routes.rs, pty_connect).  A blocking reader    *)
(* appends what the child writes to a bounded buffer, gives the lock back, *)
(* and then broadcasts the chunk.  A client copies the buffer, and then    *)
(* subscribes to the broadcast; its forward task moves chunks from the     *)
(* broadcast to a bounded channel, its main loop from there to the socket. *)
(*                                                                         *)
(* Bytes are numbered from 1 in the order the child writes them.  The      *)
(* buffer holds the bytes start + 1 .. cursor.                             *)
(***************************************************************************)
EXTENDS Integers, Sequences

CONSTANTS
    Clients,     \* WebSocket clients
    BufferLimit, \* BUFFER_LIMIT
    Capacity,    \* of the broadcast channel
    WsCapacity,  \* of a client's own channel
    MaxChunk,    \* the size of the reader's buffer
    MaxOutput    \* bound on the bytes the child writes

ASSUME SizesAssumption ==
    /\ {BufferLimit, Capacity, WsCapacity, MaxChunk} \subseteq Nat \ {0}
    /\ MaxOutput \in Nat

VARIABLES
    table,      \* whether the manager's table has the session: "none" while
                \*   create_session is under way, "open", "gone"
    child,      \* whether the child process runs
    reader,     \* where the reader is
    start,      \* the bytes dropped from the front of the buffer
    cursor,     \* all the bytes ever read
    sent,       \* what was broadcast: chunk i is the bytes after
                \*   sent[i].from up to sent[i].upto
    pc,         \* of each client: where it is
    ask,        \* of each client: the cursor it asked for, -1 for none
    snap,       \* of each client: its copy of the buffer, as start and cursor
    joined,     \* of each client: the first chunk its receiver can get
    next,       \* of each client: the chunk its receiver gets next
    hold,       \* of each client: the chunk its forward task has, or 0
    ws,         \* of each client: the chunks in its channel
    shown,      \* ghost, of each client: the last run of bytes put on the socket
    stage,      \* ghost, of each client: whether that was the replay or live
    got,        \* ghost, of each client: the bytes put on the socket
    lagged      \* ghost, of each client: chunks its receiver was too late for

terminal == <<table, child, reader, start, cursor, sent>>
client == <<pc, ask, snap, joined, next, hold, ws, shown, stage, got, lagged>>
vars == <<terminal, client>>

Chunk == [from : 0 .. MaxOutput, upto : 0 .. MaxOutput]
Nothing == [from |-> 0, upto |-> 0]
Bytes(chunk) == chunk.from + 1 .. chunk.upto

Init ==
    /\ table = "none"
    /\ child = "running"
    /\ reader = "read"
    /\ start = 0
    /\ cursor = 0
    /\ sent = <<>>
    /\ pc = [c \in Clients |-> "out"]
    /\ ask = [c \in Clients |-> 0]
    /\ snap = [c \in Clients |-> Nothing]
    /\ joined = [c \in Clients |-> 1]
    /\ next = [c \in Clients |-> 1]
    /\ hold = [c \in Clients |-> 0]
    /\ ws = [c \in Clients |-> <<>>]
    /\ shown = [c \in Clients |-> Nothing]
    /\ stage = [c \in Clients |-> "none"]
    /\ got = [c \in Clients |-> {}]
    /\ lagged = [c \in Clients |-> {}]

-----------------------------------------------------------------------------
(* The terminal.                                                           *)

\* create_session: the reader runs before the table has the session.
CreateSession ==
    /\ table = "none"
    /\ table' = "open"
    /\ UNCHANGED <<child, reader, start, cursor, sent, client>>

\* reader.read returns n bytes: they go to the end of the buffer, and what
\* exceeds the limit is drained from its front, all under the two locks.
ReadChunk ==
    /\ reader = "read"
    /\ \E n \in 1 .. MaxChunk :
          /\ cursor + n <= MaxOutput
          /\ cursor' = cursor + n
          /\ start' = IF cursor' - start > BufferLimit
                      THEN cursor' - BufferLimit
                      ELSE start
    /\ reader' = "send"
    /\ UNCHANGED <<table, child, sent, client>>

LastSent == IF sent = <<>> THEN 0 ELSE sent[Len(sent)].upto

\* The locks are given back before the chunk is broadcast.
Broadcast ==
    /\ reader = "send"
    /\ sent' = Append(sent, [from |-> LastSent, upto |-> cursor])
    /\ reader' = "read"
    /\ UNCHANGED <<table, child, start, cursor, client>>

\* End of file, or an error: nobody has the other end open any more.
ReadEnds ==
    /\ reader = "read"
    /\ child = "dead"
    /\ reader' = "done"
    /\ UNCHANGED <<table, child, start, cursor, sent, client>>

ChildExits ==
    /\ child = "running"
    /\ child' = "dead"
    /\ UNCHANGED <<table, reader, start, cursor, sent, client>>

\* read_from_session takes all there is in the buffer.
ReadFromSession ==
    /\ table = "open"
    /\ start' = cursor
    /\ UNCHANGED <<table, child, reader, cursor, sent, client>>

\* delete_session needs the table for itself, and subscribe keeps it for
\* reading from the first step to the last.  Aborting the reader, which blocks
\* in a thread of its own, has no effect: it ends when the child is gone.
DeleteSession ==
    /\ table = "open"
    /\ \A c \in Clients : pc[c] # "subscribe"
    /\ table' = "gone"
    /\ child' = "dead"
    /\ UNCHANGED <<reader, start, cursor, sent, client>>

-----------------------------------------------------------------------------
(* A client.                                                               *)

\* subscribe, first half: the buffer and the cursor are copied under the locks.
Snapshot(c) ==
    /\ pc[c] = "out"
    /\ table = "open"
    /\ snap' = [snap EXCEPT ![c] = [from |-> start, upto |-> cursor]]
    /\ \E n \in -1 .. MaxOutput : ask' = [ask EXCEPT ![c] = n]
    /\ pc' = [pc EXCEPT ![c] = "subscribe"]
    /\ UNCHANGED <<terminal, joined, next, hold, ws, shown, stage, got, lagged>>

Larger(a, b) == IF a > b THEN a ELSE b

\* The oldest chunk that the broadcast channel still has.
Oldest == Larger(1, Len(sent) - Capacity + 1)

\* (mutant) the receiver gets what the channel still has, too.
SubscribeToTheOldest(c) ==
    /\ pc[c] = "subscribe"
    /\ joined' = [joined EXCEPT ![c] = Oldest]
    /\ next' = [next EXCEPT ![c] = Oldest]
    /\ pc' = [pc EXCEPT ![c] = "replay"]
    /\ UNCHANGED <<terminal, ask, snap, hold, ws, shown, stage, got, lagged>>

\* subscribe, second half: a receiver for what is broadcast from now on.
Subscribe(c) ==
    /\ pc[c] = "subscribe"
    /\ joined' = [joined EXCEPT ![c] = Len(sent) + 1]
    /\ next' = [next EXCEPT ![c] = Len(sent) + 1]
    /\ pc' = [pc EXCEPT ![c] = "replay"]
    /\ UNCHANGED <<terminal, ask, snap, hold, ws, shown, stage, got, lagged>>

\* What is replayed: the bytes of the snapshot after the cursor asked for.
Replayed(c) ==
    LET asked == IF ask[c] = -1 THEN snap[c].upto ELSE ask[c] IN
    IF asked < snap[c].upto
    THEN [from |-> Larger(asked, snap[c].from), upto |-> snap[c].upto]
    ELSE [from |-> snap[c].upto, upto |-> snap[c].upto]

\* The replay and the frame that tells the client the cursor.
Replay(c) ==
    /\ pc[c] = "replay"
    /\ shown' = [shown EXCEPT ![c] = Replayed(c)]
    /\ got' = [got EXCEPT ![c] = Bytes(Replayed(c))]
    /\ stage' = [stage EXCEPT ![c] = "replay"]
    /\ pc' = [pc EXCEPT ![c] = "live"]
    /\ UNCHANGED <<terminal, ask, snap, joined, next, hold, ws, lagged>>

\* (mutant) an answer that says "lagged" ends the forward task.
ForwardStopsWhenLate(c) ==
    /\ pc[c] = "live"
    /\ hold[c] = 0
    /\ Oldest <= next[c] /\ next[c] <= Len(sent)
    /\ hold' = [hold EXCEPT ![c] = next[c]]
    /\ next' = [next EXCEPT ![c] = @ + 1]
    /\ UNCHANGED <<terminal, pc, ask, snap, joined, ws, shown, stage, got, lagged>>

\* The forward task receives: a receiver that is too late is moved to the
\* oldest chunk there is, and goes on.
Forward(c) ==
    /\ pc[c] = "live"
    /\ hold[c] = 0
    /\ next[c] <= Len(sent)
    /\ IF next[c] < Oldest
       THEN /\ next' = [next EXCEPT ![c] = Oldest]
            /\ lagged' = [lagged EXCEPT ![c] = @ \cup (next[c] .. Oldest - 1)]
            /\ UNCHANGED hold
       ELSE /\ hold' = [hold EXCEPT ![c] = next[c]]
            /\ next' = [next EXCEPT ![c] = @ + 1]
            /\ UNCHANGED lagged
    /\ UNCHANGED <<terminal, pc, ask, snap, joined, ws, shown, stage, got>>

\* (mutant) try_send: what finds no room is dropped.
PushOrDrop(c) ==
    /\ pc[c] = "live"
    /\ hold[c] # 0
    /\ ws' = [ws EXCEPT ![c] = IF Len(@) < WsCapacity THEN Append(@, hold[c]) ELSE @]
    /\ hold' = [hold EXCEPT ![c] = 0]
    /\ UNCHANGED <<terminal, pc, ask, snap, joined, next, shown, stage, got, lagged>>

\* ws_tx.send waits for room.
Push(c) ==
    /\ pc[c] = "live"
    /\ hold[c] # 0
    /\ Len(ws[c]) < WsCapacity
    /\ ws' = [ws EXCEPT ![c] = Append(@, hold[c])]
    /\ hold' = [hold EXCEPT ![c] = 0]
    /\ UNCHANGED <<terminal, pc, ask, snap, joined, next, shown, stage, got, lagged>>

Show(c) ==
    /\ pc[c] = "live"
    /\ ws[c] # <<>>
    /\ LET chunk == sent[Head(ws[c])] IN
       /\ shown' = [shown EXCEPT ![c] = chunk]
       /\ got' = [got EXCEPT ![c] = @ \cup Bytes(chunk)]
    /\ stage' = [stage EXCEPT ![c] = "live"]
    /\ ws' = [ws EXCEPT ![c] = Tail(@)]
    /\ UNCHANGED <<terminal, pc, ask, snap, joined, next, hold, lagged>>

\* The client closes the socket, or sending on it fails.
Leave(c) ==
    /\ pc[c] \in {"replay", "live"}
    /\ pc' = [pc EXCEPT ![c] = "left"]
    /\ UNCHANGED <<terminal, ask, snap, joined, next, hold, ws, shown, stage, got, lagged>>

-----------------------------------------------------------------------------
ClientStep(c) == Subscribe(c) \/ Replay(c) \/ Forward(c) \/ Push(c) \/ Show(c)
ReaderStep == ReadChunk \/ Broadcast \/ ReadEnds

Next ==
    \/ CreateSession \/ ReaderStep \/ ChildExits \/ ReadFromSession \/ DeleteSession
    \/ \E c \in Clients : Snapshot(c) \/ ClientStep(c) \/ Leave(c)

Spec == Init /\ [][Next]_vars

Fairness ==
    /\ WF_vars(Broadcast \/ ReadEnds)
    /\ \A c \in Clients : WF_vars(ClientStep(c))
FairSpec == Spec /\ Fairness

-----------------------------------------------------------------------------
(* Properties.                                                             *)

\* Types, and the invariants of the ring buffer: it never holds more than
\* BUFFER_LIMIT bytes, a chunk is broadcast once, and no channel overflows.
TypeOK ==
    /\ table \in {"none", "open", "gone"}
    /\ child \in {"running", "dead"}
    /\ reader \in {"read", "send", "done"}
    /\ start \in 0 .. cursor
    /\ cursor \in 0 .. MaxOutput
    /\ cursor - start <= BufferLimit
    /\ sent \in Seq(Chunk)
    /\ pc \in [Clients -> {"out", "subscribe", "replay", "live", "left"}]
    /\ ask \in [Clients -> -1 .. MaxOutput]
    /\ snap \in [Clients -> Chunk]
    /\ joined \in [Clients -> Nat \ {0}]
    /\ next \in [Clients -> Nat \ {0}]
    /\ hold \in [Clients -> Nat]
    /\ ws \in [Clients -> Seq(Nat)]
    /\ \A c \in Clients : Len(ws[c]) <= WsCapacity
    /\ shown \in [Clients -> Chunk]
    /\ stage \in [Clients -> {"none", "replay", "live"}]
    /\ got \in [Clients -> SUBSET (1 .. MaxOutput)]
    /\ lagged \in [Clients -> SUBSET Nat]

Stream == INSTANCE PtyStream WITH made <- cursor, run <- shown, stage <- stage

\* A client is never shown bytes twice or out of order, by the replay, the
\* broadcast or their seam, except that the chunk which the reader had read
\* but not yet broadcast when the buffer was copied may come once more.
ImplementsPtyStream == Stream!Spec

CaughtUp(c) ==
    pc[c] = "live" /\ next[c] > Len(sent) /\ hold[c] = 0 /\ ws[c] = <<>>

\* A client that has seen all there was to see has seen every byte from the
\* cursor it asked for, as far as the buffer still had it, with two
\* exceptions: chunks its receiver was too late for, and chunks that were
\* broadcast after the buffer was copied and before the receiver was made.
OnlyLagAndSeamLose ==
    \A c \in Clients : CaughtUp(c) =>
        \A b \in Replayed(c).from + 1 .. LastSent :
            \/ b \in got[c]
            \/ \E i \in lagged[c] : b \in Bytes(sent[i])
            \/ b > snap[c].upto /\ \E i \in 1 .. joined[c] - 1 : b \in Bytes(sent[i])

\* A client of a terminal that nobody writes to any more sees the end of the
\* output, however late it was: being too late never ends the forward task.
ClientsCatchUp == \A c \in Clients : pc[c] = "live" ~> (pc[c] = "left" \/ CaughtUp(c))
=============================================================================
