-------------------------- MODULE PtyOutputProofs --------------------------
(***************************************************************************)
(* PtyOutput for any number of clients and any sizes: the types and the    *)
(* bounds of the buffer and the channels, that it implements PtyStream,    *)
(* and that nothing is missing but what came too late.  The argument       *)
(* follows a chunk: chunks are broadcast in order and without a hole       *)
(* (Chunks), a copy of the buffer ends where one of them ends (Copied),    *)
(* a client has its chunks in order behind the one it was shown last       *)
(* (Ordered, Seen), and each is somewhere (Delivered).                     *)
(***************************************************************************)
EXTENDS PtyOutput, TLAPS

Chunks ==
    /\ \A i \in 1 .. Len(sent) : sent[i].from <= sent[i].upto /\ sent[i].upto <= LastSent
    /\ \A i, j \in 1 .. Len(sent) : i < j => sent[i].upto <= sent[j].from
    /\ \A b \in 1 .. LastSent : \E i \in 1 .. Len(sent) : b \in Bytes(sent[i])
    /\ LastSent \in 0 .. cursor
    /\ reader # "send" => LastSent = cursor

\* Nothing waits for a client that has not been sent its replay.
Early(c) ==
    pc[c] \in {"out", "subscribe", "replay"} => hold[c] = 0 /\ ws[c] = <<>> /\ stage[c] = "none"

\* The buffer is ahead of the broadcast by one chunk at most.
Copied(c) ==
    pc[c] # "out" =>
        /\ snap[c].from <= snap[c].upto /\ snap[c].upto <= cursor
        /\ snap[c].upto <= LastSent \/ (reader = "send" /\ snap[c].upto = cursor)

Joined(c) ==
    pc[c] \in {"replay", "live"} =>
        /\ joined[c] <= next[c] /\ next[c] <= Len(sent) + 1
        /\ pc[c] = "replay" => next[c] = joined[c]
        /\ \A i \in joined[c] .. Len(sent) :
              snap[c].upto <= sent[i].from \/ sent[i].upto = snap[c].upto

Ordered(c) ==
    pc[c] = "live" =>
        /\ \A k \in 1 .. Len(ws[c]) :
              joined[c] <= ws[c][k] /\ ws[c][k] < next[c] /\ (hold[c] # 0 => ws[c][k] < hold[c])
        /\ \A k, l \in 1 .. Len(ws[c]) : k < l => ws[c][k] < ws[c][l]
        /\ hold[c] # 0 => joined[c] <= hold[c] /\ hold[c] < next[c]

Seen(c) ==
    pc[c] = "live" =>
        /\ stage[c] # "none"
        /\ stage[c] = "replay" => shown[c] = Replayed(c)
        /\ stage[c] = "live" =>
              \E n \in joined[c] .. next[c] - 1 :
                 /\ shown[c] = sent[n]
                 /\ \A k \in 1 .. Len(ws[c]) : n < ws[c][k]
                 /\ hold[c] # 0 => n < hold[c]

Delivered(c) ==
    pc[c] = "live" =>
        /\ Bytes(Replayed(c)) \subseteq got[c]
        /\ \A i \in joined[c] .. Len(sent) :
              \/ Bytes(sent[i]) \subseteq got[c]
              \/ i \in lagged[c] \/ i = hold[c] \/ next[c] <= i
              \/ \E k \in 1 .. Len(ws[c]) : ws[c][k] = i

Client(c) == Early(c) /\ Copied(c) /\ Joined(c) /\ Ordered(c) /\ Seen(c) /\ Delivered(c)
IInv == TypeOK /\ Chunks /\ \A c \in Clients : Client(c)

Sizes ==
    /\ BufferLimit \in Nat \ {0} /\ Capacity \in Nat \ {0} /\ WsCapacity \in Nat \ {0}
    /\ MaxChunk \in Nat \ {0} /\ MaxOutput \in Nat

LEMMA SizesAreNumbers == Sizes
BY SizesAssumption DEF Sizes

\* What is replayed is a part of the copy, up to its end.
LEMMA ReplayedRun ==
  ASSUME TypeOK, NEW c \in Clients, snap[c].from <= snap[c].upto
  PROVE  /\ Replayed(c) \in Chunk /\ Replayed(c).from <= Replayed(c).upto
         /\ Replayed(c).upto = snap[c].upto
<1>1. snap[c].from \in 0 .. MaxOutput /\ snap[c].upto \in 0 .. MaxOutput /\ ask[c] \in -1 .. MaxOutput
  BY DEF TypeOK, Chunk
<1> DEFINE asked == IF ask[c] = -1 THEN snap[c].upto ELSE ask[c]
<1>2. asked \in 0 .. MaxOutput
  BY <1>1, SizesAreNumbers DEF Sizes
<1>3. CASE asked < snap[c].upto
  <2>1. Replayed(c) = [from |-> Larger(asked, snap[c].from), upto |-> snap[c].upto]
    BY <1>3 DEF Replayed
  <2>2. Larger(asked, snap[c].from) \in 0 .. MaxOutput /\ Larger(asked, snap[c].from) <= snap[c].upto
    BY <1>1, <1>2, <1>3, SizesAreNumbers DEF Larger, Sizes
  <2> QED
    BY <1>1, <2>1, <2>2 DEF Chunk
<1>4. CASE ~(asked < snap[c].upto)
  <2>1. Replayed(c) = [from |-> snap[c].upto, upto |-> snap[c].upto]
    BY <1>4 DEF Replayed
  <2> QED
    BY <1>1, <2>1, SizesAreNumbers DEF Chunk, Sizes
<1> QED
  BY <1>3, <1>4

LEMMA LastIsTyped == ASSUME TypeOK PROVE LastSent \in 0 .. MaxOutput
<1>1. sent \in Seq(Chunk) /\ MaxOutput \in Nat
  BY SizesAreNumbers DEF TypeOK, Sizes
<1>2. CASE sent = <<>>
  BY <1>1, <1>2 DEF LastSent
<1>3. CASE sent # <<>>
  <2>1. sent[Len(sent)] \in Chunk
    BY <1>1, <1>3
  <2> QED
    BY <1>3, <2>1 DEF LastSent, Chunk
<1> QED
  BY <1>2, <1>3

\* Where the broadcast channel begins.
LEMMA OldestIsThere ==
  ASSUME TypeOK PROVE Oldest \in Nat \ {0} /\ Oldest <= Len(sent) + 1
<1>1. Len(sent) \in Nat /\ Capacity \in Nat \ {0}
  BY SizesAreNumbers DEF TypeOK, Sizes
<1> QED
  BY <1>1 DEF Oldest, Larger

-----------------------------------------------------------------------------
\* Steps that broadcast nothing and do nothing to a client.
LEMMA Quiet ==
  ASSUME IInv, TypeOK', UNCHANGED <<sent, client>>, cursor <= cursor',
         cursor' = cursor \/ reader # "send", cursor' = cursor => (reader' = "send" <=> reader = "send"),
         cursor' # cursor => reader' = "send"
  PROVE  IInv'
<1>1. LastSent' = LastSent
  BY DEF LastSent
<1>2. cursor \in Nat /\ cursor' \in Nat /\ LastSent \in Nat
  BY SizesAreNumbers, LastIsTyped DEF IInv, TypeOK, Sizes
<1>3. Chunks'
  BY <1>1, <1>2 DEF IInv, Chunks
<1>4. ASSUME NEW c \in Clients PROVE Client(c)'
  <2>1. Client(c)
    BY DEF IInv
  <2>2. Replayed(c)' = Replayed(c)
    BY DEF client, Replayed
  <2>3. Early(c)' /\ Joined(c)' /\ Ordered(c)' /\ Seen(c)' /\ Delivered(c)'
    BY <2>1, <2>2 DEF Client, client, Early, Joined, Ordered, Seen, Delivered
  <2>4. Copied(c)'
    <3>1. snap[c].upto \in Nat
      BY SizesAreNumbers DEF IInv, TypeOK, Chunk, Sizes
    <3> QED
      BY <1>1, <1>2, <2>1, <3>1 DEF Client, client, Copied, IInv, Chunks
  <2> QED
    BY <2>3, <2>4 DEF Client
<1> QED
  BY <1>3, <1>4 DEF IInv

LEMMA BroadcastKeeps == ASSUME IInv, Broadcast PROVE IInv'
<1> DEFINE n == Len(sent)
<1> DEFINE new == [from |-> LastSent, upto |-> cursor]
<1>a. /\ sent' = Append(sent, new) /\ reader = "send" /\ reader' = "read" /\ UNCHANGED client
      /\ cursor' = cursor /\ start' = start /\ table' = table /\ child' = child
  BY DEF Broadcast
<1>b. /\ sent \in Seq(Chunk) /\ n \in Nat /\ cursor \in 0 .. MaxOutput /\ MaxOutput \in Nat
      /\ LastSent \in 0 .. MaxOutput /\ LastSent <= cursor
  BY SizesAreNumbers, LastIsTyped DEF IInv, TypeOK, Chunks, Sizes
<1>c. new \in Chunk
  BY <1>b DEF Chunk
<1>1. /\ sent' \in Seq(Chunk) /\ Len(sent') = n + 1 /\ sent'[n + 1] = new
      /\ \A i \in 1 .. n : sent'[i] = sent[i]
  BY <1>a, <1>b, <1>c
<1>2. LastSent' = cursor
  BY <1>1, <1>b DEF LastSent
<1>3. TypeOK'
  BY <1>a, <1>1 DEF IInv, TypeOK, client
<1>4. Chunks'
  <2>1. \A i \in 1 .. n : sent[i] \in Chunk
    BY <1>b
  <2>2. \A i \in 1 .. n : sent[i].from \in Nat /\ sent[i].upto \in Nat
    BY <1>b, <2>1 DEF Chunk
  <2>3. \A i \in 1 .. Len(sent') : sent'[i].from <= sent'[i].upto /\ sent'[i].upto <= LastSent'
    BY SMTT(60), <1>b, <1>1, <1>2, <2>2 DEF IInv, Chunks
  <2>4. \A i, j \in 1 .. Len(sent') : i < j => sent'[i].upto <= sent'[j].from
    <3> SUFFICES ASSUME NEW i \in 1 .. n + 1, NEW j \in 1 .. n + 1, i < j
                 PROVE  sent'[i].upto <= sent'[j].from
      BY <1>1
    <3>1. i \in 1 .. n
      BY <1>b
    <3>2. CASE j \in 1 .. n
      BY <1>1, <3>1, <3>2 DEF IInv, Chunks
    <3>3. CASE j = n + 1
      <4>1. sent'[j].from = LastSent
        BY <1>1, <3>3
      <4>2. sent'[i].upto <= LastSent
        BY <1>1, <3>1 DEF IInv, Chunks
      <4> QED
        BY <4>1, <4>2
    <3> QED
      BY <1>b, <3>2, <3>3
  <2>5. \A b \in 1 .. LastSent' : \E i \in 1 .. Len(sent') : b \in Bytes(sent'[i])
    <3> SUFFICES ASSUME NEW b \in 1 .. cursor
                 PROVE  \E i \in 1 .. n + 1 : b \in Bytes(sent'[i])
      BY <1>1, <1>2
    <3>1. CASE b <= LastSent
      <4>1. PICK i \in 1 .. n : b \in Bytes(sent[i])
        BY <1>b, <3>1 DEF IInv, Chunks
      <4> QED
        BY <1>1, <1>b, <4>1
    <3>2. CASE LastSent < b
      <4>1. b \in Bytes(sent'[n + 1])
        BY <1>b, <1>1, <3>2 DEF Bytes
      <4> QED
        BY <1>b, <4>1
    <3> QED
      BY <1>b, <3>1, <3>2
  <2>6. LastSent' \in 0 .. cursor' /\ (reader' # "send" => LastSent' = cursor')
    BY <1>a, <1>b, <1>2
  <2> QED
    BY <2>3, <2>4, <2>5, <2>6 DEF Chunks
<1>5. ASSUME NEW c \in Clients PROVE Client(c)'
  <2>1. Client(c) /\ snap[c].upto \in Nat /\ joined[c] \in Nat /\ next[c] \in Nat
        /\ joined[c] \in Nat \ {0}
    BY SizesAreNumbers DEF IInv, TypeOK, Chunk, Sizes
  <2>2. Replayed(c)' = Replayed(c)
    BY <1>a DEF client, Replayed
  <2>3. Early(c)' /\ Ordered(c)'
    BY <1>a, <2>1 DEF Client, client, Early, Ordered
  <2>4. Copied(c)'
    BY <1>a, <1>b, <1>2, <2>1 DEF Client, client, Copied
  <2>5. Joined(c)'
    <3> SUFFICES ASSUME pc[c] \in {"replay", "live"} PROVE Joined(c)'
      BY <1>a DEF client, Joined
    <3>1. snap[c].upto <= LastSent \/ snap[c].upto = cursor
      BY <2>1 DEF Client, Copied
    <3>2. \A i \in joined[c] .. n + 1 : i \in joined[c] .. n \/ i = n + 1
      BY <1>b, <2>1
    <3> QED
      BY <1>a, <1>b, <1>1, <2>1, <3>1, <3>2 DEF Client, client, Joined
  <2>6. Seen(c)'
    <3> SUFFICES ASSUME pc[c] = "live" PROVE Seen(c)'
      BY <1>a DEF client, Seen
    <3>1. next[c] <= n + 1
      BY <2>1 DEF Client, Joined
    <3>2. \A m \in joined[c] .. next[c] - 1 : sent'[m] = sent[m]
      BY <1>b, <1>1, <2>1, <3>1
    <3> QED
      BY <1>a, <2>1, <2>2, <3>2 DEF Client, client, Seen
  <2>7. Delivered(c)'
    <3> SUFFICES ASSUME pc[c] = "live" PROVE Delivered(c)'
      BY <1>a DEF client, Delivered
    <3>1. next[c] <= n + 1
      BY <2>1 DEF Client, Joined
    <3>2. \A i \in joined[c] .. n + 1 : (i \in joined[c] .. n /\ sent'[i] = sent[i]) \/ next[c] <= i
      BY <1>b, <1>1, <2>1, <3>1
    <3> QED
      BY <1>a, <1>1, <2>1, <2>2, <3>2 DEF Client, client, Delivered
  <2> QED
    BY <2>3, <2>4, <2>5, <2>6, <2>7 DEF Client
<1> QED
  BY <1>3, <1>4, <1>5 DEF IInv

-----------------------------------------------------------------------------
\* A step of one client: the terminal and the other clients stay.
Moved(c) ==
    /\ UNCHANGED terminal
    /\ \A d \in Clients \ {c} :
          /\ pc'[d] = pc[d] /\ ask'[d] = ask[d] /\ snap'[d] = snap[d] /\ joined'[d] = joined[d]
          /\ next'[d] = next[d] /\ hold'[d] = hold[d] /\ ws'[d] = ws[d] /\ shown'[d] = shown[d]
          /\ stage'[d] = stage[d] /\ got'[d] = got[d] /\ lagged'[d] = lagged[d]

LEMMA OneMoves ==
  ASSUME IInv, TypeOK', NEW c \in Clients, Moved(c), Client(c)'
  PROVE  IInv'
<1>1. LastSent' = LastSent /\ Chunks'
  BY DEF IInv, Moved, terminal, Chunks, LastSent
<1>2. ASSUME NEW d \in Clients \ {c} PROVE Client(d)'
  <2>1. Client(d) /\ Replayed(d)' = Replayed(d)
    BY DEF IInv, Moved, Replayed
  <2>2. Early(d)' /\ Copied(d)'
    BY <1>1, <2>1 DEF Client, Moved, terminal, Early, Copied
  <2>3. Joined(d)' /\ Ordered(d)'
    BY <2>1 DEF Client, Moved, terminal, Joined, Ordered
  <2>4. Seen(d)' /\ Delivered(d)'
    BY <2>1 DEF Client, Moved, terminal, Seen, Delivered
  <2> QED
    BY <2>2, <2>3, <2>4 DEF Client
<1> QED
  BY <1>1, <1>2 DEF IInv

LEMMA SnapshotKeeps == ASSUME IInv, NEW c \in Clients, Snapshot(c) PROVE IInv'
<1>1. TypeOK' /\ Moved(c)
  <2>1. [from |-> start, upto |-> cursor] \in Chunk
    BY SizesAreNumbers DEF IInv, TypeOK, Chunk, Sizes
  <2>2. TypeOK'
    BY SMTT(60), <2>1 DEF Snapshot, IInv, TypeOK, terminal
  <2> QED
    BY SMTT(60), <2>2 DEF Snapshot, IInv, TypeOK, Moved
<1>2. /\ Client(c) /\ pc[c] = "out" /\ pc'[c] = "subscribe" /\ UNCHANGED terminal
      /\ snap'[c] = [from |-> start, upto |-> cursor]
      /\ UNCHANGED <<joined, next, hold, ws, shown, stage, got, lagged>>
  BY DEF Snapshot, IInv, TypeOK
<1>3. LastSent' = LastSent /\ start \in 0 .. cursor /\ cursor \in Nat
  BY <1>2, SizesAreNumbers DEF terminal, LastSent, IInv, TypeOK, Sizes
<1>4. Copied(c)'
  BY <1>2, <1>3 DEF Copied, terminal, IInv, Chunks
<1>5. Client(c)'
  BY <1>2, <1>4 DEF Client, Early, Joined, Ordered, Seen, Delivered
<1> QED
  BY <1>1, <1>5, OneMoves

LEMMA SubscribeKeeps == ASSUME IInv, NEW c \in Clients, Subscribe(c) PROVE IInv'
<1>1. Len(sent) \in Nat
  BY DEF IInv, TypeOK
<1>2. TypeOK' /\ Moved(c)
  <2>0. Len(sent) + 1 \in Nat \ {0}
    BY <1>1
  <2>1. TypeOK'
    <3>1. joined' \in [Clients -> Nat \ {0}] /\ next' \in [Clients -> Nat \ {0}]
      BY <2>0 DEF Subscribe, IInv, TypeOK
    <3>2. pc' \in [Clients -> {"out", "subscribe", "replay", "live", "left"}]
      BY DEF Subscribe, IInv, TypeOK
    <3> QED
      BY <3>1, <3>2 DEF Subscribe, IInv, TypeOK, terminal
  <2> QED
    BY SMTT(60), <2>1 DEF Subscribe, IInv, TypeOK, Moved
<1>3. /\ Client(c) /\ pc[c] = "subscribe" /\ pc'[c] = "replay" /\ UNCHANGED terminal
      /\ joined'[c] = Len(sent) + 1 /\ next'[c] = Len(sent) + 1
      /\ UNCHANGED <<ask, snap, hold, ws, shown, stage, got, lagged>>
  BY DEF Subscribe, IInv, TypeOK
<1>4. LastSent' = LastSent
  BY <1>3 DEF terminal, LastSent
<1>5. Early(c)' /\ Copied(c)' /\ Ordered(c)' /\ Seen(c)' /\ Delivered(c)'
  BY <1>3, <1>4 DEF Client, Early, Copied, Ordered, Seen, Delivered, terminal
<1>6. Joined(c)'
  BY <1>1, <1>3 DEF Joined, terminal
<1> QED
  BY <1>2, <1>5, <1>6, OneMoves DEF Client

LEMMA ReplayKeeps == ASSUME IInv, NEW c \in Clients, Replay(c) PROVE IInv'
<1>1. /\ Client(c) /\ pc[c] = "replay" /\ pc'[c] = "live" /\ UNCHANGED terminal
      /\ shown'[c] = Replayed(c) /\ got'[c] = Bytes(Replayed(c)) /\ stage'[c] = "replay"
      /\ UNCHANGED <<ask, snap, joined, next, hold, ws, lagged>>
  BY DEF Replay, IInv, TypeOK
<1>2. Replayed(c) \in Chunk
  BY <1>1, ReplayedRun DEF IInv, Client, Copied
<1>3. Bytes(Replayed(c)) \subseteq 1 .. MaxOutput
  BY <1>2, SizesAreNumbers DEF Bytes, Chunk, Sizes
<1>4. TypeOK' /\ Moved(c)
  BY <1>2, <1>3 DEF Replay, IInv, TypeOK, Moved, terminal
<1>5. LastSent' = LastSent /\ Replayed(c)' = Replayed(c)
  BY <1>1 DEF terminal, LastSent, Replayed
<1>6. Early(c)' /\ Copied(c)' /\ Joined(c)'
  BY <1>1, <1>5 DEF Client, Early, Copied, Joined, terminal
<1>7. Ordered(c)' /\ Seen(c)'
  BY <1>1, <1>5 DEF Client, Early, Ordered, Seen
<1>8. Delivered(c)'
  <2>1. /\ next[c] \in Nat /\ Len(sent) \in Nat /\ joined[c] \in Nat
        /\ \A i \in joined[c] .. Len(sent) : next[c] <= i \/ i < next[c]
    BY DEF IInv, TypeOK
  <2>2. joined[c] = next[c]
    BY <1>1 DEF Client, Joined
  <2> QED
    BY <1>1, <1>5, <2>1, <2>2 DEF Delivered, terminal
<1> QED
  BY <1>4, <1>6, <1>7, <1>8, OneMoves DEF Client

LEMMA ForwardKeeps == ASSUME IInv, NEW c \in Clients, Forward(c) PROVE IInv'
<1>a. /\ Client(c) /\ pc[c] = "live" /\ hold[c] = 0 /\ next[c] <= Len(sent) /\ UNCHANGED terminal
      /\ UNCHANGED <<pc, ask, snap, joined, ws, shown, stage, got>>
  BY DEF Forward, IInv
<1>b. Len(sent) \in Nat /\ next[c] \in Nat \ {0} /\ joined[c] \in Nat \ {0} /\ ws[c] \in Seq(Nat)
  BY DEF IInv, TypeOK
<1>c. LastSent' = LastSent /\ Replayed(c)' = Replayed(c) /\ Oldest \in Nat \ {0}
  BY <1>a, OldestIsThere DEF terminal, LastSent, Replayed, IInv
<1>1. TypeOK'
  <2>1. next[c] .. Oldest - 1 \in SUBSET Nat
    BY <1>b, <1>c
  <2>2. next' \in [Clients -> Nat \ {0}] /\ hold' \in [Clients -> Nat]
    <3>1. next \in [Clients -> Nat \ {0}] /\ hold \in [Clients -> Nat] /\ next[c] + 1 \in Nat \ {0}
      BY <1>b DEF IInv, TypeOK
    <3>2. CASE next[c] < Oldest
      <4>1. next' = [next EXCEPT ![c] = Oldest] /\ hold' = hold
        BY <3>2 DEF Forward
      <4> QED
        BY <1>c, <3>1, <4>1
    <3>3. CASE ~(next[c] < Oldest)
      <4>1. next' = [next EXCEPT ![c] = next[c] + 1] /\ hold' = [hold EXCEPT ![c] = next[c]]
        BY <3>3 DEF Forward
      <4>2. next[c] \in Nat
        BY <1>b
      <4> HIDE DEF Oldest
      <4> QED
        BY <3>1, <4>1, <4>2
    <3> QED
      BY <3>2, <3>3
  <2>3. lagged' \in [Clients -> SUBSET Nat]
    <3>1. lagged \in [Clients -> SUBSET Nat] /\ lagged[c] \cup (next[c] .. Oldest - 1) \in SUBSET Nat
      BY <2>1 DEF IInv, TypeOK
    <3>2. lagged' = lagged \/ lagged' = [lagged EXCEPT ![c] = lagged[c] \cup (next[c] .. Oldest - 1)]
      BY DEF Forward
    <3> QED
      BY <3>1, <3>2
  <2> QED
    BY <1>a, <2>2, <2>3 DEF IInv, TypeOK, terminal
<1>2. Moved(c)
  BY DEF Forward, IInv, TypeOK, Moved
<1>3. Early(c)' /\ Copied(c)'
  BY <1>a, <1>c DEF Client, Early, Copied, terminal
<1>4. CASE next[c] < Oldest
  <2>1. next'[c] = Oldest /\ lagged'[c] = lagged[c] \cup (next[c] .. Oldest - 1) /\ hold'[c] = hold[c]
    BY <1>4 DEF Forward, IInv, TypeOK
  <2>2. Oldest <= Len(sent) + 1
    BY OldestIsThere DEF IInv
  <2>3. Joined(c)'
    BY <1>a, <1>b, <1>c, <1>4, <2>1, <2>2 DEF Client, Joined, terminal
  <2>4. Ordered(c)'
    <3>1. \A k \in 1 .. Len(ws[c]) : ws[c][k] \in Nat /\ joined[c] <= ws[c][k] /\ ws[c][k] < next[c]
      BY <1>a, <1>b DEF Client, Ordered
    <3>2. \A k \in 1 .. Len(ws[c]) : ws[c][k] < Oldest
      BY <1>b, <1>c, <1>4, <3>1
    <3> QED
      BY <1>a, <2>1, <3>1, <3>2 DEF Client, Ordered
  <2>5. Seen(c)'
    BY <1>a, <1>b, <1>c, <1>4, <2>1 DEF Client, Seen, terminal
  <2>6. Delivered(c)'
    <3>1. \A i \in Nat : next[c] <= i => i \in lagged'[c] \/ Oldest <= i
      BY <1>b, <1>c, <2>1
    <3> QED
      BY SMTT(60), <1>a, <1>b, <1>c, <2>1, <3>1 DEF Client, Delivered, terminal
  <2> QED
    BY <1>1, <1>2, <1>3, <2>3, <2>4, <2>5, <2>6, OneMoves DEF Client
<1>5. CASE ~(next[c] < Oldest)
  <2>1. next'[c] = next[c] + 1 /\ hold'[c] = next[c] /\ lagged'[c] = lagged[c]
    BY <1>5 DEF Forward, IInv, TypeOK
  <2>3. Joined(c)'
    BY <1>a, <1>b, <2>1 DEF Client, Joined, terminal
  <2>4. Ordered(c)'
    <3>1. \A k \in 1 .. Len(ws[c]) : ws[c][k] \in Nat /\ joined[c] <= ws[c][k] /\ ws[c][k] < next[c]
      BY <1>a, <1>b DEF Client, Ordered
    <3>2. \A k \in 1 .. Len(ws[c]) : ws[c][k] < next[c] + 1
      BY <1>b, <3>1
    <3>3. joined[c] <= next[c] /\ next[c] < next[c] + 1
      BY <1>a, <1>b DEF Client, Joined
    <3> QED
      BY <1>a, <2>1, <3>1, <3>2, <3>3 DEF Client, Ordered
  <2>5. Seen(c)'
    <3>1. CASE stage[c] = "live"
      <4>1. PICK n \in joined[c] .. next[c] - 1 : shown[c] = sent[n] /\ \A k \in 1 .. Len(ws[c]) : n < ws[c][k]
        BY <1>a, <3>1 DEF Client, Seen
      <4>2. n \in joined[c] .. next'[c] - 1 /\ n < next[c]
        BY <1>b, <2>1
      <4> QED
        BY <1>a, <2>1, <3>1, <4>1, <4>2 DEF Seen, terminal
    <3>2. CASE stage[c] # "live"
      BY <1>a, <1>c, <2>1, <3>2 DEF Client, Seen
    <3> QED
      BY <3>1, <3>2
  <2>6. Delivered(c)'
    <3>1. \A i \in joined[c] .. Len(sent) : next[c] <= i => i = hold'[c] \/ next'[c] <= i
      BY <1>b, <2>1
    <3>2. \A i \in joined[c] .. Len(sent) : i # hold[c]
      BY <1>a, <1>b
    <3> QED
      BY <1>a, <1>c, <2>1, <3>1, <3>2 DEF Client, Delivered, terminal
  <2> QED
    BY <1>1, <1>2, <1>3, <2>3, <2>4, <2>5, <2>6, OneMoves DEF Client
<1> QED
  BY <1>4, <1>5

LEMMA PushKeeps == ASSUME IInv, NEW c \in Clients, Push(c) PROVE IInv'
<1> DEFINE m == Len(ws[c])
<1>a. /\ Client(c) /\ pc[c] = "live" /\ hold[c] # 0 /\ m < WsCapacity /\ UNCHANGED terminal
      /\ ws'[c] = Append(ws[c], hold[c]) /\ hold'[c] = 0
      /\ UNCHANGED <<pc, ask, snap, joined, next, shown, stage, got, lagged>>
  BY DEF Push, IInv, TypeOK
<1>b. /\ ws[c] \in Seq(Nat) /\ hold[c] \in Nat /\ m \in Nat /\ next[c] \in Nat /\ joined[c] \in Nat
      /\ WsCapacity \in Nat
  BY SizesAreNumbers DEF IInv, TypeOK, Sizes
<1>c. /\ ws'[c] \in Seq(Nat) /\ Len(ws'[c]) = m + 1 /\ ws'[c][m + 1] = hold[c]
      /\ \A k \in 1 .. m : ws'[c][k] = ws[c][k]
  BY <1>a, <1>b
<1>d. LastSent' = LastSent /\ Replayed(c)' = Replayed(c)
  BY <1>a DEF terminal, LastSent, Replayed
<1>e. \A k \in 1 .. m + 1 : k \in 1 .. m \/ k = m + 1
  BY <1>b
<1>1. TypeOK'
  <2>1. ws' \in [Clients -> Seq(Nat)] /\ hold' \in [Clients -> Nat]
    BY <1>c DEF Push, IInv, TypeOK
  <2>2. \A d \in Clients : Len(ws'[d]) <= WsCapacity
    <3>1. Len(ws'[c]) <= WsCapacity
      BY <1>a, <1>b, <1>c
    <3>2. \A d \in Clients \ {c} : ws'[d] = ws[d]
      BY DEF Push, IInv, TypeOK
    <3> QED
      BY <3>1, <3>2 DEF IInv, TypeOK
  <2> QED
    BY <1>a, <2>1, <2>2 DEF IInv, TypeOK, terminal
<1>2. Moved(c)
  BY DEF Push, IInv, TypeOK, Moved
<1>3. Early(c)' /\ Copied(c)' /\ Joined(c)'
  BY <1>a, <1>d DEF Client, Early, Copied, Joined, terminal
<1>4. Ordered(c)'
  <2>1. \A k \in 1 .. m + 1 : joined[c] <= ws'[c][k] /\ ws'[c][k] < next[c]
    BY <1>a, <1>c, <1>e DEF Client, Ordered
  <2>2. \A k \in 1 .. m : ws'[c][k] < ws'[c][m + 1]
    BY <1>a, <1>c DEF Client, Ordered
  <2>3. \A k, l \in 1 .. m + 1 : k < l => ws'[c][k] < ws'[c][l]
    <3> SUFFICES ASSUME NEW k \in 1 .. m + 1, NEW l \in 1 .. m + 1, k < l PROVE ws'[c][k] < ws'[c][l]
      OBVIOUS
    <3>1. k \in 1 .. m
      BY <1>b
    <3>2. CASE l \in 1 .. m
      BY <1>a, <1>c, <3>1, <3>2 DEF Client, Ordered
    <3> QED
      BY <1>e, <2>2, <3>1, <3>2
  <2> QED
    BY <1>a, <1>c, <2>1, <2>3 DEF Ordered
<1>5. Seen(c)'
  <2>1. CASE stage[c] = "live"
    <3>1. PICK n \in joined[c] .. next[c] - 1 :
             shown[c] = sent[n] /\ n < hold[c] /\ \A k \in 1 .. m : n < ws[c][k]
      BY <1>a, <2>1 DEF Client, Seen
    <3>2. \A k \in 1 .. m + 1 : n < ws'[c][k]
      BY <1>c, <1>e, <3>1
    <3> QED
      BY <1>a, <1>c, <2>1, <3>1, <3>2 DEF Seen, terminal
  <2>2. CASE stage[c] # "live"
    BY <1>a, <1>d, <2>2 DEF Client, Seen
  <2> QED
    BY <2>1, <2>2
<1>6. Delivered(c)'
  <2>1. \A i \in Nat : (i = hold[c] \/ \E k \in 1 .. m : ws[c][k] = i) => \E k \in 1 .. m + 1 : ws'[c][k] = i
    <3>1. m + 1 \in 1 .. m + 1 /\ \A k \in 1 .. m : k \in 1 .. m + 1
      BY <1>b
    <3> QED
      BY <1>c, <3>1
  <2>2. \A i \in joined[c] .. Len(sent) : i \in Nat
    BY <1>b
  <2> QED
    BY <1>a, <1>c, <1>d, <2>1, <2>2 DEF Client, Delivered, terminal
<1> QED
  BY <1>1, <1>2, <1>3, <1>4, <1>5, <1>6, OneMoves DEF Client

LEMMA ShowKeeps == ASSUME IInv, NEW c \in Clients, Show(c) PROVE IInv'
<1> DEFINE m == Len(ws[c])
<1> DEFINE h == ws[c][1]
<1>a. /\ Client(c) /\ pc[c] = "live" /\ ws[c] # <<>> /\ UNCHANGED terminal
      /\ Head(ws[c]) = h /\ ws'[c] = Tail(ws[c]) /\ shown'[c] = sent[h] /\ got'[c] = got[c] \cup Bytes(sent[h])
      /\ stage'[c] = "live"
      /\ UNCHANGED <<pc, ask, snap, joined, next, hold, lagged>>
  <2>1. ws[c] \in Seq(Nat)
    BY DEF IInv, TypeOK
  <2>2. ws[c] # <<>> => Head(ws[c]) = ws[c][1]
    BY <2>1
  <2> QED
    BY <2>2 DEF Show, IInv, TypeOK
<1>b. /\ ws[c] \in Seq(Nat) /\ hold[c] \in Nat /\ m \in Nat \ {0} /\ next[c] \in Nat /\ joined[c] \in Nat \ {0}
      /\ Len(sent) \in Nat /\ sent \in Seq(Chunk)
  BY <1>a DEF IInv, TypeOK
<1>c. /\ ws'[c] \in Seq(Nat) /\ Len(ws'[c]) = m - 1
      /\ \A k \in 1 .. m - 1 : ws'[c][k] = ws[c][k + 1] /\ k + 1 \in 1 .. m
  BY SMTT(60), <1>a, <1>b
<1>d. /\ h \in joined[c] .. next[c] - 1 /\ h \in 1 .. Len(sent) /\ (hold[c] # 0 => h < hold[c])
      /\ \A k \in 2 .. m : h < ws[c][k]
  <2>1. 1 \in 1 .. m /\ h \in Nat /\ next[c] <= Len(sent) + 1
    BY <1>a, <1>b DEF Client, Joined
  <2>2. joined[c] <= h /\ h < next[c] /\ (hold[c] # 0 => h < hold[c])
    BY <1>a, <2>1 DEF Client, Ordered
  <2>3. \A k \in 2 .. m : k \in 1 .. m /\ 1 < k
    BY <1>b
  <2>4. \A k \in 2 .. m : h < ws[c][k]
    BY <1>a, <2>1, <2>3 DEF Client, Ordered
  <2> QED
    BY SMTT(60), <1>b, <2>1, <2>2, <2>4
<1>e. sent[h] \in Chunk
  BY <1>b, <1>d
<1>f. LastSent' = LastSent /\ Replayed(c)' = Replayed(c)
  BY <1>a DEF terminal, LastSent, Replayed
<1>1. TypeOK'
  <2>1. Bytes(sent[h]) \subseteq 1 .. MaxOutput
    BY <1>e, SizesAreNumbers DEF Bytes, Chunk, Sizes
  <2>2. ws' \in [Clients -> Seq(Nat)] /\ stage' \in [Clients -> {"none", "replay", "live"}]
    BY <1>c DEF Show, IInv, TypeOK
  <2>3. got' \in [Clients -> SUBSET (1 .. MaxOutput)]
    BY <1>a, <2>1 DEF Show, IInv, TypeOK
  <2>4. shown' \in [Clients -> Chunk]
    BY <1>a, <1>e DEF Show, IInv, TypeOK
  <2>5. \A d \in Clients : Len(ws'[d]) <= WsCapacity
    <3>1. Len(ws'[c]) <= WsCapacity
      BY <1>b, <1>c, SizesAreNumbers DEF IInv, TypeOK, Sizes
    <3>2. \A d \in Clients \ {c} : ws'[d] = ws[d]
      BY DEF Show, IInv, TypeOK
    <3> QED
      BY <3>1, <3>2 DEF IInv, TypeOK
  <2> QED
    BY <1>a, <2>2, <2>3, <2>4, <2>5 DEF IInv, TypeOK, terminal
<1>2. Moved(c)
  BY DEF Show, IInv, TypeOK, Moved
<1>3. Early(c)' /\ Copied(c)' /\ Joined(c)'
  BY <1>a, <1>f DEF Client, Early, Copied, Joined, terminal
<1>4. Ordered(c)'
  <2>1. \A k \in 1 .. m - 1 : joined[c] <= ws'[c][k] /\ ws'[c][k] < next[c] /\ (hold[c] # 0 => ws'[c][k] < hold[c])
    BY <1>a, <1>c DEF Client, Ordered
  <2>2. \A k, l \in 1 .. m - 1 : k < l => ws'[c][k] < ws'[c][l]
    <3> SUFFICES ASSUME NEW k \in 1 .. m - 1, NEW l \in 1 .. m - 1, k < l PROVE ws'[c][k] < ws'[c][l]
      OBVIOUS
    <3>1. k + 1 \in 1 .. m /\ l + 1 \in 1 .. m /\ k + 1 < l + 1
      <4>1. m \in Nat /\ k \in Nat /\ l \in Nat /\ 1 <= k /\ l <= m - 1
        BY <1>b
      <4> HIDE DEF m
      <4> QED
        BY <4>1
    <3>2. ws[c][k + 1] < ws[c][l + 1]
      BY <1>a, <3>1 DEF Client, Ordered
    <3> QED
      BY <1>c, <3>2
  <2>3. hold[c] # 0 => joined[c] <= hold[c] /\ hold[c] < next[c]
    BY <1>a DEF Client, Ordered
  <2> QED
    BY <1>a, <1>c, <2>1, <2>2, <2>3 DEF Ordered
<1>5. Seen(c)'
  <2>1. \A k \in 1 .. m - 1 : h < ws'[c][k]
    <3>1. \A k \in 1 .. m - 1 : k + 1 \in 2 .. m
      BY <1>b
    <3> QED
      BY <1>c, <1>d, <3>1
  <2> QED
    BY <1>a, <1>c, <1>d, <2>1 DEF Seen, terminal
<1>6. Delivered(c)'
  <2>1. \A i \in Nat : (\E k \in 1 .. m : ws[c][k] = i) => i = h \/ \E k \in 1 .. m - 1 : ws'[c][k] = i
    <3> SUFFICES ASSUME NEW k \in 1 .. m, k # 1 PROVE \E l \in 1 .. m - 1 : ws'[c][l] = ws[c][k]
      OBVIOUS
    <3>1. k - 1 \in 1 .. m - 1 /\ (k - 1) + 1 = k
      BY <1>b
    <3> QED
      BY <1>c, <3>1
  <2>2. \A i \in joined[c] .. Len(sent) : i \in Nat
    BY <1>b
  <2> QED
    BY <1>a, <1>c, <1>f, <2>1, <2>2 DEF Client, Delivered, terminal
<1> QED
  BY <1>1, <1>2, <1>3, <1>4, <1>5, <1>6, OneMoves DEF Client

LEMMA LeaveKeeps == ASSUME IInv, NEW c \in Clients, Leave(c) PROVE IInv'
<1>1. /\ Client(c) /\ pc'[c] = "left" /\ pc[c] # "out" /\ UNCHANGED terminal
      /\ UNCHANGED <<ask, snap, joined, next, hold, ws, shown, stage, got, lagged>>
  BY DEF Leave, IInv, TypeOK
<1>2. TypeOK' /\ Moved(c)
  BY DEF Leave, IInv, TypeOK, Moved, terminal
<1>3. LastSent' = LastSent
  BY <1>1 DEF terminal, LastSent
<1>4. Client(c)'
  BY <1>1, <1>3 DEF Client, Early, Copied, Joined, Ordered, Seen, Delivered, terminal
<1> QED
  BY <1>2, <1>4, OneMoves

LEMMA Inductive == IInv /\ [Next]_vars => IInv'
<1> SUFFICES ASSUME IInv, [Next]_vars PROVE IInv'
  OBVIOUS
<1>a. cursor \in Nat /\ start \in 0 .. cursor /\ BufferLimit \in Nat \ {0} /\ MaxOutput \in Nat
      /\ MaxChunk \in Nat \ {0}
  BY SizesAreNumbers DEF IInv, TypeOK, Sizes
<1>1. CASE CreateSession \/ ChildExits \/ DeleteSession \/ ReadEnds
  <2>1. TypeOK' /\ UNCHANGED <<sent, client, cursor>> /\ (reader' = "send" <=> reader = "send")
    BY <1>1 DEF CreateSession, ChildExits, DeleteSession, ReadEnds, IInv, TypeOK, client
  <2> QED
    BY <1>a, <2>1, Quiet
<1>2. CASE ReadFromSession
  <2>1. TypeOK'
    BY <1>2, <1>a DEF ReadFromSession, IInv, TypeOK, client
  <2> QED
    BY <1>2, <1>a, <2>1, Quiet DEF ReadFromSession
<1>3. CASE ReadChunk
  <2>1. cursor' \in 0 .. MaxOutput /\ cursor < cursor' /\ start' \in 0 .. cursor' /\ cursor' - start' <= BufferLimit
    BY <1>3, <1>a DEF ReadChunk, IInv, TypeOK
  <2>2. TypeOK'
    BY <1>3, <2>1 DEF ReadChunk, IInv, TypeOK, client
  <2> QED
    BY <1>3, <1>a, <2>1, <2>2, Quiet DEF ReadChunk
<1>4. CASE Broadcast
  BY <1>4, BroadcastKeeps
<1>5. ASSUME NEW c \in Clients, Snapshot(c) \/ ClientStep(c) \/ Leave(c) PROVE IInv'
  BY <1>5, SnapshotKeeps, SubscribeKeeps, ReplayKeeps, ForwardKeeps, PushKeeps, ShowKeeps, LeaveKeeps
     DEF ClientStep
<1>6. CASE UNCHANGED vars
  <2>1. TypeOK'
    BY <1>6 DEF vars, terminal, client, IInv, TypeOK
  <2> QED
    BY <1>6, <1>a, <2>1, Quiet DEF vars, terminal
<1> QED
  BY <1>1, <1>2, <1>3, <1>4, <1>5, <1>6 DEF Next, ReaderStep

LEMMA Initial == Init => IInv
<1> SUFFICES ASSUME Init PROVE IInv
  OBVIOUS
<1>1. LastSent = 0 /\ Nothing \in Chunk /\ <<>> \in Seq(Nat) /\ <<>> \in Seq(Chunk)
  BY SizesAreNumbers DEF Init, LastSent, Nothing, Chunk, Sizes
<1>2. TypeOK
  BY <1>1, SizesAreNumbers DEF Init, TypeOK, Sizes
<1>3. Chunks
  BY <1>1 DEF Init, Chunks
<1>4. ASSUME NEW c \in Clients PROVE Client(c)
  BY DEF Init, Client, Early, Copied, Joined, Ordered, Seen, Delivered
<1> QED
  BY <1>2, <1>3, <1>4 DEF IInv

LEMMA Invariant == Spec => []IInv
BY Initial, Inductive, PTL DEF Spec

\* However the buffer, the broadcast and the channels are sized, the buffer
\* holds no more than BUFFER_LIMIT bytes and no channel overflows.
THEOREM TypeCorrect == Spec => []TypeOK
<1>1. IInv => TypeOK
  BY DEF IInv
<1> QED
  BY Invariant, <1>1, PTL

-----------------------------------------------------------------------------
\* Every step of the code is one that PtyStream allows, or none that it sees.
LEMMA StepRefines == IInv /\ IInv' /\ [Next]_vars => [Stream!Next]_(Stream!vars)
<1> SUFFICES ASSUME IInv, IInv', [Next]_vars PROVE [Stream!Next]_(Stream!vars)
  OBVIOUS
<1>1. CASE ReadChunk
  <2>1. cursor' \in Nat /\ cursor < cursor'
    BY <1>1, SizesAreNumbers DEF ReadChunk, IInv, TypeOK, Sizes
  <2> QED
    BY <1>1, <2>1 DEF ReadChunk, client, Stream!Next, Stream!Make
<1>2. ASSUME NEW c \in Clients, Replay(c) PROVE Stream!Next
  <2>1. Client(c) /\ pc[c] = "replay" /\ snap[c] \in Chunk /\ cursor \in Nat
    BY <1>2, SizesAreNumbers DEF Replay, IInv, TypeOK, Sizes
  <2>2. Replayed(c) \in Chunk /\ Replayed(c).from <= Replayed(c).upto /\ Replayed(c).upto <= cursor
    BY <2>1, ReplayedRun DEF IInv, Client, Copied
  <2>3. Replayed(c) \in Stream!Runs
    BY <2>1, <2>2 DEF Chunk, Stream!Runs
  <2>4. stage[c] = "none"
    BY <2>1 DEF Client, Early
  <2> QED
    BY <1>2, <2>3, <2>4 DEF Replay, terminal, Stream!Next, Stream!Replay, Stream!Show
<1>3. ASSUME NEW c \in Clients, Show(c) PROVE Stream!Next
  <2> DEFINE h == ws[c][1]
  <2>1. /\ Client(c) /\ pc[c] = "live" /\ ws[c] \in Seq(Nat) /\ ws[c] # <<>> /\ Head(ws[c]) = h
        /\ Len(ws[c]) \in Nat \ {0} /\ h \in Nat
    <3>1. Client(c) /\ pc[c] = "live" /\ ws[c] \in Seq(Nat) /\ ws[c] # <<>>
      BY <1>3 DEF Show, IInv, TypeOK
    <3>2. Head(ws[c]) = ws[c][1] /\ Len(ws[c]) \in Nat \ {0} /\ Head(ws[c]) \in Nat
      BY <3>1
    <3> QED
      BY <3>1, <3>2
  <2>2. 1 \in 1 .. Len(ws[c]) /\ joined[c] \in Nat \ {0} /\ next[c] \in Nat /\ sent \in Seq(Chunk)
        /\ Len(sent) \in Nat
    <3>1. joined[c] \in Nat \ {0} /\ next[c] \in Nat /\ sent \in Seq(Chunk)
      BY DEF IInv, TypeOK
    <3>2. 1 \in 1 .. Len(ws[c])
      BY <2>1
    <3> QED
      BY <3>1, <3>2
  <2>3. h \in joined[c] .. Len(sent) /\ h \in 1 .. Len(sent)
    <3>1. joined[c] <= h /\ h < next[c]
      BY <2>1, <2>2 DEF Client, Ordered
    <3>2. next[c] <= Len(sent) + 1
      BY <2>1 DEF Client, Joined
    <3> HIDE DEF h
    <3> QED
      BY <2>1, <2>2, <3>1, <3>2
  <2>4. sent[h] \in Chunk /\ sent[h].from <= sent[h].upto /\ sent[h].upto <= cursor /\ cursor \in Nat
    <3>1. sent[h] \in Chunk /\ sent[h].from <= sent[h].upto /\ sent[h].upto <= LastSent
      BY <2>2, <2>3 DEF IInv, Chunks
    <3>2. LastSent \in Nat /\ LastSent <= cursor /\ cursor \in Nat /\ sent[h].upto \in Nat
      <4>1. LastSent \in 0 .. cursor /\ cursor \in Nat /\ MaxOutput \in Nat
        BY SizesAreNumbers DEF IInv, Chunks, TypeOK, Sizes
      <4>2. sent[h].upto \in 0 .. MaxOutput
        BY <3>1 DEF Chunk
      <4> QED
        BY <4>1, <4>2
    <3> QED
      BY <3>1, <3>2
  <2>5. sent[h] \in Stream!Runs
    BY <2>4 DEF Chunk, Stream!Runs
  <2>6. Stream!Show(c, sent[h], "live")
    BY <1>3, <2>1 DEF Show, Stream!Show, terminal
  <2>7. CASE stage[c] = "live"
    <3>1. PICK n \in joined[c] .. next[c] - 1 : shown[c] = sent[n] /\ n < h
      BY <2>1, <2>2, <2>7 DEF Client, Seen
    <3>2. n \in 1 .. Len(sent)
      BY <2>2, <2>3, <3>1
    <3>3. sent[n].upto <= sent[h].from
      BY <2>3, <3>1, <3>2 DEF IInv, Chunks
    <3> QED
      BY <2>5, <2>6, <2>7, <3>1, <3>3 DEF Stream!Next, Stream!GoOn
  <2>8. CASE stage[c] = "replay"
    <3>1. shown[c].upto = snap[c].upto
      BY <2>1, <2>8, ReplayedRun DEF Client, Seen, Copied, IInv
    <3>2. snap[c].upto <= sent[h].from \/ sent[h].upto = snap[c].upto
      BY <2>1, <2>3 DEF Client, Joined
    <3> QED
      BY <2>5, <2>6, <2>8, <3>1, <3>2 DEF Stream!Next, Stream!GoOn, Stream!RepeatTheEnd
  <2> QED
    BY <2>1, <2>7, <2>8 DEF Client, Seen, IInv, TypeOK
<1>4. ASSUME UNCHANGED <<cursor, shown, stage>> PROVE UNCHANGED Stream!vars
  BY <1>4 DEF Stream!vars
<1>5. ASSUME NEW c \in Clients, Snapshot(c) \/ Subscribe(c) \/ Forward(c) \/ Push(c) \/ Leave(c)
      PROVE UNCHANGED <<cursor, shown, stage>>
  BY <1>5 DEF Snapshot, Subscribe, Forward, Push, Leave, terminal
<1>6. CASE CreateSession \/ Broadcast \/ ReadEnds \/ ChildExits \/ ReadFromSession \/ DeleteSession \/ UNCHANGED vars
  BY <1>4, <1>6 DEF CreateSession, Broadcast, ReadEnds, ChildExits, ReadFromSession, DeleteSession,
                    vars, terminal, client
<1> QED
  BY <1>1, <1>2, <1>3, <1>4, <1>5, <1>6 DEF Next, ReaderStep, ClientStep

\* A client is shown a replay and then live output in order, whatever the sizes
\* and however many clients there are; only the end of the replay may come twice.
THEOREM Implements == Spec => ImplementsPtyStream
<1>1. Init => Stream!Init
  BY DEF Init, Nothing, Stream!Init
<1>2. IInv /\ IInv' /\ [Next]_vars => [Stream!Next]_(Stream!vars)
  BY StepRefines
<1> QED
  BY Invariant, <1>1, <1>2, PTL DEF Spec, ImplementsPtyStream, Stream!Spec

\* So the output that a client is shown never goes back: each run of bytes ends
\* where the one before it ended, or later, and only the end of the replay comes
\* twice.
THEOREM NeverGoesBack ==
  Spec => [][\A c \in Clients : shown'[c] # shown[c] =>
                \/ shown[c].upto <= shown'[c].from
                \/ stage[c] = "replay" /\ stage'[c] = "live" /\ shown'[c].upto = shown[c].upto]_vars
<1> DEFINE Onward == \A c \in Clients : shown'[c] # shown[c] =>
                \/ shown[c].upto <= shown'[c].from
                \/ stage[c] = "replay" /\ stage'[c] = "live" /\ shown'[c].upto = shown[c].upto
           Fresh == /\ DOMAIN shown = Clients /\ DOMAIN stage = Clients
                    /\ \A c \in Clients : stage[c] \in {"none", "replay", "live"}
                    /\ \A c \in Clients : stage[c] = "none" => shown[c].upto = 0
<1>1. Stream!Init => Fresh
  BY DEF Stream!Init
<1>2. Fresh /\ [Stream!Next]_(Stream!vars) => Fresh' /\ Onward
  <2> SUFFICES ASSUME Fresh, [Stream!Next]_(Stream!vars) PROVE Fresh' /\ Onward
    OBVIOUS
  <2>1. CASE UNCHANGED <<shown, stage>>
    BY <2>1
  <2>2. ASSUME NEW d \in Clients, NEW r \in Stream!Runs, NEW kind \in {"replay", "live"},
               Stream!Show(d, r, kind)
        PROVE  /\ Fresh' /\ shown'[d] = r /\ stage'[d] = kind
               /\ \A c \in Clients : c # d => shown'[c] = shown[c]
    BY <2>2 DEF Stream!Show
  <2>3. ASSUME NEW d \in Clients, Stream!Replay(d) PROVE Fresh' /\ Onward
    <3>1. stage[d] = "none" /\ \E r \in Stream!Runs : Stream!Show(d, r, "replay")
      BY <2>3 DEF Stream!Replay
    <3>2. \A r \in Stream!Runs : 0 <= r.from
      BY DEF Stream!Runs
    <3> QED
      BY <2>2, <3>1, <3>2
  <2>4. ASSUME NEW d \in Clients, Stream!GoOn(d) PROVE Fresh' /\ Onward
    BY <2>2, <2>4 DEF Stream!GoOn
  <2>5. ASSUME NEW d \in Clients, Stream!RepeatTheEnd(d) PROVE Fresh' /\ Onward
    BY <2>2, <2>5 DEF Stream!RepeatTheEnd
  <2> QED
    BY <2>1, <2>3, <2>4, <2>5 DEF Stream!Next, Stream!Make, Stream!vars
<1>3. Stream!Spec => [][Onward]_vars
  <2>1. Onward => [Onward]_vars
    OBVIOUS
  <2> QED
    BY <1>1, <1>2, <2>1, PTL DEF Stream!Spec
<1> QED
  BY <1>3, Implements, PTL DEF ImplementsPtyStream

\* What a client that caught up has not seen came too late or in the seam.
THEOREM NothingElseIsLost == Spec => []OnlyLagAndSeamLose
<1>1. IInv => OnlyLagAndSeamLose
  <2> SUFFICES ASSUME IInv, NEW c \in Clients, CaughtUp(c), NEW b \in Replayed(c).from + 1 .. LastSent
               PROVE  \/ b \in got[c]
                      \/ \E i \in lagged[c] : b \in Bytes(sent[i])
                      \/ b > snap[c].upto /\ \E i \in 1 .. joined[c] - 1 : b \in Bytes(sent[i])
    BY DEF OnlyLagAndSeamLose
  <2>1. /\ Client(c) /\ pc[c] = "live" /\ Len(sent) < next[c] /\ hold[c] = 0 /\ ws[c] = <<>>
        /\ Len(sent) \in Nat /\ next[c] \in Nat /\ joined[c] \in Nat \ {0} /\ snap[c] \in Chunk
    BY DEF CaughtUp, IInv, TypeOK
  <2>2. /\ Replayed(c) \in Chunk /\ Replayed(c).upto = snap[c].upto
    BY <2>1, ReplayedRun DEF Client, Copied, IInv
  <2>3. Replayed(c).from \in Nat /\ snap[c].upto \in Nat /\ LastSent \in Nat /\ b \in Nat
    BY <2>1, <2>2, LastIsTyped, SizesAreNumbers DEF Chunk, Sizes, IInv
  <2>4. CASE b <= snap[c].upto
    <3>1. b \in Bytes(Replayed(c))
      BY <2>2, <2>3, <2>4 DEF Bytes
    <3> QED
      BY <2>1, <3>1 DEF Client, Delivered
  <2>5. CASE snap[c].upto < b
    <3>1. b \in 1 .. LastSent
      BY <2>3, <2>5
    <3>2. PICK i \in 1 .. Len(sent) : b \in Bytes(sent[i])
      BY <3>1 DEF IInv, Chunks
    <3>3. CASE i < joined[c]
      BY <2>1, <2>5, <3>2, <3>3
    <3>4. CASE joined[c] <= i
      <4>1. i \in joined[c] .. Len(sent) /\ ~(next[c] <= i) /\ i # hold[c]
        BY <2>1, <3>2, <3>4
      <4>2. Bytes(sent[i]) \subseteq got[c] \/ i \in lagged[c]
        BY <2>1, <4>1 DEF Client, Delivered
      <4> QED
        BY <3>2, <4>2
    <3> QED
      BY <2>1, <3>2, <3>3, <3>4
  <2> QED
    BY <2>3, <2>4, <2>5
<1> QED
  BY Invariant, <1>1, PTL
=============================================================================
