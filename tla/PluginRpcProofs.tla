-------------------------- MODULE PluginRpcProofs --------------------------
(***************************************************************************)
(* Proofs about PluginRpc for every set of tasks, every capacity and every *)
(* number of chunks: rpc_lock keeps stdout to one reader, nobody is given  *)
(* what belongs to another request, and a stream that ends well is whole.  *)
(***************************************************************************)
EXTENDS PluginRpc, SequenceTheorems, TLAPS

\* Whoever writes a request or reads stdout has the lock, and the task of a
\* stream runs only after its caller is past the write.
Owner ==
    /\ \A c \in Tasks : pc[c] \in {"write", "read"} \/ reader[c] => rpc = c
    /\ \A c \in Tasks : reader[c] => pc[c] \in {"start", "stream", "done"}

\* What is in a channel is its stream's own, and a task that may still take an
\* id has received nothing.
Own ==
    /\ \A c \in Tasks : pc[c] \in {"idle", "lock"} => got[c] = <<>> /\ chan[c] = <<>>
    /\ \A c \in Tasks : \A k \in 1..Len(chan[c]) : chan[c][k].id = id[c]
    /\ OwnAnswers

-----------------------------------------------------------------------------
(* Types *)

\* The first type facts hold at the start.
LEMMA InitTypes == Init => TypeOK
BY BoundsAssumption
   DEF Init, TypeOK, Kinds, PC, Messages, Idle, What

\* Every frame the host makes is a message.
LEMMA FrameType ==
    ASSUME NEW what \in What, NEW i \in Nat, NEW n \in 0..MaxChunks
    PROVE  Frame(what, i, n) \in Messages
BY DEF Frame, Messages

LEMMA ZeroChunks == 0 \in 0..MaxChunks
BY BoundsAssumption

Outcomes == {"none", "ok", "failed", "timeout", "left", "protocol", "notRunning"}

\* The parts of TypeOK that a reader changes.
ReaderTypes ==
    /\ pc \in [Tasks -> PC]
    /\ outcome \in [Tasks -> Outcomes]
    /\ rpc \in Tasks \cup {NoTask}
    /\ reader \in [Tasks -> BOOLEAN]
    /\ chan \in [Tasks -> Seq(Messages)]
    /\ \A c \in Tasks : Len(chan[c]) <= Capacity

\* What a reader does to the channel keeps its type and its bound.
LEMMA ChanTypes ==
    ASSUME ReaderTypes, NEW c \in Tasks, NEW m \in Messages, HasRoom(c), SendChunk(c, m)
    PROVE  /\ chan' \in [Tasks -> Seq(Messages)]
           /\ \A d \in Tasks : Len(chan'[d]) <= Capacity
<1>1. CASE pc[c] # "stream"
  BY <1>1 DEF ReaderTypes, SendChunk
<1>2. CASE pc[c] = "stream"
  <2>1. chan[c] \in Seq(Messages) /\ Len(chan[c]) < Capacity /\ Len(chan[c]) \in Nat
    BY <1>2 DEF ReaderTypes, HasRoom
  <2>2. Append(chan[c], m) \in Seq(Messages) /\ Len(Append(chan[c], m)) = Len(chan[c]) + 1
    BY <2>1
  <2>3. chan' = [chan EXCEPT ![c] = Append(chan[c], m)]
    BY <1>2 DEF SendChunk
  <2>4. Len(Append(chan[c], m)) <= Capacity
    BY <2>1, <2>2, BoundsAssumption
  <2> QED BY <2>2, <2>3, <2>4 DEF ReaderTypes
<1> QED BY <1>1, <1>2

\* How a reader fails keeps the types of what it changes.
LEMMA FailTypes ==
    ASSUME ReaderTypes, NEW i \in Nat, NEW c \in Tasks, i = id[c],
           NEW how \in {"failed", "protocol", "notRunning"}, Fail(c, how)
    PROVE  ReaderTypes'
<1>1. Frame("failed", i, 0) \in Messages
  BY FrameType, ZeroChunks DEF What
<1>2. how \in Outcomes
  BY DEF Outcomes
<1>3. pc' \in [Tasks -> PC] /\ outcome' \in [Tasks -> Outcomes]
  BY <1>2 DEF ReaderTypes, Fail, Returns, Goto, Stays, PC
<1>4. rpc' \in Tasks \cup {NoTask} /\ reader' \in [Tasks -> BOOLEAN]
  BY DEF ReaderTypes, Fail, Unlock, EndReader
<1>5. /\ chan' \in [Tasks -> Seq(Messages)]
      /\ \A d \in Tasks : Len(chan'[d]) <= Capacity
  <2>1. CASE pc[c] = "read"
    BY <2>1 DEF ReaderTypes, Fail
  <2>2. CASE pc[c] # "read"
    BY <2>2, <1>1, ChanTypes DEF Fail
  <2> QED BY <2>1, <2>2
<1> QED BY <1>3, <1>4, <1>5 DEF ReaderTypes

\* So does what a call reads, and what it is given is a sequence of messages.
LEMMA CallReadsTypes ==
    ASSUME ReaderTypes, got \in [Tasks -> Seq(Messages)], NEW c \in Tasks,
           id[c] \in Nat, NEW m \in Messages, CallReads(c, m)
    PROVE  ReaderTypes' /\ got' \in [Tasks -> Seq(Messages)]
<1>1. CASE IsAnswer(m) /\ m.id = id[c] /\ m.what = "error"
  BY <1>1, FailTypes DEF CallReads
<1>2. CASE IsAnswer(m) /\ m.id = id[c] /\ m.what # "error"
  <2>1. <<m>> \in Seq(Messages)
    OBVIOUS
  <2>2. got' \in [Tasks -> Seq(Messages)]
    BY <1>2, <2>1 DEF CallReads
  <2> QED BY <1>2, <2>2 DEF CallReads, ReaderTypes, Unlock, Returns, Goto, PC, Outcomes
<1>3. CASE ~(IsAnswer(m) /\ m.id = id[c])
  BY <1>3 DEF CallReads, ReaderTypes, Stays
<1> QED BY <1>1, <1>2, <1>3

\* So does what the task of a stream reads.
LEMMA StreamReadsTypes ==
    ASSUME ReaderTypes, NEW c \in Tasks, id[c] \in Nat, NEW m \in Messages,
           StreamReads(c, m)
    PROVE  ReaderTypes' /\ UNCHANGED got
<1>0. UNCHANGED got
  BY DEF StreamReads
<1>1. CASE m.id # id[c] /\ Stays /\ UNCHANGED <<rpc, reader, chan>>
  BY <1>0, <1>1 DEF ReaderTypes, Stays
<1>2. CASE /\ IF pc[c] = "start" THEN Goto(c, "stream") ELSE UNCHANGED pc
           /\ UNCHANGED <<outcome, rpc, reader, chan>>
  BY <1>0, <1>2 DEF ReaderTypes, Goto, PC
<1>3. CASE Fail(c, "failed")
  BY <1>0, <1>3, FailTypes
<1>4. CASE /\ HasRoom(c) /\ SendChunk(c, m)
           /\ IF pc[c] = "stream" THEN UNCHANGED <<rpc, reader>> ELSE EndReader(c)
           /\ Stays
  BY <1>0, <1>4, ChanTypes DEF ReaderTypes, Stays, EndReader, Unlock
<1>5. CASE OnEnd(c)
  BY <1>0, <1>5 DEF OnEnd, ReaderTypes, EndReader, Unlock, Returns, Goto, Stays, PC, Outcomes
<1> QED BY <1>1, <1>2, <1>3, <1>4, <1>5 DEF StreamReads

\* The parts of TypeOK that only the callers or the host change.
OtherTypes ==
    /\ kind \in [Tasks -> Kinds]
    /\ id \in [Tasks -> Nat]
    /\ nextId \in Nat \ {0}
    /\ got \in [Tasks -> Seq(Messages)]
    /\ stdin \in Seq(Requests)
    /\ stdout \in Seq(Messages)
    /\ front \in {"whole", "opened", "orphan"}
    /\ front # "whole" => stdout # <<>>
    /\ host \in [id : Nat, kind : Kinds, n : 0..MaxChunks, started : BOOLEAN]
    /\ alive \in BOOLEAN
    /\ DOMAIN sent \subseteq Nat

LEMMA TypeParts == TypeOK <=> ReaderTypes /\ OtherTypes
BY DEF TypeOK, ReaderTypes, OtherTypes, Outcomes

LEMMA TypePartsNext == ReaderTypes' /\ OtherTypes' => TypeOK'
BY DEF TypeOK, ReaderTypes, OtherTypes, Outcomes

LEMMA IdleType == Idle \in [id : Nat, kind : Kinds, n : 0..MaxChunks, started : BOOLEAN]
BY ZeroChunks DEF Idle, Kinds

\* A step keeps the types.
LEMMA NextTypes == TypeOK /\ [Next]_vars => TypeOK'
<1> SUFFICES ASSUME ReaderTypes, OtherTypes, [Next]_vars PROVE ReaderTypes' /\ OtherTypes'
  BY TypeParts, TypePartsNext
<1> USE DEF callerVars, hostVars, hostOnly
<1>1. ASSUME NEW c \in Tasks, Enter(c) PROVE ReaderTypes' /\ OtherTypes'
  <2>1. id' \in [Tasks -> Nat] /\ nextId' \in Nat \ {0}
    <3>1. id[c] \in Nat /\ id \in [Tasks -> Nat] /\ nextId \in Nat \ {0}
      BY DEF OtherTypes
    <3>2. TakeId(c) \/ UNCHANGED <<id, nextId>>
      BY <1>1 DEF Enter
    <3> QED BY <3>1, <3>2 DEF TakeId
  <2>2. ReaderTypes'
    BY <1>1 DEF Enter, Goto, ReaderTypes, PC
  <2> QED BY <1>1, <2>1, <2>2 DEF Enter, OtherTypes
<1>2. ASSUME NEW c \in Tasks, Lock(c) PROVE ReaderTypes' /\ OtherTypes'
  <2>1. id' \in [Tasks -> Nat] /\ nextId' \in Nat \ {0}
    <3>1. id[c] \in Nat /\ id \in [Tasks -> Nat] /\ nextId \in Nat \ {0}
      BY DEF OtherTypes
    <3>2. TakeId(c) \/ UNCHANGED <<id, nextId>>
      BY <1>2 DEF Lock
    <3> QED BY <3>1, <3>2 DEF TakeId
  <2>2. ReaderTypes'
    BY <1>2 DEF Lock, Goto, ReaderTypes, PC
  <2> QED BY <1>2, <2>1, <2>2 DEF Lock, OtherTypes
<1>3. ASSUME NEW c \in Tasks, Write(c) PROVE ReaderTypes' /\ OtherTypes'
  <2>1. [id |-> id[c], kind |-> kind[c]] \in Requests
    BY DEF OtherTypes, Requests
  <2>2. stdin' \in Seq(Requests)
    <3>1. stdin \in Seq(Requests)
      BY DEF OtherTypes
    <3>2. \/ stdin' = stdin
          \/ stdin' = Append(stdin, [id |-> id[c], kind |-> kind[c]])
      BY <1>3 DEF Write
    <3> QED BY <2>1, <3>1, <3>2, AppendProperties
  <2>3. ReaderTypes'
    BY <1>3 DEF Write, Goto, Returns, Unlock, ReaderTypes, PC, Outcomes, IsStream
  <2> QED BY <1>3, <2>2, <2>3 DEF Write, OtherTypes
<1>4. ASSUME NEW c \in Tasks, Timeout(c) PROVE ReaderTypes' /\ OtherTypes'
  <2>1. ReaderTypes'
    BY <1>4 DEF Timeout, Returns, Goto, Unlock, ReaderTypes, PC, Outcomes
  <2> QED BY <1>4, <2>1 DEF Timeout, Leaves, OtherTypes
<1>5. ASSUME NEW c \in Tasks, Consume(c) PROVE ReaderTypes' /\ OtherTypes'
  <2>1. chan[c] \in Seq(Messages) /\ got[c] \in Seq(Messages)
    BY DEF ReaderTypes, OtherTypes
  <2>2. CASE chan[c] = <<>>
    BY <1>5, <2>2 DEF Consume, Returns, Goto, ReaderTypes, OtherTypes, PC, Outcomes
  <2>3. CASE chan[c] # <<>>
    <3>1. /\ Tail(chan[c]) \in Seq(Messages) /\ Head(chan[c]) \in Messages
          /\ Len(Tail(chan[c])) <= Len(chan[c])
          /\ Append(got[c], Head(chan[c])) \in Seq(Messages)
      BY <2>1, <2>3
    <3>2. chan' = [chan EXCEPT ![c] = Tail(chan[c])]
      BY <1>5, <2>3 DEF Consume
    <3>3. Len(Tail(chan[c])) <= Capacity
      <4>1. Len(chan[c]) <= Capacity /\ Len(chan[c]) \in Nat /\ Len(Tail(chan[c])) \in Nat
        BY <2>1, <3>1 DEF ReaderTypes
      <4> QED BY <4>1, <3>1, BoundsAssumption
    <3>4. got' \in [Tasks -> Seq(Messages)]
      BY <1>5, <2>3, <3>1 DEF Consume, OtherTypes
    <3>5. chan' \in [Tasks -> Seq(Messages)] /\ \A d \in Tasks : Len(chan'[d]) <= Capacity
      BY <3>1, <3>2, <3>3 DEF ReaderTypes
    <3> QED BY <1>5, <2>3, <3>4, <3>5
           DEF Consume, Returns, Goto, Stays, ReaderTypes, OtherTypes, PC, Outcomes
  <2> QED BY <2>2, <2>3
<1>6. ASSUME NEW c \in Tasks, Drop(c) PROVE ReaderTypes' /\ OtherTypes'
  <2>1. <<>> \in Seq(Messages) /\ Len(<<>>) <= Capacity
    BY BoundsAssumption
  <2> QED BY <1>6, <2>1 DEF Drop, Returns, Goto, ReaderTypes, OtherTypes, PC, Outcomes
<1>7. ASSUME NEW c \in Tasks, Kill(c) PROVE ReaderTypes' /\ OtherTypes'
  BY <1>7, IdleType DEF Kill, Returns, Goto, ReaderTypes, OtherTypes, PC, Outcomes
<1>8. ASSUME NEW c \in Tasks, ReadHeader(c) PROVE ReaderTypes' /\ OtherTypes'
  BY <1>8 DEF ReadHeader, ReaderTypes, OtherTypes
<1>9. ASSUME NEW c \in Tasks, ReadOrphan(c) PROVE ReaderTypes' /\ OtherTypes'
  <2>1. ReaderTypes'
    BY <1>9, FailTypes DEF ReadOrphan, OtherTypes
  <2>2. stdout' \in Seq(Messages) /\ stdout' # <<>>
    <3>1. stdout \in Seq(Messages) /\ Len(stdout) >= 2 /\ stdout' = Tail(stdout)
      BY <1>9 DEF ReadOrphan, OtherTypes
    <3>2. Tail(stdout) \in Seq(Messages) /\ Len(Tail(stdout)) = Len(stdout) - 1
      BY <3>1
    <3> QED BY <3>1, <3>2
  <2> QED BY <1>9, <2>1, <2>2 DEF ReadOrphan, OtherTypes
<1>10. ASSUME NEW c \in Tasks, ReadEnd(c) PROVE ReaderTypes' /\ OtherTypes'
  <2>1. ReaderTypes'
    BY <1>10, FailTypes DEF ReadEnd, OtherTypes
  <2> QED BY <1>10, <2>1 DEF ReadEnd, OtherTypes
<1>11. ASSUME NEW c \in Tasks, ReadBody(c) PROVE ReaderTypes' /\ OtherTypes'
  <2>1. stdout # <<>> /\ Head(stdout) \in Messages /\ Tail(stdout) \in Seq(Messages)
    BY <1>11 DEF ReadBody, OtherTypes
  <2>2. id[c] \in Nat
    BY DEF OtherTypes
  <2>3. ReaderTypes' /\ got' \in [Tasks -> Seq(Messages)]
    <3>1. CASE pc[c] = "read"
      BY <1>11, <2>1, <2>2, <3>1, CallReadsTypes DEF ReadBody, OtherTypes
    <3>2. CASE pc[c] # "read"
      BY <1>11, <2>1, <2>2, <3>2, StreamReadsTypes DEF ReadBody, OtherTypes
    <3> QED BY <3>1, <3>2
  <2> QED BY <1>11, <2>1, <2>3 DEF ReadBody, OtherTypes
<1>12. ASSUME HostTakes PROVE ReaderTypes' /\ OtherTypes'
  <2>1. Head(stdin) \in Requests /\ Tail(stdin) \in Seq(Requests)
    <3>1. stdin \in Seq(Requests) /\ stdin # <<>>
      BY <1>12 DEF HostTakes, OtherTypes
    <3> QED BY <3>1, HeadTailProperties
  <2>2. host' = [id |-> Head(stdin).id, kind |-> Head(stdin).kind, n |-> 0, started |-> FALSE]
    BY <1>12 DEF HostTakes, Idle
  <2> QED BY <1>12, <2>1, <2>2, ZeroChunks DEF HostTakes, ReaderTypes, OtherTypes, Requests
<1>13. ASSUME NEW m \in Messages, Says(m) PROVE stdout' \in Seq(Messages) /\ stdout' # <<>>
  <2>1. stdout \in Seq(Messages)
    BY DEF OtherTypes
  <2> QED BY <1>13, <2>1 DEF Says
<1>14. ASSUME HostAnswers PROVE ReaderTypes' /\ OtherTypes'
  <2>1. host.id \in Nat
    BY DEF OtherTypes
  <2>2. /\ Frame("result", host.id, 0) \in Messages
        /\ Frame("error", host.id, 0) \in Messages
    BY <2>1, FrameType, ZeroChunks DEF What
  <2>3. stdout' \in Seq(Messages) /\ stdout' # <<>>
    BY <1>13, <1>14, <2>2 DEF HostAnswers
  <2> QED BY <1>14, <2>3, IdleType DEF HostAnswers, ReaderTypes, OtherTypes
<1>15. ASSUME HostStarts PROVE ReaderTypes' /\ OtherTypes'
  <2>1. host.id \in Nat
    BY DEF OtherTypes
  <2>2. Frame("result", host.id, 0) \in Messages
    BY <2>1, FrameType, ZeroChunks DEF What
  <2>3. stdout' \in Seq(Messages) /\ stdout' # <<>>
    BY <1>13, <1>15, <2>2 DEF HostStarts
  <2> QED BY <1>15, <2>3 DEF HostStarts, ReaderTypes, OtherTypes
<1>16. ASSUME HostSendsChunk PROVE ReaderTypes' /\ OtherTypes'
  <2>1. host.id \in Nat /\ host.n + 1 \in 0..MaxChunks
    BY <1>16, BoundsAssumption DEF HostSendsChunk, OtherTypes
  <2>2. Frame("chunk", host.id, host.n + 1) \in Messages
    BY <2>1, FrameType DEF What
  <2>3. stdout' \in Seq(Messages) /\ stdout' # <<>>
    BY <1>13, <1>16, <2>2 DEF HostSendsChunk
  <2> QED BY <1>16, <2>1, <2>3 DEF HostSendsChunk, ReaderTypes, OtherTypes
<1>17. ASSUME HostEnds PROVE ReaderTypes' /\ OtherTypes'
  <2>1. host.id \in Nat
    BY DEF OtherTypes
  <2>2. /\ Frame("end", host.id, 0) \in Messages
        /\ Frame("failed", host.id, 0) \in Messages
    BY <2>1, FrameType, ZeroChunks DEF What
  <2>3. stdout' \in Seq(Messages) /\ stdout' # <<>>
    <3>1. CASE Says(Frame("end", host.id, 0))
      BY <1>13, <2>2, <3>1
    <3>2. CASE stdout' = stdout \o <<Frame("failed", host.id, 0), Frame("end", host.id, 0)>>
      BY <2>2, <3>2 DEF OtherTypes
    <3> QED BY <1>17, <3>1, <3>2 DEF HostEnds
  <2>4. DOMAIN sent' \subseteq Nat
    BY <1>17, <2>1 DEF HostEnds, OtherTypes
  <2> QED BY <1>17, <2>3, <2>4, IdleType DEF HostEnds, ReaderTypes, OtherTypes
<1>18. ASSUME HostDies PROVE ReaderTypes' /\ OtherTypes'
  BY <1>18, IdleType DEF HostDies, ReaderTypes, OtherTypes
<1>19. CASE UNCHANGED vars
  BY <1>19 DEF vars, ReaderTypes, OtherTypes
<1> QED
  BY <1>1, <1>2, <1>3, <1>4, <1>5, <1>6, <1>7, <1>8, <1>9, <1>10, <1>11, <1>12,
     <1>14, <1>15, <1>16, <1>17, <1>18, <1>19
     DEF Next, Step, Reading, HostStep

\* Every call, every exchange and every frame keeps the declared types; a
\* channel never holds more than its capacity.
THEOREM TypeCorrect == Spec => []TypeOK
BY InitTypes, NextTypes, PTL DEF Spec

-----------------------------------------------------------------------------
(* The lock *)

\* The holder lets the lock go when it neither writes nor reads any more.
LEMMA ReleaseOwner ==
    ASSUME TypeOK, Owner, NEW c \in Tasks, Unlock(c),
           pc' \in [Tasks -> PC], reader' \in [Tasks -> BOOLEAN],
           \A d \in Tasks \ {c} : pc'[d] = pc[d] /\ reader'[d] = reader[d],
           ~reader'[c], pc'[c] \notin {"write", "read"},
           rpc = c
    PROVE  Owner'
<1>1. \A d \in Tasks \ {c} : ~reader[d] /\ pc[d] \notin {"write", "read"}
  BY DEF Owner
<1> QED BY <1>1 DEF Owner

\* Only the holder's own phase changes when its reader fails or gets a frame.
LEMMA FailOwner ==
    ASSUME TypeOK, Owner, NEW c \in Tasks, Reads(c), NEW how, Fail(c, how)
    PROVE  Owner'
<1>1. rpc = c /\ (reader[c] => pc[c] \in {"start", "stream", "done"})
  BY DEF Owner, Reads
<1>2. CASE pc[c] = "read"
  <2>1. Unlock(c) /\ UNCHANGED reader /\ pc' = [pc EXCEPT ![c] = "done"]
    BY <1>2 DEF Fail, Returns, Goto
  <2> QED BY <1>1, <1>2, <2>1, ReleaseOwner DEF TypeOK, PC
<1>3. CASE pc[c] # "read"
  <2>1. Unlock(c) /\ reader' = [reader EXCEPT ![c] = FALSE]
    BY <1>3 DEF Fail, EndReader
  <2>2. \/ pc' = [pc EXCEPT ![c] = "done"]
        \/ pc[c] # "start" /\ pc' = pc
    BY <1>3 DEF Fail, Returns, Goto, Stays
  <2>3. reader[c]
    BY <1>3 DEF Reads
  <2> QED BY <1>1, <2>1, <2>2, <2>3, ReleaseOwner DEF TypeOK, PC
<1> QED BY <1>2, <1>3

LEMMA CallReadsOwner ==
    ASSUME TypeOK, Owner, NEW c \in Tasks, pc[c] = "read", NEW m, CallReads(c, m)
    PROVE  Owner'
<1>1. CASE IsAnswer(m) /\ m.id = id[c] /\ m.what = "error"
  BY <1>1, FailOwner DEF CallReads, Reads
<1>2. CASE IsAnswer(m) /\ m.id = id[c] /\ m.what # "error"
  <2>1. rpc = c /\ ~reader[c]
    BY DEF Owner
  <2>2. pc' = [pc EXCEPT ![c] = "kill"] \/ pc' = [pc EXCEPT ![c] = "done"]
    BY <1>2 DEF CallReads, Returns, Goto
  <2>3. Unlock(c) /\ UNCHANGED reader
    BY <1>2 DEF CallReads
  <2> QED BY ZenonT(60), <2>1, <2>2, <2>3, ReleaseOwner DEF TypeOK, PC
<1>3. CASE ~(IsAnswer(m) /\ m.id = id[c])
  BY <1>3 DEF CallReads, Owner, Stays
<1> QED BY <1>1, <1>2, <1>3

LEMMA StreamReadsOwner ==
    ASSUME TypeOK, Owner, NEW c \in Tasks, reader[c], NEW m, StreamReads(c, m)
    PROVE  Owner'
<1>1. CASE Stays /\ UNCHANGED <<rpc, reader>>
  BY <1>1 DEF Owner, Stays
<1>2. CASE /\ IF pc[c] = "start" THEN Goto(c, "stream") ELSE UNCHANGED pc
           /\ UNCHANGED <<outcome, rpc, reader, chan>>
  BY <1>2 DEF TypeOK, Owner, Goto, PC
<1>3. CASE Fail(c, "failed")
  BY <1>3, FailOwner DEF Reads
<1>4. CASE EndReader(c) /\ Stays
  BY <1>4, NoTaskAssumption DEF TypeOK, Owner, EndReader, Unlock, Stays, PC
<1>5. CASE OnEnd(c)
  BY <1>5, NoTaskAssumption
     DEF TypeOK, OnEnd, Owner, EndReader, Unlock, Returns, Goto, Stays, PC
<1> QED BY <1>1, <1>2, <1>3, <1>4, <1>5 DEF StreamReads

\* A step keeps the lock with whoever reads.
LEMMA NextOwner == TypeOK /\ Owner /\ [Next]_vars => Owner'
<1> SUFFICES ASSUME TypeOK, Owner, [Next]_vars PROVE Owner'
  OBVIOUS
<1> USE NoTaskAssumption DEF callerVars, hostVars, hostOnly
<1>1. ASSUME NEW c \in Tasks, Enter(c) PROVE Owner'
  BY <1>1 DEF Enter, Goto, TypeOK, Owner, PC
<1>2. ASSUME NEW c \in Tasks, Lock(c) PROVE Owner'
  BY <1>2 DEF Lock, Goto, TypeOK, Owner, PC
<1>3. ASSUME NEW c \in Tasks, Write(c) PROVE Owner'
  <2>1. rpc = c /\ pc[c] = "write" /\ ~reader[c]
    BY <1>3 DEF Write, Owner
  <2>2. CASE alive
    <3>1. /\ pc' = [pc EXCEPT ![c] = IF IsStream(c) THEN "start" ELSE "read"]
          /\ reader' = [reader EXCEPT ![c] = IsStream(c)]
          /\ UNCHANGED rpc
      BY <1>3, <2>2 DEF Write, Goto
    <3>2. CASE IsStream(c)
      BY <2>1, <3>1, <3>2 DEF TypeOK, Owner
    <3>3. CASE ~IsStream(c)
      BY <2>1, <3>1, <3>3 DEF TypeOK, Owner
    <3> QED BY <3>2, <3>3
  <2>3. CASE ~alive
    <3>1. Unlock(c) /\ UNCHANGED reader /\ pc' = [pc EXCEPT ![c] = "done"]
      BY <1>3, <2>3 DEF Write, Returns, Goto
    <3> QED BY <2>1, <3>1, ReleaseOwner DEF TypeOK, PC
  <2> QED BY <2>2, <2>3
<1>4. ASSUME NEW c \in Tasks, Timeout(c) PROVE Owner'
  BY <1>4 DEF Timeout, Returns, Goto, Unlock, TypeOK, Owner, PC
<1>5. ASSUME NEW c \in Tasks, Consume(c) PROVE Owner'
  BY ZenonT(60), <1>5 DEF Consume, Returns, Goto, Stays, TypeOK, Owner, PC
<1>6. ASSUME NEW c \in Tasks, Drop(c) PROVE Owner'
  BY <1>6 DEF Drop, Returns, Goto, TypeOK, Owner, PC
<1>7. ASSUME NEW c \in Tasks, Kill(c) PROVE Owner'
  BY <1>7 DEF Kill, Returns, Goto, TypeOK, Owner, PC
<1>8. ASSUME NEW c \in Tasks, ReadHeader(c) PROVE Owner'
  BY <1>8 DEF ReadHeader, Owner
<1>9. ASSUME NEW c \in Tasks, ReadOrphan(c) PROVE Owner'
  BY <1>9, FailOwner DEF ReadOrphan
<1>10. ASSUME NEW c \in Tasks, ReadEnd(c) PROVE Owner'
  BY <1>10, FailOwner DEF ReadEnd
<1>11. ASSUME NEW c \in Tasks, ReadBody(c) PROVE Owner'
  BY <1>11, CallReadsOwner, StreamReadsOwner DEF ReadBody, Reads
<1>12. CASE UNCHANGED <<pc, rpc, reader>>
  BY <1>12 DEF Owner
<1>13. ASSUME HostStep \/ HostDies PROVE UNCHANGED <<pc, rpc, reader>>
  BY <1>13 DEF HostStep, HostTakes, HostAnswers, HostStarts, HostSendsChunk, HostEnds, HostDies
<1> QED
  BY <1>1, <1>2, <1>3, <1>4, <1>5, <1>6, <1>7, <1>8, <1>9, <1>10, <1>11, <1>12, <1>13
     DEF Next, Step, Reading, vars

\* Frames have one reader at a time, also after the caller of a stream gave
\* up: the guard went with the task that reads.
THEOREM OneReader == Spec => []ReadersHoldTheLock
<1>1. Init => Owner
  BY DEF Init, Owner
<1>2. Owner => ReadersHoldTheLock
  BY DEF Owner, ReadersHoldTheLock, Reads
<1> QED BY <1>1, <1>2, NextOwner, TypeCorrect, PTL DEF Spec

-----------------------------------------------------------------------------
(* What comes back *)

\* What a reader puts into a channel carries the id of its stream.
LEMMA SendOwn ==
    ASSUME TypeOK, Own, NEW c \in Tasks, NEW m \in Messages, m.id = id[c], SendChunk(c, m)
    PROVE  /\ \A d \in Tasks : \A k \in 1..Len(chan'[d]) : chan'[d][k].id = id[d]
           /\ \A d \in Tasks : pc[d] # "stream" => chan'[d] = chan[d]
<1>1. CASE pc[c] # "stream"
  BY <1>1 DEF SendChunk, Own
<1>2. CASE pc[c] = "stream"
  <2>1. chan \in [Tasks -> Seq(Messages)] /\ chan' = [chan EXCEPT ![c] = Append(chan[c], m)]
    BY <1>2 DEF SendChunk, TypeOK
  <2>2. \A k \in 1..Len(Append(chan[c], m)) : Append(chan[c], m)[k].id = id[c]
    <3>1. \A k \in 1..Len(chan[c]) : chan[c][k].id = id[c]
      BY DEF Own
    <3> QED BY <2>1, <3>1, AppendProperties
  <2> QED BY <1>2, <2>1, <2>2 DEF Own
<1> QED BY <1>1, <1>2

LEMMA FailOwn ==
    ASSUME TypeOK, Own, Owner, NEW c \in Tasks, Reads(c), NEW how, Fail(c, how),
           UNCHANGED <<got, id>>
    PROVE  Own'
<1>1. Frame("failed", id[c], 0) \in Messages /\ Frame("failed", id[c], 0).id = id[c]
  BY FrameType, ZeroChunks DEF What, TypeOK, Frame
<1>2. \A d \in Tasks : pc'[d] \in {"idle", "lock"} => pc[d] = pc'[d]
  BY DEF Fail, Returns, Goto, Stays, TypeOK, PC
<1>3. CASE pc[c] = "read"
  BY <1>2, <1>3 DEF Fail, Own, OwnAnswers
<1>4. CASE pc[c] # "read"
  <2>1. /\ \A d \in Tasks : \A k \in 1..Len(chan'[d]) : chan'[d][k].id = id[d]
        /\ \A d \in Tasks : pc[d] # "stream" => chan'[d] = chan[d]
    BY <1>1, <1>4, SendOwn DEF Fail
  <2> QED BY <1>2, <2>1 DEF Own, OwnAnswers
<1> QED BY <1>3, <1>4

LEMMA CallReadsOwn ==
    ASSUME TypeOK, Own, Owner, NEW c \in Tasks, pc[c] = "read", NEW m \in Messages,
           CallReads(c, m), UNCHANGED id
    PROVE  Own'
<1>1. CASE IsAnswer(m) /\ m.id = id[c] /\ m.what = "error"
  BY <1>1, FailOwn DEF CallReads, Reads
<1>2. CASE IsAnswer(m) /\ m.id = id[c] /\ m.what # "error"
  <2>1. \A d \in Tasks : pc'[d] \in {"idle", "lock"} => pc[d] = pc'[d] /\ d # c
    BY <1>2 DEF CallReads, Returns, Goto, TypeOK, PC
  <2>2. got' = [got EXCEPT ![c] = <<m>>] /\ UNCHANGED chan
    BY <1>2 DEF CallReads
  <2>3. \A k \in 1..Len(<<m>>) : <<m>>[k].id = id[c]
    BY <1>2
  <2>4. got \in [Tasks -> Seq(Messages)]
    BY DEF TypeOK
  <2> QED BY <2>1, <2>2, <2>3, <2>4 DEF Own, OwnAnswers
<1>3. CASE ~(IsAnswer(m) /\ m.id = id[c])
  BY <1>3 DEF CallReads, Own, OwnAnswers, Stays
<1> QED BY <1>1, <1>2, <1>3

LEMMA StreamReadsOwn ==
    ASSUME TypeOK, Own, Owner, NEW c \in Tasks, reader[c], NEW m \in Messages,
           StreamReads(c, m), UNCHANGED id
    PROVE  Own'
<1>0. UNCHANGED got
  BY DEF StreamReads
<1>1. CASE Stays /\ UNCHANGED chan
  BY <1>0, <1>1 DEF Own, OwnAnswers, Stays
<1>2. CASE /\ IF pc[c] = "start" THEN Goto(c, "stream") ELSE UNCHANGED pc
           /\ UNCHANGED <<outcome, rpc, reader, chan>>
  <2>1. \A d \in Tasks : pc'[d] \in {"idle", "lock"} => pc[d] = pc'[d]
    BY <1>2 DEF Goto, TypeOK, PC
  <2> QED BY <1>0, <1>2, <2>1 DEF Own, OwnAnswers
<1>3. CASE Fail(c, "failed")
  BY <1>0, <1>3, FailOwn DEF Reads
<1>4. CASE m.id = id[c] /\ SendChunk(c, m) /\ Stays
  BY <1>0, <1>4, SendOwn DEF Own, OwnAnswers, Stays
<1>5. CASE OnEnd(c)
  <2>1. \A d \in Tasks : pc'[d] \in {"idle", "lock"} => pc[d] = pc'[d]
    BY <1>5 DEF OnEnd, Returns, Goto, Stays, TypeOK, PC
  <2> QED BY <1>0, <1>5, <2>1 DEF OnEnd, Own, OwnAnswers
<1> QED BY <1>1, <1>2, <1>3, <1>4, <1>5 DEF StreamReads

\* A step gives nobody what is not its own.
LEMMA NextOwn == TypeOK /\ Owner /\ Own /\ [Next]_vars => Own'
<1> SUFFICES ASSUME TypeOK, Owner, Own, [Next]_vars PROVE Own'
  OBVIOUS
<1> USE DEF callerVars, hostVars, hostOnly
<1>1. ASSUME NEW c \in Tasks, Enter(c) \/ Lock(c) PROVE Own'
  <2>1. pc[c] \in {"idle", "lock"} /\ got[c] = <<>> /\ chan[c] = <<>> /\ UNCHANGED <<got, chan>>
    BY <1>1 DEF Enter, Lock, Own
  <2>2. \A d \in Tasks \ {c} : id'[d] = id[d]
    BY <1>1 DEF Enter, Lock, TakeId, TypeOK
  <2>3. \A d \in Tasks \ {c} : pc'[d] = pc[d]
    BY <1>1 DEF Enter, Lock, Goto, TypeOK
  <2> QED BY <2>1, <2>2, <2>3 DEF Own, OwnAnswers
<1>2. ASSUME NEW c \in Tasks, Write(c) \/ Timeout(c) \/ Kill(c) \/ ReadHeader(c)
      PROVE Own'
  <2>1. \A d \in Tasks : pc'[d] \in {"idle", "lock"} => pc[d] = pc'[d]
    BY <1>2 DEF Write, Timeout, Kill, ReadHeader, Returns, Goto, TypeOK, PC
  <2>2. UNCHANGED <<got, chan, id>>
    BY <1>2 DEF Write, Timeout, Kill, ReadHeader
  <2> QED BY <2>1, <2>2 DEF Own, OwnAnswers
<1>3. ASSUME NEW c \in Tasks, Consume(c) PROVE Own'
  <2>1. \A d \in Tasks : pc'[d] \in {"idle", "lock"} => pc[d] = pc'[d] /\ d # c
    BY <1>3 DEF Consume, Returns, Goto, Stays, TypeOK, PC
  <2>2. chan[c] \in Seq(Messages) /\ got[c] \in Seq(Messages)
    BY DEF TypeOK
  <2>3. CASE chan[c] = <<>>
    BY <1>3, <2>1, <2>3 DEF Consume, Own, OwnAnswers
  <2>4. CASE chan[c] # <<>>
    <3>1. chan' = [chan EXCEPT ![c] = Tail(chan[c])] /\ UNCHANGED id
      BY <1>3, <2>4 DEF Consume
    <3>2. got' = [got EXCEPT ![c] = Append(got[c], Head(chan[c]))] \/ UNCHANGED got
      BY <1>3, <2>4 DEF Consume
    <3>3. Head(chan[c]) \in Messages /\ Head(chan[c]).id = id[c]
      <4>1. Head(chan[c]) = chan[c][1] /\ 1 \in 1..Len(chan[c]) /\ Head(chan[c]) \in Messages
        BY <2>2, <2>4
      <4> QED BY <4>1 DEF Own
    <3>4. \A k \in 1..Len(Tail(chan[c])) : Tail(chan[c])[k].id = id[c]
      <4>1. \A k \in 1..Len(Tail(chan[c])) :
                k + 1 \in 1..Len(chan[c]) /\ Tail(chan[c])[k] = chan[c][k + 1]
        BY <2>2, <2>4
      <4> QED BY <4>1 DEF Own
    <3>5. \A k \in 1..Len(Append(got[c], Head(chan[c]))) :
              Append(got[c], Head(chan[c]))[k].id = id[c]
      <4>1. \A k \in 1..Len(got[c]) : got[c][k].id = id[c]
        BY DEF Own, OwnAnswers
      <4> QED BY <2>2, <3>3, <4>1, AppendProperties
    <3>6. /\ chan \in [Tasks -> Seq(Messages)]
          /\ got \in [Tasks -> Seq(Messages)]
      BY DEF TypeOK
    <3> QED BY ZenonT(60), <2>1, <3>1, <3>2, <3>4, <3>5, <3>6 DEF Own, OwnAnswers
  <2> QED BY <2>3, <2>4
<1>4. ASSUME NEW c \in Tasks, Drop(c) PROVE Own'
  <2>1. \A d \in Tasks : pc'[d] \in {"idle", "lock"} => pc[d] = pc'[d] /\ d # c
    BY <1>4 DEF Drop, Returns, Goto, TypeOK, PC
  <2>2. chan' = [chan EXCEPT ![c] = <<>>] /\ chan \in [Tasks -> Seq(Messages)]
    BY <1>4 DEF Drop, TypeOK
  <2> QED BY SMTT(60), <1>4, <2>1, <2>2 DEF Drop, Own, OwnAnswers
<1>5. ASSUME NEW c \in Tasks, ReadOrphan(c) \/ ReadEnd(c) PROVE Own'
  <2>1. /\ Reads(c) /\ UNCHANGED <<got, id>>
        /\ Fail(c, "protocol") \/ Fail(c, "notRunning")
    BY <1>5 DEF ReadOrphan, ReadEnd
  <2> QED BY <2>1, FailOwn
<1>6. ASSUME NEW c \in Tasks, ReadBody(c) PROVE Own'
  <2>1. Head(stdout) \in Messages
    <3>1. stdout \in Seq(Messages) /\ stdout # <<>>
      BY <1>6 DEF ReadBody, TypeOK
    <3> QED BY <3>1
  <2> QED BY <1>6, <2>1, CallReadsOwn, StreamReadsOwn DEF ReadBody, Reads
<1>7. CASE UNCHANGED <<pc, id, got, chan>>
  BY <1>7 DEF Own, OwnAnswers
<1>8. ASSUME HostStep \/ HostDies PROVE UNCHANGED <<pc, id, got, chan>>
  BY <1>8 DEF HostStep, HostTakes, HostAnswers, HostStarts, HostSendsChunk, HostEnds, HostDies
<1> QED
  BY <1>1, <1>2, <1>3, <1>4, <1>5, <1>6, <1>7, <1>8 DEF Next, Step, Reading, vars

\* A late answer, or the rest of a stream nobody listens to, never reaches the
\* call of somebody else.
THEOREM NoForeignAnswers == Spec => []OwnAnswers
<1>1. Init => Owner /\ Own
  BY DEF Init, Owner, Own, OwnAnswers
<1>2. Own => OwnAnswers
  BY DEF Own
<1> QED BY <1>1, <1>2, NextOwner, NextOwn, TypeCorrect, PTL DEF Spec

-----------------------------------------------------------------------------
(* Complete streams: the way of a request and of its frames *)

\* A request is in stdin, then at the host, then answered: nobody has its id
\* before, and no id is in two places.
Ids ==
    /\ \A c \in Tasks : id[c] < nextId
    /\ \A c, d \in Tasks : c # d /\ id[c] # 0 => id[c] # id[d]
    /\ \A k \in 1..Len(stdin) : stdin[k].id \in 1..nextId - 1
    /\ \A k \in 1..Len(stdout) : stdout[k].id \in 1..nextId - 1
    /\ host.id < nextId /\ (host # Idle => host.id # 0)
    /\ DOMAIN sent \subseteq 1..nextId - 1
    /\ \A c \in Tasks :
          id[c] = 0 <=> pc[c] = "idle" \/ (pc[c] = "lock" /\ ~IsStream(c))

\* The id of a request that is not written yet is nowhere.
Unused(i) ==
    /\ \A k \in 1..Len(stdin) : stdin[k].id # i
    /\ \A k \in 1..Len(stdout) : stdout[k].id # i
    /\ host.id # i
    /\ i \notin DOMAIN sent

Places ==
    /\ \A c \in Tasks : pc[c] \in {"lock", "write"} /\ id[c] # 0 => Unused(id[c])
    /\ \A k \in 1..Len(stdin) :
          /\ stdin[k].id # host.id /\ stdin[k].id \notin DOMAIN sent
          /\ \A j \in 1..Len(stdin) : j # k => stdin[j].id # stdin[k].id
          /\ \A j \in 1..Len(stdout) : stdout[j].id # stdin[k].id
    /\ host.id \notin DOMAIN sent
    /\ ~host.started => host.n = 0 /\ \A k \in 1..Len(stdout) : stdout[k].id # host.id

\* The frames of a stream in stdout: chunks in ascending order, none beyond
\* what the host has sent, and none behind the end.
Frames ==
    /\ \A i \in DOMAIN sent : sent[i] \in Nat
    /\ \A j, k \in 1..Len(stdout) :
          j < k /\ stdout[j].id = stdout[k].id /\ stdout[k].what = "chunk" =>
              /\ stdout[j].what # "end"
              /\ stdout[j].what = "chunk" => stdout[j].n < stdout[k].n
    /\ \A k \in 1..Len(stdout) :
          /\ stdout[k].what = "end" => stdout[k].id \in DOMAIN sent
          /\ stdout[k].what = "chunk" =>
                /\ stdout[k].id = host.id => stdout[k].n <= host.n
                /\ stdout[k].id \in DOMAIN sent => stdout[k].n <= sent[stdout[k].id]

Pipe == Ids /\ Places /\ Frames

\* What the task of a stream has passed on.
Passed(c) == Len(got[c]) + Len(chan[c])

\* The task of a stream reads on, for somebody.
Listening(c) == reader[c] /\ pc[c] \in {"start", "stream"}

InStdout(i, m) ==
    \E k \in 1..Len(stdout) : stdout[k].what = "chunk" /\ stdout[k].id = i /\ stdout[k].n = m

\* Up to total chunks of the stream of c, those that were not passed on are in
\* stdout.
Due(c, total) ==
    /\ Passed(c) <= total
    /\ \A m \in Passed(c) + 1..total : InStdout(id[c], m)

Pending(c) ==
    /\ \A k \in 1..Len(stdout) :
          stdout[k].what = "chunk" /\ stdout[k].id = id[c] =>
              stdout[k].n > Passed(c) /\ Due(c, stdout[k].n)
    /\ host.id = id[c] => Due(c, host.n)
    /\ id[c] \in DOMAIN sent => Due(c, sent[id[c]])
    /\ \A k \in 1..Len(stdin) : stdin[k].id = id[c] => Passed(c) = 0

\* What came through: chunks without a gap, and behind them perhaps the
\* failure the task of the stream ended with.
Failed(c) == Len(chan[c]) > 0 /\ chan[c][Len(chan[c])].what = "failed"

Through(c) ==
    /\ pc[c] # "read"
    /\ pc[c] \in {"idle", "lock", "write", "start"} => Passed(c) = 0
    /\ \A k \in 1..Len(got[c]) : got[c][k].n = k
    /\ \A k \in 1..Len(chan[c]) :
          IF k = Len(chan[c]) /\ Failed(c) THEN ~reader[c]
          ELSE chan[c][k].what = "chunk" /\ chan[c][k].n = Len(got[c]) + k
    /\ outcome[c] = "ok" =>
          pc[c] = "done" /\ id[c] \in DOMAIN sent /\ Len(got[c]) = sent[id[c]]
    /\ pc[c] = "stream" /\ ~reader[c] /\ ~Failed(c) =>
          id[c] \in DOMAIN sent /\ Passed(c) = sent[id[c]]

\* Nothing of a stream is missing: it is in stdout or came through.
Kept(c) ==
    /\ pc[c] = "kill" => kind[c] = "shutdown"
    /\ Listening(c) => Pending(c)
    /\ IsStream(c) => Through(c)

Whole == \A c \in Tasks : Kept(c)
StreamIInv == Pipe /\ Whole

\* A call that has not written its request yet.
Early == {"idle", "lock", "write"}

Receives(c) == Timeout(c) \/ Consume(c) \/ Drop(c) \/ Kill(c) \/ Reading(c)

\* What a task does after its request is written takes it on, puts nothing
\* into the pipe, and takes at most the first frame, or all, out of stdout.
LEMMA FailMoves ==
    ASSUME TypeOK, NEW c \in Tasks, NEW how, Fail(c, how)
    PROVE  pc' = [pc EXCEPT ![c] = "done"] \/ pc' = pc
BY DEF Fail, Returns, Goto, Stays

LEMMA ReceivingMoves ==
    ASSUME TypeOK, Owner, NEW c \in Tasks, Receives(c)
    PROVE  /\ pc[c] \notin Early
           /\ \/ pc' = pc
              \/ \E x \in {"stream", "kill", "done"} : pc' = [pc EXCEPT ![c] = x]
<1> USE DEF Early
<1>1. CASE Timeout(c) \/ Consume(c) \/ Drop(c) \/ Kill(c)
  BY <1>1 DEF Timeout, Consume, Drop, Kill, Returns, Goto, Stays
<1>2. ASSUME Reads(c) PROVE pc[c] \notin Early
  BY <1>2 DEF Reads, Owner
<1>3. CASE ReadHeader(c)
  BY <1>2, <1>3 DEF ReadHeader
<1>4. CASE ReadOrphan(c) \/ ReadEnd(c)
  BY <1>2, <1>4, FailMoves DEF ReadOrphan, ReadEnd
<1>5. CASE ReadBody(c)
  <2> DEFINE m == Head(stdout)
  <2>1. CASE CallReads(c, m)
    <3>1. CASE Fail(c, "failed")
      BY <1>2, <1>5, <3>1, FailMoves DEF ReadBody
    <3>2. CASE ~Fail(c, "failed")
      BY <1>2, <1>5, <2>1, <3>2 DEF ReadBody, CallReads, Returns, Goto, Stays
    <3> QED BY <3>1, <3>2
  <2>2. CASE StreamReads(c, m)
    <3>1. CASE Fail(c, "failed")
      BY <1>2, <1>5, <3>1, FailMoves DEF ReadBody
    <3>2. CASE ~Fail(c, "failed")
      BY <1>2, <1>5, <2>2, <3>2 DEF ReadBody, StreamReads, OnEnd, Returns, Goto, Stays
    <3> QED BY <3>1, <3>2
  <2> QED BY <1>5, <2>1, <2>2 DEF ReadBody
<1> QED BY <1>1, <1>3, <1>4, <1>5 DEF Receives, Reading

LEMMA ReceivingTakes ==
    ASSUME TypeOK, NEW c \in Tasks, Receives(c)
    PROVE  /\ UNCHANGED <<kind, id, nextId, stdin, sent>>
           /\ host' = host \/ host' = Idle
           /\ stdout' = stdout \/ stdout' = Tail(stdout) \/ stdout' = <<>>
           /\ \E s \in {0, 1} : \A k \in 1..Len(stdout') :
                 k + s \in 1..Len(stdout) /\ stdout'[k] = stdout[k + s]
<1> USE DEF callerVars, hostVars
<1>1. /\ UNCHANGED <<kind, id, nextId, stdin, sent>>
      /\ host' = host \/ host' = Idle
      /\ stdout' = stdout \/ (stdout # <<>> /\ stdout' = Tail(stdout)) \/ stdout' = <<>>
  <2>1. CASE Timeout(c) \/ Consume(c) \/ Drop(c) \/ Kill(c)
    BY <2>1 DEF Timeout, Consume, Drop, Kill
  <2>2. CASE Reading(c)
    <3>1. front # "whole" => stdout # <<>>
      BY DEF TypeOK
    <3> QED BY <2>2, <3>1 DEF Reading, ReadHeader, ReadOrphan, ReadEnd, ReadBody
  <2> QED BY <2>1, <2>2 DEF Receives
<1>2. stdout \in Seq(Messages) /\ Len(stdout) \in Nat
  BY DEF TypeOK
<1>3. CASE stdout' = stdout
  <2>1. \A k \in 1..Len(stdout') : k + 0 \in 1..Len(stdout) /\ stdout'[k] = stdout[k + 0]
    BY <1>2, <1>3
  <2> QED BY <1>1, <2>1
<1>4. CASE stdout # <<>> /\ stdout' = Tail(stdout)
  <2>1. \A k \in 1..Len(stdout') : k + 1 \in 1..Len(stdout) /\ stdout'[k] = stdout[k + 1]
    BY <1>2, <1>4
  <2> QED BY <1>1, <2>1
<1>5. CASE stdout' = <<>>
  <2>1. \A k \in 1..Len(stdout') : k + 0 \in 1..Len(stdout) /\ stdout'[k] = stdout[k + 0]
    BY <1>5
  <2> QED BY <1>1, <2>1
<1> QED BY <1>1, <1>3, <1>4, <1>5

\* What the host says goes behind everything in stdout and names its request.
LEMMA HostSays ==
    ASSUME TypeOK, HostAnswers \/ HostStarts \/ HostSendsChunk \/ HostEnds
    PROVE  /\ UNCHANGED <<callerVars, pc, reader, chan, got, outcome, stdin>>
           /\ Len(stdout) \in Nat /\ Len(stdout') \in Nat /\ Len(stdout') > Len(stdout)
           /\ \A k \in 1..Len(stdout) : stdout'[k] = stdout[k]
           /\ \A k \in Len(stdout) + 1..Len(stdout') :
                 /\ stdout'[k].id = host.id
                 /\ stdout'[k].what = "chunk" => HostSendsChunk /\ stdout'[k].n = host.n + 1
                 /\ stdout'[k].what = "end" => HostEnds
           /\ HostSendsChunk => /\ Len(stdout') = Len(stdout) + 1
                               /\ stdout'[Len(stdout')].what = "chunk"
<1> USE DEF hostOnly
<1>0. stdout \in Seq(Messages) /\ Len(stdout) \in Nat /\ host.id \in Nat
  BY DEF TypeOK
<1>1. ASSUME NEW m, Says(m)
      PROVE  /\ Len(stdout') = Len(stdout) + 1
             /\ \A k \in 1..Len(stdout) : stdout'[k] = stdout[k]
             /\ stdout'[Len(stdout) + 1] = m
  BY <1>0, <1>1 DEF Says
<1>2. CASE HostAnswers
  <2>1. PICK what \in {"result", "error"} : Says(Frame(what, host.id, 0))
    BY <1>2 DEF HostAnswers
  <2>2. /\ Len(stdout') = Len(stdout) + 1
        /\ \A k \in 1..Len(stdout) : stdout'[k] = stdout[k]
        /\ stdout'[Len(stdout) + 1] = Frame(what, host.id, 0)
    BY <1>1, <2>1
  <2>3. ~HostSendsChunk
    BY <1>2 DEF HostAnswers, HostSendsChunk
  <2> QED BY <1>0, <1>2, <2>2, <2>3 DEF HostAnswers, Frame
<1>3. CASE HostStarts
  <2>1. /\ Len(stdout') = Len(stdout) + 1
        /\ \A k \in 1..Len(stdout) : stdout'[k] = stdout[k]
        /\ stdout'[Len(stdout) + 1] = Frame("result", host.id, 0)
    BY <1>1, <1>3 DEF HostStarts
  <2>2. ~HostSendsChunk
    BY <1>3 DEF HostStarts, HostSendsChunk
  <2> QED BY <1>0, <1>3, <2>1, <2>2 DEF HostStarts, Frame
<1>4. CASE HostSendsChunk
  <2>1. /\ Len(stdout') = Len(stdout) + 1
        /\ \A k \in 1..Len(stdout) : stdout'[k] = stdout[k]
        /\ stdout'[Len(stdout) + 1] = Frame("chunk", host.id, host.n + 1)
    BY <1>1, <1>4 DEF HostSendsChunk
  <2> QED BY <1>0, <1>4, <2>1 DEF HostSendsChunk, Frame
<1>5. CASE HostEnds
  <2>1. ~HostSendsChunk
    <3>1. HostEnds => host' = Idle /\ host # Idle /\ host'.id = 0
      BY DEF HostEnds, HostBusy, Idle
    <3>2. HostSendsChunk => host' = [host EXCEPT !.n = @ + 1] /\ host.n \in Nat
      BY DEF HostSendsChunk, TypeOK
    <3>3. host \in [id : Nat, kind : Kinds, n : 0..MaxChunks, started : BOOLEAN]
      BY DEF TypeOK
    <3> QED BY <1>5, <3>1, <3>2, <3>3 DEF HostSendsChunk, Idle
  <2>2. CASE Says(Frame("end", host.id, 0))
    BY <1>0, <1>1, <1>5, <2>1, <2>2 DEF HostEnds, Frame
  <2>3. CASE stdout' = stdout \o <<Frame("failed", host.id, 0), Frame("end", host.id, 0)>>
    BY <1>0, <1>5, <2>1, <2>3 DEF HostEnds, Frame
  <2> QED BY <1>5, <2>2, <2>3 DEF HostEnds
<1> QED BY <1>2, <1>3, <1>4, <1>5

LEMMA PipeStarts == Init => Pipe
BY DEF Init, Pipe, Ids, Places, Frames, Idle, Unused

\* Taking an id.
LEMMA EnterPipe ==
    ASSUME TypeOK, Pipe, NEW c \in Tasks, Enter(c) \/ Lock(c)
    PROVE  Pipe'
<1> USE DEF callerVars, hostVars, Pipe
<1>1. UNCHANGED <<kind, stdin, stdout, host, sent>>
  BY DEF Enter, Lock
<1>2. /\ id \in [Tasks -> Nat] /\ nextId \in Nat \ {0} /\ pc \in [Tasks -> PC]
      /\ host.id \in Nat
  BY DEF TypeOK
<1>3. \A d \in Tasks : d # c => pc'[d] = pc[d] /\ id'[d] = id[d]
  BY <1>2 DEF Enter, Lock, TakeId, Goto
<1>4. Frames'
  BY <1>1 DEF Frames
<1>5. CASE TakeId(c)
  <2>1. id'[c] = nextId /\ nextId' = nextId + 1
    BY <1>2, <1>5 DEF TakeId
  <2>2. Unused(nextId)
    BY <1>2 DEF Ids, Unused
  <2>3. pc'[c] \in {"lock", "write"} /\ (pc'[c] = "lock" => IsStream(c))
    BY <1>2, <1>5 DEF Enter, Lock, Goto, TakeId, IsStream
  <2>4. Ids'
    <3>1. \A d \in Tasks : id'[d] < nextId'
      BY <1>2, <1>3, <2>1 DEF Ids
    <3>2. \A d, e \in Tasks : d # e /\ id'[d] # 0 => id'[d] # id'[e]
      BY <1>2, <1>3, <2>1 DEF Ids
    <3>3. 1..nextId - 1 \subseteq 1..nextId' - 1 /\ host'.id < nextId'
          /\ (host' # Idle => host'.id # 0)
      BY <1>1, <1>2, <2>1 DEF Ids
    <3>4. \A d \in Tasks : id'[d] = 0 <=> pc'[d] = "idle" \/ (pc'[d] = "lock" /\ ~IsStream(d)')
      BY <1>1, <1>2, <1>3, <2>1, <2>3 DEF Ids, IsStream
    <3> QED BY <1>1, <3>1, <3>2, <3>3, <3>4 DEF Ids
  <2>5. \A d \in Tasks : pc'[d] \in {"lock", "write"} /\ id'[d] # 0 => Unused(id'[d])
    BY <1>3, <2>1, <2>2 DEF Places
  <2>6. Places'
    BY <1>1, <2>5 DEF Places, Unused
  <2> QED BY <1>4, <2>4, <2>6
<1>6. CASE UNCHANGED <<id, nextId>>
  <2>1. \/ ~IsStream(c) /\ pc[c] = "idle" /\ pc'[c] = "lock"
        \/ IsStream(c) /\ pc[c] = "lock" /\ pc'[c] = "write"
    <3>1. ~TakeId(c)
      BY <1>2, <1>6 DEF TakeId
    <3> QED BY <1>2, <3>1 DEF Enter, Lock, Goto
  <2>2. \A d \in Tasks : id'[d] = 0 <=> pc'[d] = "idle" \/ (pc'[d] = "lock" /\ ~IsStream(d)')
    BY <1>1, <1>3, <1>6, <2>1 DEF Ids, IsStream
  <2>3. Ids'
    BY <1>1, <1>6, <2>2 DEF Ids
  <2>4. \A d \in Tasks : pc'[d] \in {"lock", "write"} /\ id'[d] # 0 => Unused(id'[d])
    BY <1>3, <1>6, <2>1 DEF Places, Ids
  <2>5. Places'
    BY <1>1, <2>4 DEF Places, Unused
  <2> QED BY <1>4, <2>3, <2>5
<1> QED BY <1>5, <1>6 DEF Enter, Lock

\* The request goes into stdin.
LEMMA WritePipe ==
    ASSUME TypeOK, Pipe, NEW c \in Tasks, Write(c)
    PROVE  Pipe'
<1> USE DEF callerVars, hostVars, Pipe
<1>1. UNCHANGED <<kind, id, nextId, stdout, host, sent>> /\ pc[c] = "write"
  BY DEF Write
<1>2. /\ id \in [Tasks -> Nat] /\ nextId \in Nat \ {0} /\ pc \in [Tasks -> PC]
      /\ stdin \in Seq(Requests) /\ Len(stdin) \in Nat
  BY DEF TypeOK
<1>3. /\ \A d \in Tasks : d # c => pc'[d] = pc[d]
      /\ pc'[c] \notin {"idle", "lock", "write"}
  BY <1>2 DEF Write, Goto, Returns
<1>4. Frames'
  BY <1>1 DEF Frames
<1>5. id[c] # 0 /\ id[c] \in 1..nextId - 1 /\ Unused(id[c])
  BY <1>1, <1>2 DEF Ids, Places
<1>6. CASE stdin' = stdin
  <2>1. Ids'
    BY <1>1, <1>3, <1>6 DEF Ids, IsStream
  <2>2. Places'
    BY <1>1, <1>3, <1>6 DEF Places, Unused
  <2> QED BY <1>4, <2>1, <2>2
<1>7. CASE stdin' = Append(stdin, [id |-> id[c], kind |-> kind[c]])
  <2> DEFINE n == Len(stdin)
             r == [id |-> id[c], kind |-> kind[c]]
  <2>1. r \in Requests /\ r.id = id[c]
    BY DEF TypeOK, Requests
  <2>2. /\ Len(stdin') = n + 1 /\ stdin'[n + 1].id = id[c]
        /\ \A k \in 1..n : stdin'[k] = stdin[k]
    <3> HIDE DEF r
    <3> QED BY <1>2, <1>7, <2>1 DEF r
  <2>3. \A k \in 1..n + 1 : k \in 1..n \/ k = n + 1
    BY <1>2
  <2>4. Ids'
    BY <1>1, <1>3, <1>5, <2>2, <2>3 DEF Ids, IsStream
  <2>5. \A d \in Tasks : pc'[d] \in {"lock", "write"} /\ id'[d] # 0 => Unused(id[d])'
    <3> SUFFICES ASSUME NEW d \in Tasks, pc'[d] \in {"lock", "write"}, id[d] # 0
                 PROVE  Unused(id[d])'
      BY <1>1
    <3>1. d # c /\ pc[d] = pc'[d]
      BY <1>3
    <3>2. id[d] # id[c] /\ Unused(id[d])
      BY <1>5, <3>1 DEF Places, Ids
    <3> QED BY <1>1, <3>2, <2>2, <2>3, <3>1 DEF Unused
  <2>6. ASSUME NEW k \in 1..Len(stdin')
        PROVE  /\ stdin'[k].id # host'.id /\ stdin'[k].id \notin DOMAIN sent'
               /\ \A j \in 1..Len(stdin') : j # k => stdin'[j].id # stdin'[k].id
               /\ \A j \in 1..Len(stdout') : stdout'[j].id # stdin'[k].id
    <3>1. \A j \in 1..n : stdin[j].id # id[c]
      BY <1>5 DEF Unused
    <3>2. CASE k \in 1..n
      <4>1. /\ stdin[k].id # host.id /\ stdin[k].id \notin DOMAIN sent
            /\ \A j \in 1..n : j # k => stdin[j].id # stdin[k].id
            /\ \A j \in 1..Len(stdout) : stdout[j].id # stdin[k].id
        BY <3>2 DEF Places
      <4> QED BY <1>1, <2>2, <2>3, <3>1, <3>2, <4>1
    <3>3. CASE k = n + 1
      BY <1>1, <1>5, <2>2, <2>3, <3>1, <3>3 DEF Unused
    <3> QED BY <2>2, <2>3, <3>2, <3>3
  <2>7. Places'
    BY <1>1, <2>5, <2>6 DEF Places
  <2> QED BY <1>4, <2>4, <2>7
<1> QED BY <1>6, <1>7 DEF Write

\* Tasks that receive, and a host that dies, only take away.
LEMMA ReceivingPipe ==
    ASSUME TypeOK, TypeOK', Pipe, Owner, NEW c \in Tasks, Receives(c)
    PROVE  Pipe'
<1> USE DEF Pipe
<1>1. /\ UNCHANGED <<kind, id, nextId, stdin, sent>>
      /\ host' = host \/ host' = Idle
  BY ReceivingTakes
<1>2. PICK s \in {0, 1} : \A k \in 1..Len(stdout') :
          k + s \in 1..Len(stdout) /\ stdout'[k] = stdout[k + s]
  BY ReceivingTakes
<1>3. /\ pc[c] \notin {"idle", "lock", "write"} /\ pc'[c] \notin {"idle", "lock", "write"}
      /\ \A d \in Tasks : d # c => pc'[d] = pc[d]
  <2>1. pc \in [Tasks -> PC] /\ pc[c] \notin Early
    BY ReceivingMoves DEF TypeOK
  <2>2. CASE pc' = pc
    BY <2>1, <2>2 DEF Early
  <2>3. ASSUME NEW x \in {"stream", "kill", "done"}, pc' = [pc EXCEPT ![c] = x]
        PROVE  /\ pc'[c] \notin {"idle", "lock", "write"}
               /\ \A d \in Tasks : d # c => pc'[d] = pc[d]
    BY <2>1, <2>3
  <2> QED BY <2>1, <2>2, <2>3, ReceivingMoves DEF Early
<1>4. /\ Len(stdout) \in Nat /\ Len(stdout') \in Nat /\ nextId \in Nat \ {0}
      /\ Idle.id = 0 /\ Idle.started = FALSE /\ Idle.n = 0
  <2>1. Idle.id = 0 /\ Idle.started = FALSE /\ Idle.n = 0
    BY DEF Idle
  <2>2. stdout \in Seq(Messages) /\ stdout' \in Seq(Messages) /\ nextId \in Nat \ {0}
    BY DEF TypeOK
  <2>3. Len(stdout) \in Nat /\ Len(stdout') \in Nat
    BY <2>2
  <2> QED BY <2>1, <2>2, <2>3
<1>5. Ids'
  <2>1. \A k \in 1..Len(stdout') : stdout'[k].id \in 1..nextId - 1
    BY <1>2 DEF Ids
  <2>2. host'.id < nextId /\ (host' # Idle => host'.id # 0)
    BY <1>1, <1>4 DEF Ids
  <2>3. \A d \in Tasks : id'[d] = 0 <=> pc'[d] = "idle" \/ (pc'[d] = "lock" /\ ~IsStream(d)')
    BY <1>1, <1>3 DEF Ids, IsStream
  <2> QED BY <1>1, <2>1, <2>2, <2>3 DEF Ids
<1>6. Places'
  <2>1. \A d \in Tasks : pc'[d] \in {"lock", "write"} /\ id'[d] # 0 => Unused(id[d])'
    <3> SUFFICES ASSUME NEW d \in Tasks, pc'[d] \in {"lock", "write"}, id'[d] # 0
                 PROVE  Unused(id[d])'
      OBVIOUS
    <3>1. pc[d] = pc'[d] /\ id[d] = id'[d]
      BY <1>1, <1>3
    <3>2. Unused(id[d])
      BY <3>1 DEF Places
    <3>3. \A i : i # 0 /\ Unused(i) =>
            /\ \A k \in 1..Len(stdin') : stdin'[k].id # i
            /\ \A k \in 1..Len(stdout') : stdout'[k].id # i
            /\ host'.id # i
            /\ i \notin DOMAIN sent'
      BY <1>1, <1>2, <1>4 DEF Unused
    <3> QED BY <3>1, <3>2, <3>3 DEF Unused
  <2>2. \A k \in 1..Len(stdin') :
          /\ stdin'[k].id # host'.id /\ stdin'[k].id \notin DOMAIN sent'
          /\ \A j \in 1..Len(stdin') : j # k => stdin'[j].id # stdin'[k].id
          /\ \A j \in 1..Len(stdout') : stdout'[j].id # stdin'[k].id
    <3>1. \A k \in 1..Len(stdin) : stdin[k].id # host'.id
      <4>1. CASE host' = host
        BY <4>1 DEF Places
      <4>2. CASE host' = Idle
        BY <1>4, <4>2 DEF Ids
      <4> QED BY <1>1, <4>1, <4>2
    <3>2. \A k \in 1..Len(stdin), j \in 1..Len(stdout') : stdout'[j].id # stdin[k].id
      BY <1>2 DEF Places
    <3> QED BY <1>1, <3>1, <3>2 DEF Places
  <2>3. host'.id \notin DOMAIN sent'
    BY <1>1, <1>4 DEF Places, Ids
  <2>4. ~host'.started => host'.n = 0 /\ \A k \in 1..Len(stdout') : stdout'[k].id # host'.id
    <3>1. CASE host' = host
      <4>1. ~host.started => host.n = 0 /\ \A k \in 1..Len(stdout) : stdout[k].id # host.id
        BY DEF Places
      <4> QED BY <1>2, <1>4, <3>1, <4>1
    <3>2. CASE host' = Idle
      <4>1. \A k \in 1..Len(stdout) : stdout[k].id # 0
        BY <1>4 DEF Ids
      <4> QED BY <1>2, <1>4, <3>2, <4>1
    <3> QED BY <1>1, <3>1, <3>2
  <2> QED BY <2>1, <2>2, <2>3, <2>4 DEF Places
<1>7. Frames'
  <2>1. \A j, k \in 1..Len(stdout') :
          j < k /\ stdout'[j].id = stdout'[k].id /\ stdout'[k].what = "chunk" =>
              /\ stdout'[j].what # "end"
              /\ stdout'[j].what = "chunk" => stdout'[j].n < stdout'[k].n
    <3> SUFFICES ASSUME NEW j \in 1..Len(stdout'), NEW k \in 1..Len(stdout'), j < k,
                        stdout'[j].id = stdout'[k].id, stdout'[k].what = "chunk"
                 PROVE  /\ stdout'[j].what # "end"
                        /\ stdout'[j].what = "chunk" => stdout'[j].n < stdout'[k].n
      OBVIOUS
    <3>1. /\ j + s \in 1..Len(stdout) /\ k + s \in 1..Len(stdout)
          /\ stdout'[j] = stdout[j + s] /\ stdout'[k] = stdout[k + s]
      BY <1>2
    <3>2. j + s < k + s
      BY <1>4
    <3> QED BY <3>1, <3>2 DEF Frames
  <2>2. \A k \in 1..Len(stdout') :
          /\ stdout'[k].what = "end" => stdout'[k].id \in DOMAIN sent'
          /\ stdout'[k].what = "chunk" =>
                /\ stdout'[k].id = host'.id => stdout'[k].n <= host'.n
                /\ stdout'[k].id \in DOMAIN sent' => stdout'[k].n <= sent'[stdout'[k].id]
    <3> SUFFICES ASSUME NEW k \in 1..Len(stdout')
                 PROVE  /\ stdout'[k].what = "end" => stdout'[k].id \in DOMAIN sent'
                        /\ stdout'[k].what = "chunk" =>
                            /\ stdout'[k].id = host'.id => stdout'[k].n <= host'.n
                            /\ stdout'[k].id \in DOMAIN sent' =>
                                  stdout'[k].n <= sent'[stdout'[k].id]
      OBVIOUS
    <3>1. k + s \in 1..Len(stdout) /\ stdout'[k] = stdout[k + s] /\ stdout'[k].id # 0
      BY <1>2, <1>4 DEF Ids
    <3> QED BY <1>1, <1>4, <3>1 DEF Frames
  <2> QED BY <1>1, <2>1, <2>2 DEF Frames
<1> QED BY <1>5, <1>6, <1>7

\* A request goes from stdin to the host.
LEMMA HostTakesPipe ==
    ASSUME TypeOK, Pipe, HostTakes
    PROVE  Pipe'
<1> USE DEF hostOnly, callerVars, Pipe
<1>1. UNCHANGED <<kind, id, nextId, pc, stdout, sent>>
  BY DEF HostTakes
<1>2. /\ stdin \in Seq(Requests) /\ stdin # <<>> /\ stdin' = Tail(stdin)
      /\ host = Idle /\ Len(stdin) \in Nat
  BY DEF HostTakes, TypeOK
<1>3. /\ host'.id = stdin[1].id /\ host'.n = 0 /\ host'.started = FALSE
      /\ 1 \in 1..Len(stdin)
  BY <1>2 DEF HostTakes, Idle
<1>4. /\ Len(stdin') \in Nat
      /\ \A k \in 1..Len(stdin') : k + 1 \in 1..Len(stdin) /\ stdin'[k] = stdin[k + 1]
                                  /\ k + 1 # 1
  BY <1>2
<1>5. Ids'
  <2>1. \A k \in 1..Len(stdin') : stdin'[k].id \in 1..nextId - 1
    BY <1>4 DEF Ids
  <2>2. nextId \in Nat /\ stdin[1].id \in 1..nextId - 1
    BY <1>3 DEF Ids, TypeOK
  <2>3. host'.id < nextId /\ host'.id # 0
    BY <1>3, <2>2
  <2> QED BY <1>1, <2>1, <2>3 DEF Ids, IsStream
<1>6. ASSUME NEW d \in Tasks, pc'[d] \in {"lock", "write"}, id'[d] # 0
      PROVE  Unused(id[d])'
  <2>1. id'[d] = id[d] /\ Unused(id[d])
    BY <1>1, <1>6 DEF Places
  <2>2. \A k \in 1..Len(stdin') : stdin'[k].id # id[d]
    BY <1>4, <2>1 DEF Unused
  <2>3. host'.id # id[d]
    BY <1>3, <2>1 DEF Unused
  <2> QED BY <1>1, <2>1, <2>2, <2>3 DEF Unused
<1>7. \A k \in 1..Len(stdin') :
          /\ stdin'[k].id # host'.id /\ stdin'[k].id \notin DOMAIN sent'
          /\ \A j \in 1..Len(stdin') : j # k => stdin'[j].id # stdin'[k].id
          /\ \A j \in 1..Len(stdout') : stdout'[j].id # stdin'[k].id
  <2> SUFFICES ASSUME NEW k \in 1..Len(stdin')
               PROVE  /\ stdin'[k].id # host'.id /\ stdin'[k].id \notin DOMAIN sent'
                      /\ \A j \in 1..Len(stdin') : j # k => stdin'[j].id # stdin'[k].id
                      /\ \A j \in 1..Len(stdout') : stdout'[j].id # stdin'[k].id
    OBVIOUS
  <2>1. k + 1 \in 1..Len(stdin) /\ stdin'[k] = stdin[k + 1] /\ k + 1 # 1
    BY <1>4
  <2>2. /\ \A j \in 1..Len(stdin) : j # k + 1 => stdin[j].id # stdin[k + 1].id
        /\ stdin[k + 1].id \notin DOMAIN sent
        /\ \A j \in 1..Len(stdout) : stdout[j].id # stdin[k + 1].id
    BY <2>1 DEF Places
  <2>3. \A j \in 1..Len(stdin') : j # k => stdin'[j].id # stdin'[k].id
    <3> SUFFICES ASSUME NEW j \in 1..Len(stdin'), j # k PROVE stdin'[j].id # stdin'[k].id
      OBVIOUS
    <3>1. j + 1 \in 1..Len(stdin) /\ stdin'[j] = stdin[j + 1] /\ j + 1 # k + 1
      BY <1>4
    <3> QED BY <2>1, <2>2, <3>1
  <2> QED BY <1>1, <1>3, <2>1, <2>2, <2>3
<1>8. /\ host'.id \notin DOMAIN sent'
      /\ \A k \in 1..Len(stdout') : stdout'[k].id # host'.id
  BY <1>1, <1>3 DEF Places
<1>9. Places'
  BY <1>3, <1>6, <1>7, <1>8 DEF Places
<1>10. Frames'
  BY <1>1, <1>8 DEF Frames
<1> QED BY <1>5, <1>9, <1>10

\* The host says something, and perhaps is through with its request.
LEMMA HostSaysPipe ==
    ASSUME TypeOK, Pipe, HostAnswers \/ HostStarts \/ HostSendsChunk \/ HostEnds
    PROVE  Pipe'
<1> USE DEF callerVars, Pipe
<1> DEFINE n == Len(stdout)
<1>1. /\ UNCHANGED <<kind, id, nextId, pc, stdin>>
      /\ n \in Nat /\ Len(stdout') \in Nat /\ Len(stdout') > n
      /\ \A k \in 1..n : stdout'[k] = stdout[k]
      /\ \A k \in n + 1..Len(stdout') :
            /\ stdout'[k].id = host.id
            /\ stdout'[k].what = "chunk" => HostSendsChunk /\ stdout'[k].n = host.n + 1
            /\ stdout'[k].what = "end" => HostEnds
      /\ HostSendsChunk => Len(stdout') = n + 1
  BY HostSays
<1>2. \A k \in 1..Len(stdout') : k \in 1..n \/ k \in n + 1..Len(stdout')
  BY <1>1
<1>3. /\ host \in [id : Nat, kind : Kinds, n : 0..MaxChunks, started : BOOLEAN]
      /\ nextId \in Nat \ {0} /\ host # Idle
  BY DEF TypeOK, HostAnswers, HostStarts, HostSendsChunk, HostEnds, HostBusy
<1>4. host.id # 0 /\ host.id < nextId /\ host.id \notin DOMAIN sent
  BY <1>3 DEF Ids, Places
<1>5. \A k \in 1..n : stdout[k].id # 0
  BY DEF Ids
<1>6. Idle.id = 0 /\ Idle.started = FALSE /\ Idle.n = 0
  BY DEF Idle
<1>7. \/ host' = Idle /\ ~HostSendsChunk
      \/ HostStarts /\ host' = [host EXCEPT !.started = TRUE] /\ ~HostSendsChunk
      \/ HostSendsChunk /\ host' = [host EXCEPT !.n = @ + 1] /\ host.started
  <2>1. ASSUME HostSendsChunk PROVE host'.started /\ host.started
    BY <1>3, <2>1 DEF HostSendsChunk
  <2>2. ASSUME HostStarts PROVE ~host.started
    BY <2>2 DEF HostStarts
  <2> QED BY <1>6, <2>1, <2>2 DEF HostAnswers, HostStarts, HostSendsChunk, HostEnds
<1>8. /\ host' = Idle \/ host'.id = host.id
      /\ host'.id = host.id \/ host'.id = 0
      /\ host' # Idle => host.started \/ host'.started
      /\ ~host'.started => host' = Idle
  BY <1>3, <1>6, <1>7
<1>9. \/ sent' = sent /\ ~HostEnds
      \/ /\ HostEnds /\ host' = Idle
         /\ DOMAIN sent' = DOMAIN sent \cup {host.id}
         /\ sent'[host.id] = host.n
         /\ \A i \in DOMAIN sent : sent'[i] = sent[i]
  <2>1. CASE HostEnds
    BY <1>4, <2>1 DEF HostEnds
  <2>2. CASE ~HostEnds
    BY <2>2 DEF HostAnswers, HostStarts, HostSendsChunk
  <2> QED BY <2>1, <2>2
<1>10. Ids'
  <2>1. ASSUME NEW k \in 1..Len(stdout') PROVE stdout'[k].id \in 1..nextId - 1
    <3>1. CASE k \in 1..n
      BY <1>1, <3>1 DEF Ids
    <3>2. CASE k \in n + 1..Len(stdout')
      <4>1. stdout'[k].id = host.id
        BY <1>1, <3>2
      <4>2. host.id \in 1..nextId - 1
        BY <1>3, <1>4
      <4> QED BY <4>1, <4>2
    <3> QED BY <1>2, <3>1, <3>2
  <2>2. host'.id < nextId /\ (host' # Idle => host'.id # 0)
    BY <1>3, <1>4, <1>8
  <2>3. DOMAIN sent' \subseteq 1..nextId - 1
    BY <1>3, <1>4, <1>9 DEF Ids
  <2> QED BY <1>1, <2>1, <2>2, <2>3 DEF Ids, IsStream
<1>11. Places'
  <2>1. \A d \in Tasks : pc'[d] \in {"lock", "write"} /\ id'[d] # 0 => Unused(id[d])'
    <3> SUFFICES ASSUME NEW d \in Tasks, pc'[d] \in {"lock", "write"}, id'[d] # 0
                 PROVE  Unused(id[d])'
      OBVIOUS
    <3>1. id[d] = id'[d] /\ Unused(id[d])
      BY <1>1 DEF Places
    <3> QED BY <1>1, <1>2, <1>8, <1>9, <3>1 DEF Unused
  <2>2. ASSUME NEW k \in 1..Len(stdin')
        PROVE  /\ stdin'[k].id # host'.id /\ stdin'[k].id \notin DOMAIN sent'
               /\ \A j \in 1..Len(stdin') : j # k => stdin'[j].id # stdin'[k].id
               /\ \A j \in 1..Len(stdout') : stdout'[j].id # stdin'[k].id
    <3>1. /\ stdin[k].id # host.id /\ stdin[k].id \notin DOMAIN sent /\ stdin[k].id # 0
          /\ \A j \in 1..Len(stdin) : j # k => stdin[j].id # stdin[k].id
          /\ \A j \in 1..Len(stdout) : stdout[j].id # stdin[k].id
      BY <1>1 DEF Places, Ids
    <3> QED BY <1>1, <1>2, <1>8, <1>9, <3>1
  <2>3. host'.id \notin DOMAIN sent'
    <3>1. 0 \notin DOMAIN sent
      BY DEF Ids
    <3> QED BY <1>4, <1>6, <1>8, <1>9, <3>1
  <2>4. ~host'.started => host'.n = 0 /\ \A k \in 1..Len(stdout') : stdout'[k].id # host'.id
    BY <1>1, <1>2, <1>4, <1>5, <1>6, <1>8
  <2> QED BY <2>1, <2>2, <2>3, <2>4 DEF Places
<1>12. Frames'
  <2>1. \A i \in DOMAIN sent' : sent'[i] \in Nat
    <3>1. host.n \in Nat
      BY <1>3
    <3> QED BY <1>9, <3>1 DEF Frames
  <2>2. ASSUME NEW j \in 1..Len(stdout'), NEW k \in 1..Len(stdout'), j < k,
               stdout'[j].id = stdout'[k].id, stdout'[k].what = "chunk"
        PROVE  /\ stdout'[j].what # "end"
               /\ stdout'[j].what = "chunk" => stdout'[j].n < stdout'[k].n
    <3>1. CASE k \in 1..n
      <4>1. j \in 1..n /\ stdout'[j] = stdout[j] /\ stdout'[k] = stdout[k]
        BY <1>1, <2>2, <3>1
      <4> QED BY <2>2, <3>1, <4>1 DEF Frames
    <3>2. CASE k \in n + 1..Len(stdout')
      <4>1. /\ HostSendsChunk /\ stdout'[k].n = host.n + 1 /\ stdout'[k].id = host.id
            /\ k = n + 1 /\ j \in 1..n /\ stdout'[j] = stdout[j]
        BY <1>1, <2>2, <3>2
      <4>2. stdout[j].what # "end"
        BY <1>4, <2>2, <4>1 DEF Frames
      <4>3. stdout[j].what = "chunk" => stdout[j].n <= host.n
        BY <2>2, <4>1 DEF Frames
      <4>4. stdout[j] \in Messages
        BY <4>1 DEF TypeOK
      <4>5. stdout[j].n \in Nat /\ host.n \in Nat
        BY <1>3, <4>4 DEF Messages
      <4> QED BY <4>1, <4>2, <4>3, <4>5
    <3> QED BY <1>2, <3>1, <3>2
  <2>3. ASSUME NEW k \in 1..Len(stdout')
        PROVE  /\ stdout'[k].what = "end" => stdout'[k].id \in DOMAIN sent'
               /\ stdout'[k].what = "chunk" =>
                     /\ stdout'[k].id = host'.id => stdout'[k].n <= host'.n
                     /\ stdout'[k].id \in DOMAIN sent' =>
                           stdout'[k].n <= sent'[stdout'[k].id]
    <3>1. CASE k \in 1..n
      <4>1. stdout'[k] = stdout[k] /\ stdout[k] \in Messages /\ stdout[k].id # 0
        BY <1>1, <1>5, <3>1 DEF TypeOK
      <4>2. stdout[k].n \in Nat /\ host.n \in Nat
        BY <1>3, <4>1 DEF Messages
      <4>3. stdout[k].what = "end" => stdout[k].id \in DOMAIN sent
        BY <3>1 DEF Frames
      <4>4. stdout[k].what = "chunk" =>
                /\ stdout[k].id = host.id => stdout[k].n <= host.n
                /\ stdout[k].id \in DOMAIN sent => stdout[k].n <= sent[stdout[k].id]
        BY <3>1 DEF Frames
      <4>5. host'.id = host.id => host'.n \in Nat /\ host.n <= host'.n
        BY <1>3, <1>4, <1>6, <1>7, <4>2
      <4>6. stdout[k].id = host'.id => host'.id = host.id
        BY <1>8, <4>1
      <4> QED BY <1>9, <4>1, <4>2, <4>3, <4>4, <4>5, <4>6
    <3>2. CASE k \in n + 1..Len(stdout')
      <4>1. /\ stdout'[k].id = host.id
            /\ stdout'[k].what = "chunk" => HostSendsChunk /\ stdout'[k].n = host.n + 1
            /\ stdout'[k].what = "end" => HostEnds
        BY <1>1, <3>2
      <4>2. HostSendsChunk => host'.n = host.n + 1 /\ host'.id = host.id /\ ~HostEnds
                              /\ host'.n \in Nat
        BY <1>3, <1>4, <1>6, <1>7, <1>9
      <4> QED BY <1>4, <1>9, <4>1, <4>2
    <3> QED BY <1>2, <3>1, <3>2
  <2> QED BY <2>1, <2>2, <2>3 DEF Frames
<1> QED BY <1>10, <1>11, <1>12

LEMMA HostDiesPipe ==
    ASSUME TypeOK, Pipe, HostDies
    PROVE  Pipe'
<1>1. UNCHANGED <<kind, id, nextId, pc, stdin, stdout, sent>> /\ host' = Idle
  BY DEF HostDies, hostOnly, callerVars
<1>2. Idle.id = 0 /\ Idle.started = FALSE /\ Idle.n = 0
  BY DEF Idle
<1>3. /\ \A k \in 1..Len(stdin) : stdin[k].id # 0
      /\ \A k \in 1..Len(stdout) : stdout[k].id # 0
      /\ 0 \notin DOMAIN sent /\ nextId \in Nat \ {0}
  BY DEF Pipe, Ids, TypeOK
<1>4. Ids'
  BY <1>1, <1>2, <1>3 DEF Pipe, Ids, IsStream
<1>5. Places'
  BY <1>1, <1>2, <1>3 DEF Pipe, Places, Unused
<1>6. Frames'
  BY <1>1, <1>2, <1>3 DEF Pipe, Frames
<1> QED BY <1>4, <1>5, <1>6 DEF Pipe

\* A step keeps every request and every frame in its place.
LEMMA NextPipe == TypeOK /\ TypeOK' /\ Owner /\ Pipe /\ [Next]_vars => Pipe'
<1> SUFFICES ASSUME TypeOK, TypeOK', Owner, Pipe, [Next]_vars PROVE Pipe'
  OBVIOUS
<1>1. CASE UNCHANGED vars
  BY <1>1 DEF vars, Pipe, Ids, Places, Frames, Unused, IsStream
<1>2. CASE \E c \in Tasks : Enter(c) \/ Lock(c)
  BY <1>2, EnterPipe
<1>3. CASE \E c \in Tasks : Write(c)
  BY <1>3, WritePipe
<1>4. CASE \E c \in Tasks : Receives(c)
  BY <1>4, ReceivingPipe
<1>5. CASE HostStep \/ HostDies
  BY <1>5, HostTakesPipe, HostSaysPipe, HostDiesPipe DEF HostStep
<1> QED BY <1>1, <1>2, <1>3, <1>4, <1>5 DEF Next, Step, Receives

LEMMA ReceivedTypes ==
    ASSUME TypeOK, NEW c \in Tasks
    PROVE  /\ chan[c] \in Seq(Messages) /\ got[c] \in Seq(Messages)
           /\ Len(chan[c]) \in Nat /\ Len(got[c]) \in Nat /\ Passed(c) \in Nat
           /\ Passed(c) = 0 => Len(chan[c]) = 0 /\ Len(got[c]) = 0
<1>1. chan[c] \in Seq(Messages) /\ got[c] \in Seq(Messages)
  BY DEF TypeOK
<1>2. Len(chan[c]) \in Nat /\ Len(got[c]) \in Nat
  BY <1>1
<1>3. \A m, n \in Nat : m + n \in Nat /\ (m + n = 0 => m = 0 /\ n = 0)
  OBVIOUS
<1>4. Passed(c) \in Nat /\ (Passed(c) = 0 => Len(chan[c]) = 0 /\ Len(got[c]) = 0)
  BY Zenon, <1>2, <1>3 DEF Passed
<1> QED BY <1>1, <1>2, <1>4

\* What a step leaves alone of the task d.
Same(d) ==
    /\ kind'[d] = kind[d] /\ id'[d] = id[d]
    /\ pc'[d] = pc[d] /\ reader'[d] = reader[d]
    /\ chan'[d] = chan[d] /\ got'[d] = got[d] /\ outcome'[d] = outcome[d]

\* A stream keeps what came through and what is in stdout while nobody else
\* takes frames out of it.
LEMMA SameKept ==
    ASSUME TypeOK, Ids, NEW d \in Tasks, Kept(d), Same(d),
           sent' = sent, host' = host \/ host' = Idle,
           stdout' = stdout \/ ~Listening(d),
           \A k \in 1..Len(stdin') :
               stdin'[k].id = id[d] => \E j \in 1..Len(stdin) : stdin[j].id = id[d]
    PROVE  Kept(d)'
<1>1. /\ Passed(d)' = Passed(d) /\ Failed(d)' = Failed(d)
      /\ Listening(d)' = Listening(d) /\ IsStream(d)' = IsStream(d)
  BY DEF Same, Passed, Failed, Listening, IsStream
<1>2. Through(d) => Through(d)'
  BY <1>1 DEF Same, Through
<1>3. ASSUME Listening(d), Pending(d) PROVE Pending(d)'
  <2>1. stdout' = stdout /\ id'[d] = id[d]
    BY <1>3 DEF Same
  <2>2. id[d] # 0 /\ Idle.id = 0
    BY <1>3 DEF Ids, Listening, Idle
  <2>3. \A x : Due(d, x)' = Due(d, x)
    BY <1>1, <2>1 DEF Due, InStdout
  <2>4. \A k \in 1..Len(stdout') :
          stdout'[k].what = "chunk" /\ stdout'[k].id = id'[d] =>
              stdout'[k].n > Passed(d)' /\ Due(d, stdout[k].n)'
    BY <1>1, <1>3, <2>1, <2>3 DEF Pending
  <2>5. (host'.id = id'[d] => Due(d, host.n)' /\ host' = host)
    BY <1>3, <2>1, <2>2, <2>3 DEF Pending
  <2>6. id'[d] \in DOMAIN sent' => Due(d, sent[id[d]])'
    BY <1>3, <2>1, <2>3 DEF Pending
  <2>7. \A k \in 1..Len(stdin') : stdin'[k].id = id'[d] => Passed(d)' = 0
    BY <1>1, <1>3, <2>1 DEF Pending
  <2> QED BY <2>1, <2>4, <2>5, <2>6, <2>7 DEF Pending
<1> QED BY <1>1, <1>2, <1>3 DEF Kept, Same

LEMMA EnterWhole ==
    ASSUME TypeOK, Pipe, Owner, Whole, NEW c \in Tasks, Enter(c) \/ Lock(c)
    PROVE  Whole'
<1> USE DEF callerVars, hostVars
<1>1. UNCHANGED <<kind, reader, chan, got, outcome, stdin, stdout, host, sent>>
  BY DEF Enter, Lock
<1>2. /\ pc[c] \in {"idle", "lock"} /\ pc'[c] \in {"lock", "write"}
      /\ \A d \in Tasks : d # c => pc'[d] = pc[d] /\ id'[d] = id[d]
  BY DEF Enter, Lock, Goto, TakeId, TypeOK
<1>3. ~Listening(c)'
  BY <1>2 DEF Listening
<1>4. IsStream(c) => Through(c)'
  <2>1. IsStream(c) => Through(c) /\ Kept(c)
    BY DEF Whole, Kept
  <2>2. Passed(c)' = Passed(c) /\ Failed(c)' = Failed(c)
    BY <1>1 DEF Passed, Failed
  <2> QED BY <1>1, <1>2, <2>1, <2>2 DEF Through
<1>5. Kept(c)'
  BY <1>1, <1>2, <1>3, <1>4 DEF Kept, IsStream
<1>6. ASSUME NEW d \in Tasks, d # c PROVE Kept(d)'
  <2>1. Same(d)
    BY <1>1, <1>2, <1>6 DEF Same
  <2> QED BY <1>1, <2>1, SameKept DEF Pipe, Whole
<1> QED BY <1>5, <1>6 DEF Whole

\* The task of a stream starts with nothing passed on, and nothing is said yet.
LEMMA WriteWhole ==
    ASSUME TypeOK, Pipe, Owner, Whole, NEW c \in Tasks, Write(c)
    PROVE  Whole'
<1> USE DEF callerVars
<1>1. UNCHANGED <<kind, id, chan, got, stdout, host, sent>> /\ pc[c] = "write"
  BY DEF Write
<1>2. /\ \A d \in Tasks : d # c =>
            pc'[d] = pc[d] /\ reader'[d] = reader[d] /\ outcome'[d] = outcome[d]
      /\ pc'[c] \in {"start", "read", "done"}
      /\ pc'[c] = "read" => ~IsStream(c)
      /\ outcome'[c] = outcome[c] \/ outcome'[c] # "ok"
      /\ reader'[c] => IsStream(c) \/ reader[c]
  BY DEF Write, Goto, Returns, TypeOK
<1>3. Unused(id[c]) /\ id[c] # 0
  BY <1>1 DEF Pipe, Places, Ids
<1>4. ~reader[c]
  BY <1>1 DEF Owner
<1>5. Kept(c) /\ (IsStream(c) => Through(c) /\ Passed(c) = 0)
  BY <1>1 DEF Whole, Kept, Through
<1>6. Passed(c)' = Passed(c) /\ Failed(c)' = Failed(c) /\ IsStream(c)' = IsStream(c)
  BY <1>1 DEF Passed, Failed, IsStream
<1>7. IsStream(c) => Through(c)'
  <2> SUFFICES ASSUME IsStream(c) PROVE Through(c)'
    OBVIOUS
  <2>1. Len(chan[c]) = 0
    BY <1>5, ReceivedTypes
  <2> QED BY <1>1, <1>2, <1>5, <1>6, <2>1 DEF Through
<1>8. Listening(c)' => Pending(c)'
  <2> SUFFICES ASSUME Listening(c)' PROVE Pending(c)'
    OBVIOUS
  <2>1. Passed(c)' = 0
    BY <1>2, <1>4, <1>5, <1>6 DEF Listening
  <2>2. id'[c] \notin DOMAIN sent' /\ host'.id # id'[c]
        /\ \A k \in 1..Len(stdout') : stdout'[k].id # id'[c]
    BY <1>1, <1>3 DEF Unused
  <2> QED BY <2>1, <2>2 DEF Pending
<1>9. Kept(c)'
  BY <1>2, <1>6, <1>7, <1>8 DEF Kept
<1>10. ASSUME NEW d \in Tasks, d # c PROVE Kept(d)'
  <2>1. Same(d)
    BY <1>1, <1>2, <1>10 DEF Same
  <2>2. \A k \in 1..Len(stdin') :
            stdin'[k].id = id[d] => \E j \in 1..Len(stdin) : stdin[j].id = id[d]
    <3>1. id[c] # id[d]
      BY <1>3, <1>10 DEF Pipe, Ids
    <3>2. CASE stdin' = stdin
      BY <3>2
    <3>3. CASE stdin' = Append(stdin, [id |-> id[c], kind |-> kind[c]])
      <4>1. stdin \in Seq(Requests) /\ [id |-> id[c], kind |-> kind[c]] \in Requests
        BY DEF TypeOK, Requests
      <4>2. \A r \in Requests : stdin' = Append(stdin, r) =>
              \A k \in 1..Len(stdin') :
                  stdin'[k] = r \/ (k \in 1..Len(stdin) /\ stdin'[k] = stdin[k])
        BY <4>1
      <4> QED BY <3>1, <3>3, <4>1, <4>2
    <3> QED BY <3>2, <3>3 DEF Write
  <2> QED BY <1>1, <2>1, <2>2, SameKept DEF Pipe, Whole
<1> QED BY <1>9, <1>10 DEF Whole

\* A task that receives changes nothing of the others, and takes no frame
\* out of stdout while another reads.
LEMMA FailSame ==
    ASSUME TypeOK, NEW c \in Tasks, NEW how, Fail(c, how),
           NEW d \in Tasks, d # c
    PROVE  /\ pc'[d] = pc[d] /\ reader'[d] = reader[d]
           /\ chan'[d] = chan[d] /\ outcome'[d] = outcome[d]
BY DEF TypeOK, Fail, Returns, Goto, Stays, EndReader, SendChunk

LEMMA ReceivingSame ==
    ASSUME TypeOK, NEW c \in Tasks, Receives(c), NEW d \in Tasks, d # c
    PROVE  Same(d)
<1>1. kind' = kind /\ id' = id
  BY ReceivingTakes
<1> USE <1>1 DEF Same, callerVars, hostVars
<1>2. CASE Timeout(c) \/ Drop(c) \/ Kill(c) \/ ReadHeader(c)
  BY <1>2 DEF TypeOK, Timeout, Drop, Kill, ReadHeader, Returns, Goto
<1>3. CASE Consume(c)
  <2>1. /\ reader' = reader /\ pc \in [Tasks -> PC]
        /\ chan \in [Tasks -> Seq(Messages)] /\ got \in [Tasks -> Seq(Messages)]
    BY <1>3 DEF TypeOK, Consume
  <2>2. chan' = chan \/ chan' = [chan EXCEPT ![c] = Tail(chan[c])]
    BY <1>3 DEF Consume
  <2>3. got' = got \/ got' = [got EXCEPT ![c] = Append(got[c], Head(chan[c]))]
    BY <1>3 DEF Consume
  <2>4. pc'[d] = pc[d] /\ outcome'[d] = outcome[d]
    BY <1>3 DEF TypeOK, Consume, Stays, Returns, Goto
  <2> QED BY <2>1, <2>2, <2>3, <2>4
<1>4. CASE ReadOrphan(c) \/ ReadEnd(c)
  BY <1>4, FailSame DEF ReadOrphan, ReadEnd
<1>5. CASE ReadBody(c)
  <2> DEFINE m == Head(stdout)
  <2>1. CASE Fail(c, "failed") /\ got' = got
    BY <2>1, FailSame
  <2>2. CASE ~(Fail(c, "failed") /\ got' = got)
    <3>1. CASE CallReads(c, m)
      BY <2>2, <3>1 DEF TypeOK, CallReads, Returns, Goto, Stays
    <3>2. CASE StreamReads(c, m)
      BY <2>2, <3>2 DEF TypeOK, StreamReads, SendChunk, OnEnd, EndReader, Returns, Goto, Stays
    <3> QED BY <1>5, <3>1, <3>2 DEF ReadBody
  <2> QED BY <2>1, <2>2
<1> QED BY <1>2, <1>3, <1>4, <1>5 DEF Receives, Reading

LEMMA OthersKept ==
    ASSUME TypeOK, Pipe, Owner, Whole, NEW c \in Tasks, Receives(c),
           NEW d \in Tasks, d # c
    PROVE  Kept(d)'
<1>1. Same(d)
  BY ReceivingSame
<1>2. stdout' = stdout \/ Reads(c)
  BY DEF Receives, Reading, Timeout, Consume, Drop, Kill, ReadHeader, ReadOrphan,
         ReadEnd, ReadBody
<1>3. ~(Reads(c) /\ Listening(d))
  BY DEF Owner, Reads, Listening
<1>4. stdin' = stdin /\ sent' = sent /\ (host' = host \/ host' = Idle)
  BY ReceivingTakes
<1> QED BY <1>1, <1>2, <1>3, <1>4, SameKept DEF Pipe, Whole

\* A stream its caller is through with stays what it is.
LEMMA DoneThrough ==
    ASSUME NEW c \in Tasks, Through(c), pc'[c] = "done",
           outcome'[c] = "ok" => outcome[c] = "ok",
           id'[c] = id[c], sent' = sent, got'[c] = got[c],
           chan'[c] = chan[c] \/ chan'[c] = <<>>, reader'[c] => reader[c]
    PROVE  Through(c)'
<1>1. CASE chan'[c] = chan[c]
  <2>1. Failed(c)' = Failed(c)
    BY <1>1 DEF Failed
  <2> QED BY <1>1, <2>1 DEF Through
<1>2. CASE chan'[c] = <<>>
  BY <1>2 DEF Through
<1> QED BY <1>1, <1>2

\* The failure of a stream is behind all that came through, and nothing follows.
LEMMA FailKept ==
    ASSUME TypeOK, Owner, NEW c \in Tasks, Kept(c), Reads(c),
           NEW how, how # "ok", Fail(c, how),
           UNCHANGED <<kind, id, got, sent>>
    PROVE  Kept(c)'
<1>1. /\ pc \in [Tasks -> PC] /\ reader \in [Tasks -> BOOLEAN]
      /\ chan \in [Tasks -> Seq(Messages)] /\ IsStream(c)' = IsStream(c)
  BY DEF TypeOK, IsStream
<1>2. chan[c] \in Seq(Messages) /\ Len(chan[c]) \in Nat
  BY ReceivedTypes
<1>3. outcome \in [Tasks -> {"none", "ok", "failed", "timeout", "left",
                             "protocol", "notRunning"}]
  BY DEF TypeOK
<1>4. CASE pc[c] = "read"
  <2>1. pc'[c] = "done" /\ ~IsStream(c)
    BY <1>1, <1>4 DEF Fail, Returns, Goto, Kept, Through
  <2> QED BY <1>1, <2>1 DEF Kept, Listening
<1>5. CASE pc[c] # "read"
  <2>1. reader[c] /\ pc[c] \in {"start", "stream", "done"} /\ reader'[c] = FALSE
    BY <1>1, <1>5 DEF Reads, Owner, Fail, EndReader
  <2>2. ~Listening(c)'
    BY <2>1 DEF Listening
  <2>3. CASE pc[c] # "stream"
    <3>1. pc'[c] = "done" /\ chan'[c] = chan[c]
      BY <1>1, <1>5, <2>1, <2>3 DEF Fail, Returns, Goto, Stays, SendChunk
    <3>2. outcome'[c] = "ok" => outcome[c] = "ok"
      BY <1>3, <1>5 DEF Fail, Returns, Goto, Stays
    <3>3. IsStream(c) => Through(c)'
      BY <2>1, <3>1, <3>2, DoneThrough DEF Kept
    <3> QED BY <1>1, <2>2, <3>1, <3>3 DEF Kept
  <2>4. CASE pc[c] = "stream"
    <3> DEFINE m == Frame("failed", id[c], 0)
               n == Len(chan[c])
    <3>1. pc' = pc /\ outcome' = outcome /\ chan'[c] = Append(chan[c], m)
      BY <1>1, <2>4 DEF Fail, Stays, SendChunk
    <3>2. /\ Len(chan'[c]) = n + 1 /\ chan'[c][n + 1] = m
          /\ \A k \in 1..n : chan'[c][k] = chan[c][k]
      BY <1>2, <3>1
    <3>3. m.what = "failed"
      BY DEF Frame
    <3>4. Failed(c)'
      BY <1>2, <3>2, <3>3 DEF Failed
    <3>5. ASSUME IsStream(c), NEW k \in 1..Len(chan'[c])
          PROVE  k = Len(chan'[c]) \/
                 (chan'[c][k].what = "chunk" /\ chan'[c][k].n = Len(got'[c]) + k)
      <4>1. Through(c)
        BY <3>5 DEF Kept
      <4>2. CASE k \in 1..n
        BY <2>1, <3>2, <4>1, <4>2 DEF Through
      <4> QED BY <1>2, <3>2, <4>2
    <3>6. IsStream(c) => Through(c)'
      <4>1. IsStream(c) => Through(c)
        BY DEF Kept
      <4> QED BY <2>1, <2>4, <3>1, <3>4, <3>5, <4>1 DEF Through
    <3> QED BY <1>1, <2>2, <2>4, <3>1, <3>6 DEF Kept
  <2> QED BY <2>3, <2>4
<1> QED BY <1>4, <1>5

LEMMA LeavesKept ==
    ASSUME TypeOK, Pipe, Owner, NEW c \in Tasks, Kept(c),
           Timeout(c) \/ Drop(c) \/ Kill(c) \/ ReadHeader(c)
    PROVE  Kept(c)'
<1> USE DEF callerVars, hostVars
<1>1. /\ UNCHANGED <<kind, id, got, sent, reader>> /\ IsStream(c)' = IsStream(c)
      /\ pc \in [Tasks -> PC] /\ chan \in [Tasks -> Seq(Messages)]
  BY DEF Timeout, Drop, Kill, ReadHeader, IsStream, TypeOK
<1>2. outcome \in [Tasks -> {"none", "ok", "failed", "timeout", "left",
                             "protocol", "notRunning"}]
  BY DEF TypeOK
<1>3. CASE Timeout(c) \/ Drop(c)
  <2>1. /\ pc'[c] = "done"
        /\ chan'[c] = chan[c] \/ chan'[c] = <<>>
        /\ outcome'[c] = "ok" => outcome[c] = "ok"
    BY <1>1, <1>2, <1>3 DEF Timeout, Drop, Returns, Goto
  <2>2. id'[c] = id[c] /\ sent' = sent /\ got'[c] = got[c] /\ (reader'[c] => reader[c])
    BY <1>1
  <2>3. IsStream(c) => Through(c)'
    BY <2>1, <2>2, DoneThrough DEF Kept
  <2> QED BY <1>1, <2>1, <2>3 DEF Kept, Listening
<1>4. CASE Kill(c)
  <2>1. pc'[c] = "done" /\ ~IsStream(c)
    BY <1>1, <1>4 DEF Kill, Returns, Goto, Kept, IsStream
  <2> QED BY <1>1, <2>1 DEF Kept, Listening
<1>5. CASE ReadHeader(c)
  <2>1. Same(c) /\ UNCHANGED <<sent, host, stdin, stdout>>
    BY <1>5 DEF ReadHeader, Same
  <2> QED BY <2>1, SameKept DEF Pipe
<1> QED BY <1>3, <1>4, <1>5

\* The listener takes what is next, and an empty channel without a sender means
\* that it has all.
LEMMA ConsumeKept ==
    ASSUME TypeOK, NEW c \in Tasks, Kept(c), Consume(c)
    PROVE  Kept(c)'
<1> USE DEF callerVars, hostVars
<1> DEFINE n == Len(chan[c])
           g == Len(got[c])
           h == Head(chan[c])
<1>1. /\ UNCHANGED <<kind, id, reader, stdin, stdout, host, sent>> /\ pc[c] = "stream"
      /\ IsStream(c)' = IsStream(c)
  BY DEF Consume, IsStream
<1>2. /\ pc \in [Tasks -> PC] /\ chan \in [Tasks -> Seq(Messages)]
      /\ got \in [Tasks -> Seq(Messages)]
      /\ outcome \in [Tasks -> {"none", "ok", "failed", "timeout", "left",
                                "protocol", "notRunning"}]
  BY DEF TypeOK
<1>3. chan[c] \in Seq(Messages) /\ got[c] \in Seq(Messages) /\ n \in Nat /\ g \in Nat
  BY ReceivedTypes
<1>4. Passed(c) = g + n
  BY DEF Passed
<1>5. CASE chan[c] = <<>>
  <2>1. ~reader[c] /\ pc'[c] = "done" /\ chan' = chan /\ got' = got /\ n = 0
    BY <1>2, <1>5 DEF Consume, Returns, Goto
  <2>2. ~Failed(c) /\ ~Failed(c)'
    BY <2>1 DEF Failed
  <2>3. IsStream(c) => id[c] \in DOMAIN sent /\ g = sent[id[c]] /\ Through(c)
    <3>1. g + 0 = g
      BY <1>3
    <3> QED BY <1>1, <1>4, <2>1, <2>2, <3>1 DEF Kept, Through
  <2>4. IsStream(c) => Through(c)'
    BY <1>1, <2>1, <2>2, <2>3 DEF Through
  <2> QED BY <1>1, <2>1, <2>4 DEF Kept, Listening
<1>6. CASE chan[c] # <<>>
  <2>1. /\ n > 0 /\ h = chan[c][1] /\ h \in Messages
        /\ Len(Tail(chan[c])) = n - 1
        /\ \A k \in 1..n - 1 : Tail(chan[c])[k] = chan[c][k + 1]
    BY <1>3, <1>6
  <2>2. chan'[c] = Tail(chan[c]) /\ Len(chan'[c]) = n - 1
    BY <1>2, <1>6, <2>1 DEF Consume
  <2>3. CASE h.what = "chunk"
    <3>1. pc' = pc /\ outcome' = outcome /\ got'[c] = Append(got[c], h)
      BY <1>2, <1>6, <2>3 DEF Consume, Stays
    <3>2. /\ Len(got'[c]) = g + 1 /\ got'[c][g + 1] = h
          /\ \A k \in 1..g : got'[c][k] = got[c][k]
      BY <1>3, <2>1, <3>1, AppendProperties
    <3>3. Passed(c)' = Passed(c)
      <4>1. Passed(c)' = (g + 1) + (n - 1)
        BY <2>2, <3>2 DEF Passed
      <4> HIDE DEF n, g
      <4> QED BY <1>3, <1>4, <4>1
    <3>4. Failed(c)' = Failed(c)
      <4>1. CASE n = 1
        BY <2>1, <2>2, <2>3, <4>1 DEF Failed
      <4>2. CASE n # 1
        <5>1. n - 1 \in 1..n - 1 /\ (n - 1) + 1 = n
          <6> HIDE DEF n, g
          <6> QED BY <1>3, <2>1, <4>2
        <5>2. chan'[c][n - 1] = chan[c][n]
          BY <2>1, <2>2, <5>1
        <5> QED BY <1>3, <2>1, <2>2, <5>1, <5>2 DEF Failed
      <4> QED BY <4>1, <4>2
    <3>5. Listening(c) => Pending(c)'
      <4>1. \A x : Due(c, x)' = Due(c, x)
        BY <1>1, <3>3 DEF Due, InStdout
      <4> QED BY <1>1, <3>3, <4>1 DEF Kept, Pending
    <3>6. ASSUME IsStream(c) PROVE Through(c)'
      <4>1. Through(c)
        BY <3>6 DEF Kept
      <4>2. h.n = g + 1
        <5>1. ~(1 = n /\ Failed(c)) /\ 1 \in 1..n
          BY <1>3, <2>1, <2>3 DEF Failed
        <5> QED BY <2>1, <4>1, <5>1 DEF Through
      <4>3. \A k \in 1..Len(got'[c]) : got'[c][k].n = k
        <5>1. \A k \in 1..g + 1 : k \in 1..g \/ k = g + 1
          BY <1>3
        <5> QED BY <3>2, <4>1, <4>2, <5>1 DEF Through
      <4>4. ASSUME NEW k \in 1..n - 1
            PROVE  IF k = n - 1 /\ Failed(c) THEN ~reader[c]
                   ELSE chan'[c][k].what = "chunk" /\ chan'[c][k].n = (g + 1) + k
        <5>1. k + 1 \in 1..n /\ (k + 1 = n <=> k = n - 1) /\ (g + 1) + k = g + (k + 1)
          <6> HIDE DEF n, g
          <6> QED BY <1>3
        <5>2. chan'[c][k] = chan[c][k + 1]
          BY <2>1, <2>2
        <5> QED BY <4>1, <5>1, <5>2 DEF Through
      <4> QED BY <1>1, <2>2, <3>1, <3>2, <3>3, <3>4, <4>1, <4>3, <4>4 DEF Through
    <3> QED BY <1>1, <3>1, <3>5, <3>6 DEF Kept, Listening
  <2>4. CASE h.what # "chunk"
    <3>1. pc'[c] = "done" /\ outcome'[c] # "ok" /\ got' = got
      BY <1>2, <1>6, <2>4 DEF Consume, Returns, Goto
    <3>2. ASSUME IsStream(c) PROVE Through(c)'
      <4>1. Through(c)
        BY <3>2 DEF Kept
      <4>2. n = 1
        <5>1. 1 \in 1..n
          BY <1>3, <2>1
        <5> QED BY <2>1, <2>4, <4>1, <5>1 DEF Through
      <4>3. chan'[c] = <<>>
        <5>1. Tail(chan[c]) \in Seq(Messages) /\ Len(Tail(chan[c])) = 0
          BY <1>3, <1>6, <2>1, <4>2
        <5> QED BY <2>2, <5>1, EmptySeq
      <4> QED BY <1>1, <3>1, <4>1, <4>3, DoneThrough
    <3> QED BY <1>1, <3>1, <3>2 DEF Kept, Listening
  <2> QED BY <2>3, <2>4
<1> QED BY <1>5, <1>6

\* Of the first frame of stdout, m, which its reader takes out.
LEMMA HeadTaken ==
    ASSUME TypeOK, NEW c \in Tasks, ReadBody(c)
    PROVE  /\ UNCHANGED <<kind, id, stdin, host, sent>>
           /\ 1 \in 1..Len(stdout) /\ Head(stdout) = stdout[1] /\ stdout[1] \in Messages
           /\ \A k \in 1..Len(stdout') :
                 k + 1 \in 1..Len(stdout) /\ 1 < k + 1 /\ stdout'[k] = stdout[k + 1]
           /\ \A k \in 1..Len(stdout) :
                 k = 1 \/ (1 < k /\ k - 1 \in 1..Len(stdout') /\ stdout'[k - 1] = stdout[k])
<1>1. stdout \in Seq(Messages) /\ stdout # <<>> /\ stdout' = Tail(stdout)
  BY DEF TypeOK, ReadBody
<1>2. UNCHANGED <<kind, id, stdin, host, sent>>
  BY DEF ReadBody, callerVars, hostVars
<1> QED BY <1>1, <1>2

LEMMA InStdoutTaken ==
    ASSUME TypeOK, NEW c \in Tasks, ReadBody(c), NEW x, InStdout(id[c], x),
           ~(stdout[1].what = "chunk" /\ stdout[1].id = id[c] /\ stdout[1].n = x)
    PROVE  InStdout(id[c], x)'
<1>1. PICK k \in 1..Len(stdout) :
          stdout[k].what = "chunk" /\ stdout[k].id = id[c] /\ stdout[k].n = x
  BY DEF InStdout
<1>2. k - 1 \in 1..Len(stdout') /\ stdout'[k - 1] = stdout[k] /\ id' = id
  BY <1>1, HeadTaken
<1> QED BY <1>1, <1>2 DEF InStdout

\* A frame that is no chunk of c takes nothing from it.
LEMMA PendingTaken ==
    ASSUME TypeOK, NEW c \in Tasks, ReadBody(c), Pending(c), Passed(c)' = Passed(c),
           stdout[1].id # id[c] \/ stdout[1].what # "chunk"
    PROVE  Pending(c)'
<1>1. UNCHANGED <<kind, id, stdin, host, sent>>
  BY HeadTaken
<1>2. \A x : Due(c, x) => Due(c, x)'
  BY InStdoutTaken DEF Due
<1>3. \A k \in 1..Len(stdout') :
          stdout'[k].what = "chunk" /\ stdout'[k].id = id[c] =>
              stdout'[k].n > Passed(c) /\ Due(c, stdout'[k].n)
  <2> SUFFICES ASSUME NEW k \in 1..Len(stdout'),
                      stdout'[k].what = "chunk", stdout'[k].id = id[c]
               PROVE  stdout'[k].n > Passed(c) /\ Due(c, stdout'[k].n)
    OBVIOUS
  <2>1. k + 1 \in 1..Len(stdout) /\ stdout'[k] = stdout[k + 1]
    BY HeadTaken
  <2> QED BY <2>1 DEF Pending
<1> QED BY <1>1, <1>2, <1>3 DEF Pending

\* The first chunk of a stream somebody listens to is the next one.
LEMMA NextChunk ==
    ASSUME TypeOK, Pipe, NEW c \in Tasks, ReadBody(c), Pending(c),
           stdout[1].id = id[c], stdout[1].what = "chunk"
    PROVE  stdout[1].n = Passed(c) + 1
<1>1. 1 \in 1..Len(stdout) /\ stdout[1] \in Messages
  BY HeadTaken
<1>2. stdout[1].n \in Nat /\ Passed(c) \in Nat
  BY <1>1, ReceivedTypes DEF Messages
<1>3. stdout[1].n > Passed(c) /\ Due(c, stdout[1].n)
  BY <1>1 DEF Pending
<1>4. SUFFICES ASSUME stdout[1].n > Passed(c) + 1 PROVE FALSE
  BY <1>2, <1>3
<1>5. Passed(c) + 1 \in Passed(c) + 1..stdout[1].n
  BY <1>2, <1>4
<1>6. PICK k \in 1..Len(stdout) : stdout[k].what = "chunk" /\ stdout[k].id = id[c]
                                 /\ stdout[k].n = Passed(c) + 1
  BY <1>3, <1>5 DEF Due, InStdout
<1>7. 1 < k
  BY <1>2, <1>4, <1>6, HeadTaken
<1>8. stdout[1].n < stdout[k].n
  BY <1>1, <1>6, <1>7 DEF Pipe, Frames
<1> QED BY <1>2, <1>4, <1>6, <1>8

\* It is passed on, and the rest is still to come.
LEMMA PendingChunk ==
    ASSUME TypeOK, Pipe, NEW c \in Tasks, ReadBody(c), Pending(c),
           stdout[1].id = id[c], stdout[1].what = "chunk",
           Passed(c)' = Passed(c) + 1
    PROVE  Pending(c)'
<1> DEFINE P == Passed(c)
<1>1. UNCHANGED <<kind, id, stdin, host, sent>>
      /\ 1 \in 1..Len(stdout) /\ stdout[1] \in Messages
  BY HeadTaken
<1>2. P \in Nat /\ stdout[1].n = P + 1
  BY ReceivedTypes, NextChunk
<1>3. ASSUME NEW t \in Nat, Due(c, t), P + 1 <= t PROVE Due(c, t)'
  <2>1. \A x \in Passed(c)' + 1..t : InStdout(id[c], x) /\ x # P + 1
    <3>1. \A x \in (P + 1) + 1..t : x \in P + 1..t /\ x # P + 1
      <4> HIDE DEF P
      <4> QED BY <1>2, <1>3
    <3> QED BY <1>3, <3>1 DEF Due
  <2>2. \A x \in Passed(c)' + 1..t : InStdout(id[c], x)'
    BY <1>2, <2>1, InStdoutTaken
  <2> QED BY <1>1, <1>3, <2>2 DEF Due
<1>4. ASSUME NEW k \in 1..Len(stdout'), stdout'[k].what = "chunk", stdout'[k].id = id[c]
      PROVE  stdout'[k].n > P + 1 /\ Due(c, stdout'[k].n) /\ stdout'[k].n \in Nat
  <2>1. k + 1 \in 1..Len(stdout) /\ 1 < k + 1 /\ stdout'[k] = stdout[k + 1]
    BY HeadTaken
  <2>2. stdout[1].n < stdout[k + 1].n
    BY <1>1, <1>4, <2>1 DEF Pipe, Frames
  <2>3. Due(c, stdout[k + 1].n)
    BY <1>4, <2>1 DEF Pending
  <2>4. stdout[k + 1] \in Messages
    BY <2>1 DEF TypeOK
  <2>5. stdout[k + 1].n \in Nat
    BY <2>4 DEF Messages
  <2> QED BY <1>2, <2>1, <2>2, <2>3, <2>5
<1>5. \A k \in 1..Len(stdout') :
          stdout'[k].what = "chunk" /\ stdout'[k].id = id[c] =>
              stdout'[k].n > Passed(c)' /\ Due(c, stdout[k].n)'
  <2> SUFFICES ASSUME NEW k \in 1..Len(stdout'),
                      stdout'[k].what = "chunk", stdout'[k].id = id[c]
               PROVE  stdout'[k].n > Passed(c)' /\ Due(c, stdout[k].n)'
    OBVIOUS
  <2>1. stdout'[k].n > P + 1 /\ Due(c, stdout'[k].n) /\ stdout'[k].n \in Nat
    BY <1>4
  <2>2. P + 1 <= stdout'[k].n
    BY <1>2, <2>1
  <2>3. Due(c, stdout[k].n)'
    BY <1>3, <2>1, <2>2 DEF Due
  <2> QED BY <2>1, <2>3
<1>6. host.id = id[c] => Due(c, host.n)'
  <2> SUFFICES ASSUME host.id = id[c] PROVE Due(c, host.n)'
    OBVIOUS
  <2>1. host.n \in Nat /\ Due(c, host.n)
    BY DEF TypeOK, Pending
  <2>2. P + 1 <= host.n
    BY <1>1, <1>2 DEF Pipe, Frames
  <2> QED BY <1>1, <1>3, <2>1, <2>2 DEF Due, InStdout
<1>7. id[c] \in DOMAIN sent => Due(c, sent[id[c]])'
  <2> SUFFICES ASSUME id[c] \in DOMAIN sent PROVE Due(c, sent[id[c]])'
    OBVIOUS
  <2>1. sent[id[c]] \in Nat /\ Due(c, sent[id[c]])
    BY DEF Pipe, Frames, Pending
  <2>2. P + 1 <= sent[id[c]]
    BY <1>1, <1>2 DEF Pipe, Frames
  <2> QED BY <1>1, <1>3, <2>1, <2>2 DEF Due, InStdout
<1>8. \A k \in 1..Len(stdin) : stdin[k].id # id[c]
  BY <1>1 DEF Pipe, Places
<1> QED BY <1>1, <1>5, <1>6, <1>7, <1>8 DEF Pending

LEMMA ChunkKept ==
    ASSUME TypeOK, Pipe, Owner, NEW c \in Tasks, Kept(c), ReadBody(c),
           reader[c], pc[c] # "read", stdout[1].id = id[c], stdout[1].what = "chunk",
           SendChunk(c, stdout[1]), UNCHANGED got, Stays,
           IF pc[c] = "stream" THEN UNCHANGED <<rpc, reader>> ELSE EndReader(c)
    PROVE  Kept(c)'
<1> DEFINE n == Len(chan[c])
           g == Len(got[c])
           m == stdout[1]
<1>1. /\ UNCHANGED <<kind, id, pc, outcome, got, sent>> /\ IsStream(c)' = IsStream(c)
      /\ m \in Messages
  BY HeadTaken DEF Stays, IsStream
<1>2. /\ reader \in [Tasks -> BOOLEAN] /\ chan \in [Tasks -> Seq(Messages)]
      /\ chan[c] \in Seq(Messages) /\ n \in Nat /\ g \in Nat
  BY ReceivedTypes DEF TypeOK
<1>3. CASE pc[c] = "stream"
  <2>1. reader'[c] /\ chan'[c] = Append(chan[c], m)
    BY <1>2, <1>3 DEF SendChunk
  <2>2. /\ Len(chan'[c]) = n + 1 /\ chan'[c][n + 1] = m
        /\ \A k \in 1..n : chan'[c][k] = chan[c][k]
    <3> HIDE DEF m
    <3> QED BY <1>1, <1>2, <2>1, AppendProperties
  <2>3. Passed(c) = g + n /\ Passed(c)' = Passed(c) + 1
    <3>1. Passed(c) = g + n /\ Passed(c)' = g + (n + 1)
      BY <1>1, <2>2 DEF Passed
    <3> HIDE DEF n, g
    <3> QED BY <1>2, <3>1
  <2>4. Pending(c)
    BY <1>3 DEF Kept, Listening
  <2>5. Pending(c)'
    BY <2>3, <2>4, PendingChunk
  <2>6. m.n = g + (n + 1)
    <3>1. m.n = (g + n) + 1
      BY <2>3, <2>4, NextChunk
    <3> HIDE DEF n, g, m
    <3> QED BY <1>2, <3>1
  <2>7. ASSUME IsStream(c) PROVE Through(c)'
    <3>1. Through(c)
      BY <2>7 DEF Kept
    <3>2. ~Failed(c)'
      BY <2>2 DEF Failed
    <3>3. ASSUME NEW k \in 1..n + 1
          PROVE  chan'[c][k].what = "chunk" /\ chan'[c][k].n = g + k
      <4>1. CASE k \in 1..n
        BY <2>2, <3>1, <4>1 DEF Through
      <4>2. CASE k = n + 1
        BY <2>2, <2>6, <4>2
      <4> QED BY <1>2, <4>1, <4>2
    <3> QED BY <1>1, <1>3, <2>1, <2>2, <3>1, <3>2, <3>3 DEF Through
  <2> QED BY <1>1, <1>3, <2>5, <2>7 DEF Kept
<1>4. CASE pc[c] # "stream"
  <2>1. reader'[c] = FALSE /\ chan' = chan
    BY <1>2, <1>4 DEF SendChunk, EndReader
  <2>2. Failed(c)' = Failed(c) /\ Passed(c)' = Passed(c)
    BY <1>1, <2>1 DEF Failed, Passed
  <2>3. IsStream(c) => Through(c)'
    <3>1. IsStream(c) => Through(c)
      BY DEF Kept
    <3> QED BY <1>1, <1>4, <2>1, <2>2, <3>1 DEF Through
  <2> QED BY <1>1, <2>1, <2>3 DEF Kept, Listening
<1> QED BY <1>3, <1>4

\* The end comes behind every chunk: nothing is missing then.
LEMMA EndKept ==
    ASSUME TypeOK, Pipe, Owner, NEW c \in Tasks, Kept(c), ReadBody(c),
           reader[c], pc[c] # "read", stdout[1].id = id[c], stdout[1].what = "end",
           OnEnd(c), UNCHANGED got
    PROVE  Kept(c)'
<1>1. /\ UNCHANGED <<kind, id, got, chan, sent>> /\ IsStream(c)' = IsStream(c)
      /\ 1 \in 1..Len(stdout)
  BY HeadTaken DEF OnEnd, IsStream
<1>2. /\ reader \in [Tasks -> BOOLEAN] /\ pc \in [Tasks -> PC]
      /\ outcome \in [Tasks -> {"none", "ok", "failed", "timeout", "left",
                                "protocol", "notRunning"}]
  BY DEF TypeOK
<1>3. reader'[c] = FALSE
  BY <1>2 DEF OnEnd, EndReader
<1>4. Failed(c)' = Failed(c) /\ Passed(c)' = Passed(c)
  BY <1>1 DEF Failed, Passed
<1>5. id[c] \in DOMAIN sent
  BY <1>1 DEF Pipe, Frames
<1>6. CASE pc[c] = "stream"
  <2>1. pc' = pc /\ outcome' = outcome
    BY <1>6 DEF OnEnd, Stays
  <2>2. Due(c, sent[id[c]]) /\ sent[id[c]] \in Nat /\ Passed(c) \in Nat
    BY <1>5, <1>6, ReceivedTypes DEF Kept, Listening, Pending, Pipe, Frames
  <2>3. Passed(c) = sent[id[c]]
    <3> SUFFICES ASSUME Passed(c) < sent[id[c]] PROVE FALSE
      BY <2>2 DEF Due
    <3>1. Passed(c) + 1 \in Passed(c) + 1..sent[id[c]]
      BY <2>2
    <3>2. PICK k \in 1..Len(stdout) : stdout[k].what = "chunk" /\ stdout[k].id = id[c]
      BY <2>2, <3>1 DEF Due, InStdout
    <3>3. 1 < k
      BY <3>2, HeadTaken
    <3> QED BY <1>1, <3>2, <3>3 DEF Pipe, Frames
  <2>4. IsStream(c) => Through(c)'
    <3>1. IsStream(c) => Through(c)
      BY DEF Kept
    <3> QED BY <1>1, <1>3, <1>4, <1>5, <1>6, <2>1, <2>3, <3>1 DEF Through
  <2> QED BY <1>1, <1>3, <1>6, <2>1, <2>4 DEF Kept, Listening
<1>7. CASE pc[c] # "stream"
  <2>1. pc[c] \in {"start", "done"}
    BY <1>7 DEF Owner
  <2>2. pc'[c] = "done" /\ (outcome'[c] = "ok" => outcome[c] = "ok")
    BY <1>2, <2>1 DEF OnEnd, Returns, Goto, Stays
  <2>3. IsStream(c) => Through(c)'
    BY <1>1, <1>3, <2>2, DoneThrough DEF Kept
  <2> QED BY <1>1, <2>2, <2>3 DEF Kept, Listening
<1> QED BY <1>6, <1>7

\* A frame of somebody else is skipped, and the result starts the stream.
LEMMA SkipKept ==
    ASSUME TypeOK, NEW c \in Tasks, Kept(c), ReadBody(c),
           reader[c], stdout[1].id # id[c] \/ stdout[1].what # "chunk",
           UNCHANGED <<reader, chan, got, outcome>>,
           pc'[c] = pc[c] \/ (pc[c] = "start" /\ pc'[c] = "stream")
    PROVE  Kept(c)'
<1>1. UNCHANGED <<kind, id, sent>> /\ IsStream(c)' = IsStream(c)
  BY HeadTaken DEF IsStream
<1>2. Failed(c)' = Failed(c) /\ Passed(c)' = Passed(c)
  BY DEF Failed, Passed
<1>3. Listening(c)' => Pending(c)'
  BY <1>2, PendingTaken DEF Kept, Listening
<1>4. IsStream(c) => Through(c)'
  <2>1. IsStream(c) => Through(c)
    BY DEF Kept
  <2> QED BY <1>1, <1>2, <2>1 DEF Through
<1> QED BY <1>1, <1>3, <1>4 DEF Kept

LEMMA BodyKept ==
    ASSUME TypeOK, Pipe, Owner, NEW c \in Tasks, Kept(c), ReadBody(c)
    PROVE  Kept(c)'
<1> DEFINE m == Head(stdout)
<1>1. /\ UNCHANGED <<kind, id, sent>> /\ IsStream(c)' = IsStream(c) /\ Reads(c)
      /\ m = stdout[1]
  BY HeadTaken DEF IsStream, ReadBody
<1>2. ASSUME Fail(c, "failed"), UNCHANGED got PROVE Kept(c)'
  BY <1>1, <1>2, FailKept
<1>3. CASE pc[c] = "read"
  <2>1. ~IsStream(c)
    BY <1>3 DEF Kept, Through
  <2>2. CASE ~(Fail(c, "failed") /\ UNCHANGED got)
    <3>1. /\ pc'[c] \in {"read", "kill", "done"}
          /\ pc'[c] = "kill" => kind[c] = "shutdown"
      BY <1>3, <2>2 DEF ReadBody, CallReads, Returns, Goto, Stays, TypeOK
    <3> QED BY <1>1, <2>1, <3>1 DEF Kept, Listening
  <2> QED BY <1>2, <2>2
<1>4. CASE pc[c] # "read"
  <2>1. reader[c] /\ StreamReads(c, m)
    BY <1>1, <1>4 DEF Reads, ReadBody
  <2>2. CASE m.id # id[c] /\ Stays /\ UNCHANGED <<reader, chan>>
    BY <1>1, <2>1, <2>2, SkipKept DEF StreamReads, Stays
  <2>3. CASE /\ m.id = id[c] /\ m.what = "result" /\ UNCHANGED <<outcome, reader, chan>>
             /\ IF pc[c] = "start" THEN Goto(c, "stream") ELSE UNCHANGED pc
    <3>1. pc'[c] = pc[c] \/ (pc[c] = "start" /\ pc'[c] = "stream")
      BY <2>3 DEF Goto, TypeOK
    <3> QED BY <1>1, <2>1, <2>3, <3>1, SkipKept DEF StreamReads
  <2>4. CASE Fail(c, "failed")
    BY <1>2, <2>1, <2>4 DEF StreamReads
  <2>5. CASE /\ m.id = id[c] /\ m.what = "chunk" /\ SendChunk(c, m) /\ Stays
             /\ IF pc[c] = "stream" THEN UNCHANGED <<rpc, reader>> ELSE EndReader(c)
    BY <1>1, <1>4, <2>1, <2>5, ChunkKept DEF StreamReads
  <2>6. CASE m.id = id[c] /\ m.what = "end" /\ OnEnd(c)
    BY <1>1, <1>4, <2>1, <2>6, EndKept DEF StreamReads
  <2> QED BY <2>1, <2>2, <2>3, <2>4, <2>5, <2>6 DEF StreamReads
<1> QED BY <1>3, <1>4

LEMMA ReceivingWhole ==
    ASSUME TypeOK, Pipe, Owner, Whole, NEW c \in Tasks, Receives(c)
    PROVE  Whole'
<1>1. Kept(c)
  BY DEF Whole
<1>2. ASSUME ReadOrphan(c) \/ ReadEnd(c) PROVE Kept(c)'
  <2>1. /\ Reads(c) /\ UNCHANGED <<kind, id, got, sent>>
        /\ Fail(c, "protocol") \/ Fail(c, "notRunning")
    BY <1>2 DEF ReadOrphan, ReadEnd, callerVars, hostVars
  <2> QED BY <1>1, <2>1, FailKept
<1>3. Kept(c)'
  BY <1>1, <1>2, LeavesKept, ConsumeKept, BodyKept DEF Receives, Reading
<1> QED BY <1>3, OthersKept DEF Whole

LEMMA HostTakesWhole ==
    ASSUME TypeOK, Pipe, Whole, HostTakes
    PROVE  Whole'
<1> USE DEF hostOnly, callerVars
<1>1. UNCHANGED <<kind, id, pc, reader, chan, got, outcome, stdout, sent>>
  BY DEF HostTakes
<1>2. stdin \in Seq(Requests) /\ stdin # <<>> /\ stdin' = Tail(stdin)
  BY DEF HostTakes, TypeOK
<1>3. /\ host'.id = stdin[1].id /\ host'.n = 0
      /\ 1 \in 1..Len(stdin)
      /\ \A k \in 1..Len(stdin') : k + 1 \in 1..Len(stdin) /\ stdin'[k] = stdin[k + 1]
  BY <1>2 DEF HostTakes, Idle
<1>4. ASSUME NEW d \in Tasks PROVE Kept(d)'
  <2>1. /\ Passed(d)' = Passed(d) /\ Failed(d)' = Failed(d)
        /\ Listening(d)' = Listening(d) /\ IsStream(d)' = IsStream(d)
    BY <1>1 DEF Passed, Failed, Listening, IsStream
  <2>2. Through(d) => Through(d)'
    BY <1>1, <2>1 DEF Through
  <2>3. ASSUME Pending(d) PROVE Pending(d)'
    <3>1. \A x : Due(d, x)' = Due(d, x)
      BY <1>1, <2>1 DEF Due, InStdout
    <3>2. host'.id = id[d] => Due(d, host.n)'
      <4> SUFFICES ASSUME host'.id = id[d] PROVE Due(d, host.n)'
        OBVIOUS
      <4>1. Passed(d) = 0
        BY <1>3, <2>3 DEF Pending
      <4> QED BY <1>3, <2>1, <4>1 DEF Due
    <3>3. \A k \in 1..Len(stdin') : stdin'[k].id = id[d] => Passed(d) = 0
      BY <1>3, <2>3 DEF Pending
    <3> QED BY <1>1, <2>1, <2>3, <3>1, <3>2, <3>3 DEF Pending
  <2> QED BY <1>1, <2>1, <2>2, <2>3 DEF Kept, Whole
<1> QED BY <1>4 DEF Whole

\* What the host sends is in stdout, and its end does not take it back.
LEMMA HostSaysWhole ==
    ASSUME TypeOK, TypeOK', Pipe, Whole,
           HostAnswers \/ HostStarts \/ HostSendsChunk \/ HostEnds
    PROVE  Whole'
<1> USE DEF callerVars, hostOnly
<1> DEFINE n == Len(stdout)
<1>1. /\ UNCHANGED <<kind, id, pc, reader, chan, got, outcome, stdin>>
      /\ n \in Nat /\ Len(stdout') \in Nat /\ Len(stdout') > n
      /\ \A k \in 1..n : stdout'[k] = stdout[k]
      /\ \A k \in n + 1..Len(stdout') :
            /\ stdout'[k].id = host.id
            /\ stdout'[k].what = "chunk" => HostSendsChunk /\ stdout'[k].n = host.n + 1
      /\ HostSendsChunk => Len(stdout') = n + 1 /\ stdout'[n + 1].what = "chunk"
  BY HostSays
<1>2. \A k \in 1..Len(stdout') : k \in 1..n \/ k \in n + 1..Len(stdout')
  BY <1>1
<1>3. \A i, x : InStdout(i, x) => InStdout(i, x)'
  <2> SUFFICES ASSUME NEW i, NEW x, InStdout(i, x) PROVE InStdout(i, x)'
    OBVIOUS
  <2>1. PICK k \in 1..n : stdout[k].what = "chunk" /\ stdout[k].id = i /\ stdout[k].n = x
    BY DEF InStdout
  <2>2. k \in 1..Len(stdout') /\ stdout'[k] = stdout[k]
    BY <1>1
  <2> QED BY <2>1, <2>2 DEF InStdout
<1>4. \A i, x : HostSendsChunk /\ i = host.id /\ x = host.n + 1 => InStdout(i, x)'
  <2> SUFFICES ASSUME NEW i, NEW x, HostSendsChunk, i = host.id, x = host.n + 1
               PROVE  InStdout(i, x)'
    OBVIOUS
  <2>1. n + 1 \in 1..Len(stdout') /\ n + 1 \in n + 1..Len(stdout')
    BY <1>1
  <2> QED BY <1>1, <2>1 DEF InStdout
<1>5. host.n \in Nat /\ host.id \notin DOMAIN sent /\ host.id # 0 /\ Idle.id = 0
  <2>1. host # Idle
    BY DEF HostAnswers, HostStarts, HostSendsChunk, HostEnds, HostBusy
  <2> QED BY <2>1 DEF TypeOK, Pipe, Places, Ids, Idle
<1>6. \/ host'.id = 0
      \/ host'.id = host.id /\ host'.n = host.n
      \/ HostSendsChunk /\ host'.id = host.id /\ host'.n = host.n + 1
  <2>1. host \in [id : Nat, kind : Kinds, n : 0..MaxChunks, started : BOOLEAN]
    BY DEF TypeOK
  <2> QED BY <1>5, <2>1 DEF HostAnswers, HostStarts, HostSendsChunk, HostEnds
<1>7. /\ \A i \in DOMAIN sent : i \in DOMAIN sent' /\ sent'[i] = sent[i]
      /\ \A i \in DOMAIN sent' : i \in DOMAIN sent \/ (i = host.id /\ sent'[i] = host.n)
  <2>1. CASE HostEnds
    BY <1>5, <2>1 DEF HostEnds
  <2>2. CASE ~HostEnds
    BY <2>2 DEF HostAnswers, HostStarts, HostSendsChunk
  <2> QED BY <2>1, <2>2
<1>8. ASSUME NEW d \in Tasks PROVE Kept(d)'
  <2>1. /\ Passed(d)' = Passed(d) /\ Failed(d)' = Failed(d) /\ Passed(d) \in Nat
        /\ Listening(d)' = Listening(d) /\ IsStream(d)' = IsStream(d)
    BY <1>1, ReceivedTypes DEF Passed, Failed, Listening, IsStream
  <2>2. Through(d) => Through(d)'
    BY <1>1, <1>7, <2>1 DEF Through
  <2>3. ASSUME Pending(d), Listening(d) PROVE Pending(d)'
    <3>1. id[d] # 0
      BY <2>3 DEF Pipe, Ids, Listening
    <3>2. \A t : Due(d, t) => Due(d, t)'
      BY <1>1, <1>3, <2>1 DEF Due
    <3>3. ASSUME HostSendsChunk, host.id = id[d], NEW t, t = host.n + 1
          PROVE  t > Passed(d) /\ Due(d, t)'
      <4>1. Due(d, host.n)
        BY <2>3, <3>3 DEF Pending
      <4>2. \A x \in Passed(d) + 1..t : x \in Passed(d) + 1..host.n \/ x = t
        BY <1>5, <2>1, <3>3
      <4>3. \A x \in Passed(d) + 1..t : InStdout(id[d], x)'
        <5>1. \A x \in Passed(d) + 1..host.n : InStdout(id[d], x)
          BY <4>1 DEF Due
        <5> QED BY <1>1, <1>3, <1>4, <3>3, <4>2, <5>1
      <4>4. Passed(d) <= t /\ t > Passed(d)
        BY <1>5, <2>1, <3>3, <4>1 DEF Due
      <4> QED BY <1>1, <2>1, <4>3, <4>4 DEF Due
    <3>4. \A k \in 1..Len(stdout') :
            stdout'[k].what = "chunk" /\ stdout'[k].id = id[d] =>
                stdout'[k].n > Passed(d) /\ Due(d, stdout[k].n)'
      <4> SUFFICES ASSUME NEW k \in 1..Len(stdout'),
                          stdout'[k].what = "chunk", stdout'[k].id = id[d]
                   PROVE  stdout'[k].n > Passed(d) /\ Due(d, stdout[k].n)'
        OBVIOUS
      <4>1. CASE k \in 1..n
        <5>1. stdout'[k] = stdout[k]
          BY <1>1, <4>1
        <5>2. stdout[k].n > Passed(d) /\ Due(d, stdout[k].n)
          BY <2>3, <4>1, <5>1 DEF Pending
        <5> QED BY <3>2, <5>1, <5>2 DEF Due
      <4>2. CASE k \in n + 1..Len(stdout')
        <5>1. HostSendsChunk /\ stdout'[k].n = host.n + 1 /\ host.id = id[d]
          BY <1>1, <4>2
        <5> QED BY <3>3, <5>1 DEF Due
      <4> QED BY <1>2, <4>1, <4>2
    <3>5. host'.id = id[d] => Due(d, host.n)'
      <4> SUFFICES ASSUME host'.id = id[d] PROVE Due(d, host.n)'
        OBVIOUS
      <4>1. host.id = id[d]
        BY <1>6, <3>1
      <4>2. Due(d, host.n)
        BY <2>3, <4>1 DEF Pending
      <4> QED BY <1>6, <3>1, <3>2, <3>3, <4>1, <4>2 DEF Due
    <3>6. id[d] \in DOMAIN sent' => Due(d, sent[id[d]])'
      <4> SUFFICES ASSUME id[d] \in DOMAIN sent' PROVE Due(d, sent[id[d]])'
        OBVIOUS
      <4>1. Due(d, sent'[id[d]])
        BY <1>7, <2>3 DEF Pending
      <4> QED BY <1>1, <3>2, <4>1 DEF Due
    <3> QED BY <1>1, <2>1, <2>3, <3>4, <3>5, <3>6 DEF Pending
  <2> QED BY <1>1, <2>1, <2>2, <2>3 DEF Kept, Whole
<1> QED BY <1>8 DEF Whole

LEMMA NextWhole ==
    TypeOK /\ TypeOK' /\ Owner /\ Pipe /\ Whole /\ [Next]_vars => Whole'
<1> SUFFICES ASSUME TypeOK, TypeOK', Owner, Pipe, Whole, [Next]_vars PROVE Whole'
  OBVIOUS
<1>1. ASSUME HostDies \/ UNCHANGED vars PROVE Whole'
  <2>1. /\ UNCHANGED <<kind, id, pc, reader, chan, got, outcome, stdin, stdout, sent>>
        /\ host' = host \/ host' = Idle
    BY <1>1 DEF HostDies, hostOnly, callerVars, vars
  <2>2. ASSUME NEW d \in Tasks PROVE Kept(d)'
    <3>1. Same(d)
      BY <2>1 DEF Same
    <3> QED BY <2>1, <3>1, SameKept DEF Pipe, Whole
  <2> QED BY <2>2 DEF Whole
<1>2. CASE \E c \in Tasks : Enter(c) \/ Lock(c)
  BY <1>2, EnterWhole
<1>3. CASE \E c \in Tasks : Write(c)
  BY <1>3, WriteWhole
<1>4. CASE \E c \in Tasks : Receives(c)
  BY <1>4, ReceivingWhole
<1>5. CASE HostStep
  BY <1>5, HostTakesWhole, HostSaysWhole DEF HostStep
<1> QED BY <1>1, <1>2, <1>3, <1>4, <1>5 DEF Next, Step, Receives

\* A stream that ends without an error has brought every chunk the host sent,
\* in order: a host that dies, a failure, and frames left over by those that gave
\* up never make a part of a stream look like the whole.
THEOREM StreamsArriveWhole == Spec => []StreamsAreComplete
<1>1. Init => Owner /\ Pipe /\ Whole
  <2>1. Init => Owner
    BY DEF Init, Owner
  <2>2. Init => Whole
    <3> SUFFICES ASSUME Init, NEW c \in Tasks PROVE Kept(c)
      BY DEF Whole
    <3>1. pc[c] = "idle" /\ chan[c] = <<>> /\ got[c] = <<>> /\ outcome[c] = "none"
          /\ ~reader[c]
      BY DEF Init
    <3>2. Passed(c) = 0 /\ ~Listening(c)
      BY <3>1 DEF Passed, Listening
    <3> QED BY <3>1, <3>2 DEF Kept, Through
  <2> QED BY <2>1, <2>2, PipeStarts
<1>2. Whole => StreamsAreComplete
  BY DEF Whole, Kept, Through, StreamsAreComplete
<1> QED BY <1>1, <1>2, NextOwner, NextPipe, NextWhole, TypeCorrect, PTL DEF Spec
=============================================================================
