----------------------- MODULE ResponsesStreamProofs -----------------------
(***************************************************************************)
(* ResponsesStream for any items and any channel: the types, that every    *)
(* event that ends something ends what is open (Bracketed), that an answer *)
(* which is said to end for its calls has one (AsksAgainForCalls), and     *)
(* that the message gets what was said (NothingLost).  The first follows   *)
(* what is open from the parser's state to the events that are not sent    *)
(* yet and on to those in the channel (Balanced); the others take the      *)
(* events in the channel and behind it as one sequence, Ahead, that a Send *)
(* does not change: HearingInv says what it may still tell of calls and of *)
(* the end, and FlowInv that what was said is either in the message or in  *)
(* it.                                                                     *)
(***************************************************************************)
EXTENDS ResponsesStream, FiniteSetTheorems, SequenceTheorems, TLAPS

\* What an item is tells where the parser has it.
ItemsTell ==
    /\ IsFiniteSet(ongoing) /\ IsFiniteSet(active)
    /\ \A i \in Items : kind[i] = "none" => i \notin open /\ i \notin active
    /\ \A i \in Items : i \in ongoing <=> kind[i] = "call" /\ i \in open

\* What the parser has begun and not ended.
OpenNow ==
    (IF textOpen THEN {<<"text", None>>} ELSE {})
    \cup {<<"input", i>> : i \in ongoing} \cup {<<"reasoning", i>> : i \in active}

Started(s) == {Bracket(s[n]) : n \in {m \in 1 .. Len(s) : Starts(s[m])}}
Ended(s, k) == {Bracket(s[n]) : n \in {m \in 1 .. k : Ends(s[m])}}

Balanced ==
    /\ \A n \in 1 .. Len(out) : Ends(out[n]) =>
          Bracket(out[n]) \in brackets /\ Bracket(out[n]) \notin Ended(out, n - 1)
    /\ \A n \in 1 .. Len(out) : Starts(out[n]) =>
          /\ n = 1
          /\ out[n].type # "reasoning_start" => Bracket(out[n]) \notin brackets
          /\ Ended(out, Len(out)) = {}
          /\ \A m \in 1 .. Len(out) : out[m].type # "finish_step"
    /\ \A n \in 1 .. Len(out) : out[n].type = "finish_step" =>
          /\ brackets \subseteq Ended(out, n - 1)
          /\ task = "closing"
    /\ task = "reading" => OpenNow = (brackets \cup Started(out)) \ Ended(out, Len(out))

\* All events that the loop may still hear, in their order.
Ahead == queue \o out
Heard == \E i \in Items : calls[i] = "whole"
CallAhead == \E n \in 1 .. Len(Ahead) : Ahead[n].type = "call_end"

\* A call whose end was heard, or is on its way, gets no more arguments.
Whole(i) == kind[i] = "call" /\ i \notin open
NoPart(i, n) ==
    \A m \in n .. Len(Ahead) : ~(Ahead[m].type = "input_delta" /\ Ahead[m].of = i)
CallsEnd ==
    /\ \A i \in Items : calls[i] = "whole" => Whole(i) /\ NoPart(i, 1)
    /\ \A n \in 1 .. Len(Ahead) : Ahead[n].type = "call_end" =>
          Whole(Ahead[n].of) /\ NoPart(Ahead[n].of, n)

Backed(r) == r = "tool-calls" => hasCall
AreLast(n) == \A m \in n .. Len(Ahead) : Ahead[m].type \in {"finish", "done"}
Finishes ==
    /\ reason = "tool-calls" => ending # "none" /\ Backed(reason)
    /\ \A n \in 1 .. Len(Ahead) : Ahead[n].type = "finish_step" =>
          task # "reading" /\ Backed(Ahead[n].of) /\ AreLast(n + 1)
    /\ finish # "none" => task # "reading" /\ AreLast(1)

\* The pieces of a kind that come through, in the message or on their way to it,
\* in their order: of the thoughts of a service that changes its ids, none does.
Sorts == {"message", "reasoning"}
Delta(k) == IF k = "message" THEN "text_delta" ELSE "reasoning_delta"
Told(k) == k = "message" \/ ~ rotates
Comes(k, p) == \E n \in 1 .. Len(Ahead) : Ahead[n].type = Delta(k) /\ Ahead[n].of = p
Flows(k) ==
    /\ \A n \in 1 .. Len(Ahead) : Ahead[n].type = Delta(k) =>
          /\ Told(k)
          /\ Ahead[n].of \in Pieces(k)
          /\ \A m \in 1 .. Len(body[k]) : body[k][m] < Ahead[n].of
    /\ \A m, n \in 1 .. Len(Ahead) :
          m < n /\ Ahead[m].type = Delta(k) /\ Ahead[n].type = Delta(k) =>
              Ahead[m].of < Ahead[n].of
    /\ Told(k) => \A p \in Pieces(k) : Holds(body[k], p) \/ Comes(k, p)

\* And the end of every call that the service finished.
EndsCome ==
    \A i \in Items : Whole(i) =>
        \/ calls[i] = "whole"
        \/ \E n \in 1 .. Len(Ahead) : Ahead[n].type = "call_end" /\ Ahead[n].of = i

ThoughtsKnown ==
    ~ rotates => \A i \in open : kind[i] = "reasoning" => i \in active

FlowInv ==
    /\ ThoughtsKnown
    /\ loop = "hearing" => (\A k \in Sorts : Flows(k)) /\ EndsCome
    /\ finish # "none" => task # "reading"
    /\ NothingLost

HearingInv == loop = "hearing" => (hasCall <=> Heard \/ CallAhead) /\ CallsEnd /\ Finishes

IInv == TypeOK /\ ItemsTell /\ Balanced /\ HearingInv /\ AsksAgainForCalls /\ FlowInv

-----------------------------------------------------------------------------
\* A set as a sequence: each of its elements is there, and no other and none
\* twice.
LEMMA SetAsSeq ==
  ASSUME NEW S, IsFiniteSet(S)
  PROVE  /\ SetToSeq(S) \in Seq(S)
         /\ \A m, n \in 1 .. Len(SetToSeq(S)) : SetToSeq(S)[m] = SetToSeq(S)[n] => m = n
         /\ \A x \in S : \E n \in 1 .. Len(SetToSeq(S)) : SetToSeq(S)[n] = x
<1> DEFINE k == Cardinality(S)
           q == SetToSeq(S)
<1>1. k \in Nat /\ ExistsBijection(1 .. k, S)
  BY FS_CardinalityType
<1>2. \E f \in [1 .. k -> S] : IsInjective(f)
  BY <1>1 DEF ExistsBijection, Bijection, Injection
<1>3. q \in [1 .. k -> S] /\ IsInjective(q)
  BY <1>2 DEF SetToSeq
<1>4. q \in Seq(S) /\ Len(q) = k /\ DOMAIN q = 1 .. k
  BY <1>1, <1>3
<1>5. IsFiniteSet(1 .. k) /\ Cardinality(1 .. k) = k
  BY <1>1, FS_Interval
<1>6. q \in Surjection(1 .. k, S)
  <2>1. q \in Injection(1 .. k, S)
    BY <1>3 DEF Injection
  <2> QED
    BY <1>1, <1>5, <2>1, FS_Injection
<1> QED
  BY <1>3, <1>4, <1>6 DEF IsInjective, Surjection

LEMMA EventsAreTyped ==
  /\ \A t \in {"start", "start_step", "text_start", "text_end", "finish", "done", "error", "err"} :
        Event(t, None) \in Events
  /\ \A t \in OfCalls \cup {"reasoning_start", "reasoning_end"} : \A i \in Items : Event(t, i) \in Events
  /\ \A t \in {"text_delta", "reasoning_delta"} : \A n \in Nat : Event(t, n) \in Events
  /\ \A r \in Reasons : Event("finish_step", r) \in Events
BY DEF Event, Events, EventTypes, OfCalls

LEMMA EventSeqs ==
  /\ <<>> \in Seq(Events)
  /\ \A e \in Events : <<e>> \in Seq(Events)
  /\ \A e, f \in Events : <<e, f>> \in Seq(Events)
OBVIOUS

LEMMA EventsHave ==
  ASSUME NEW e \in Events
  PROVE  /\ e.type \in EventTypes
         /\ e.type \in {"text_delta", "reasoning_delta"} => e.of \in Nat
         /\ e.type \in OfCalls \cup {"reasoning_start", "reasoning_end"} => e.of \in Items
         /\ e.type = "finish_step" => e.of \in Reasons
BY DEF Events

\* A finite set of items as events.
LEMMA EventSeq ==
  ASSUME NEW S \in SUBSET Items, IsFiniteSet(S), NEW t \in OfCalls \cup {"reasoning_start", "reasoning_end"}
  PROVE  LET q == SetToSeq({Event(t, i) : i \in S})
         IN /\ q \in Seq(Events)
            /\ \A n \in 1 .. Len(q) : q[n].type = t /\ q[n].of \in S
            /\ \A m, n \in 1 .. Len(q) : q[m].of = q[n].of => m = n
            /\ \A i \in S : \E n \in 1 .. Len(q) : q[n] = Event(t, i)
<1> DEFINE E == {Event(t, i) : i \in S}
           f == [i \in S |-> Event(t, i)]
           q == SetToSeq(E)
<1>1. \A i \in S : Event(t, i).of = i /\ Event(t, i).type = t
  BY DEF Event
<1>2. f \in Bijection(S, E)
  <2>1. f \in [S -> E] /\ \A i, j \in S : f[i] = f[j] => i = j
    BY <1>1
  <2>2. \A x \in E : \E i \in S : f[i] = x
    OBVIOUS
  <2> QED
    BY <2>1, <2>2 DEF Bijection, Injection, Surjection, IsInjective
<1>3. IsFiniteSet(E)
  <2>1. ExistsBijection(S, E)
    BY <1>2 DEF ExistsBijection
  <2> HIDE DEF E, f
  <2> QED
    BY <2>1, FS_Bijection
<1>4. /\ q \in Seq(E)
      /\ \A m, n \in 1 .. Len(q) : q[m] = q[n] => m = n
      /\ \A x \in E : \E n \in 1 .. Len(q) : q[n] = x
  <2> HIDE DEF E
  <2> QED
    BY <1>3, SetAsSeq
<1>5. \A n \in 1 .. Len(q) : q[n] \in E
  <2> HIDE DEF E, q
  <2> QED
    BY <1>4
<1>6. \A n \in 1 .. Len(q) : \E i \in S : q[n] = Event(t, i)
  BY <1>5
<1>7. E \subseteq Events
  BY EventsAreTyped
<1>8. q \in Seq(Events)
  <2> HIDE DEF E, q
  <2> QED
    BY <1>4, <1>7
<1>9. \A n \in 1 .. Len(q) : q[n].type = t /\ q[n].of \in S /\ q[n] = Event(t, q[n].of)
  BY <1>1, <1>6
<1>10. \A m, n \in 1 .. Len(q) : q[m].of = q[n].of => m = n
  BY <1>4, <1>9
<1>11. \A i \in S : \E n \in 1 .. Len(q) : q[n] = Event(t, i)
  BY <1>4
<1> HIDE DEF q, E, f
<1> QED
  BY <1>8, <1>9, <1>10, <1>11 DEF q, E

\* Closing ends all that is open, each once.
LEMMA ClosingEnds ==
  ASSUME TypeOK, ItemsTell
  PROVE  /\ Closing \in Seq(Events)
         /\ \A n \in 1 .. Len(Closing) : Ends(Closing[n]) /\ Bracket(Closing[n]) \in OpenNow
         /\ \A m, n \in 1 .. Len(Closing) : Bracket(Closing[m]) = Bracket(Closing[n]) => m = n
         /\ \A b \in OpenNow : \E n \in 1 .. Len(Closing) : Bracket(Closing[n]) = b
<1> DEFINE a == IF textOpen THEN <<Event("text_end", None)>> ELSE <<>>
           b == SetToSeq({Event("input_end", i) : i \in ongoing})
           c == SetToSeq({Event("reasoning_end", i) : i \in active})
<1>1. /\ b \in Seq(Events)
      /\ \A n \in 1 .. Len(b) : b[n].type = "input_end" /\ b[n].of \in ongoing
      /\ \A m, n \in 1 .. Len(b) : b[m].of = b[n].of => m = n
      /\ \A i \in ongoing : \E n \in 1 .. Len(b) : b[n] = Event("input_end", i)
  <2>1. ongoing \in SUBSET Items /\ IsFiniteSet(ongoing)
    BY DEF TypeOK, ItemsTell
  <2>2. "input_end" \in OfCalls \cup {"reasoning_start", "reasoning_end"}
    BY DEF OfCalls
  <2> QED
    BY <2>1, <2>2, EventSeq
<1>2. /\ c \in Seq(Events)
      /\ \A n \in 1 .. Len(c) : c[n].type = "reasoning_end" /\ c[n].of \in active
      /\ \A m, n \in 1 .. Len(c) : c[m].of = c[n].of => m = n
      /\ \A i \in active : \E n \in 1 .. Len(c) : c[n] = Event("reasoning_end", i)
  <2>1. active \in SUBSET Items /\ IsFiniteSet(active)
    BY DEF TypeOK, ItemsTell
  <2> QED
    BY <2>1, EventSeq
<1>3. a \in Seq(Events) /\ \A n \in 1 .. Len(a) : textOpen /\ n = 1 /\ a[n] = Event("text_end", None)
  <2>1. Event("text_end", None) \in Events
    BY EventsAreTyped
  <2>2. CASE textOpen
    BY <2>1, <2>2
  <2>3. CASE ~textOpen
    BY <2>3
  <2> QED
    BY <2>2, <2>3
<1>4. textOpen => Len(a) = 1
  OBVIOUS
<1>5. Closing = a \o b \o c
  BY DEF Closing
<1> HIDE DEF a, b, c
<1> DEFINE la == Len(a)
           lb == Len(b)
           lc == Len(c)
<1>6. /\ la \in Nat /\ lb \in Nat /\ lc \in Nat
      /\ a \o b \o c \in Seq(Events) /\ Len(a \o b \o c) = la + lb + lc
      /\ \A n \in 1 .. la + lb + lc : (a \o b \o c)[n] =
             IF n <= la THEN a[n] ELSE IF n <= la + lb THEN b[n - la] ELSE c[n - la - lb]
  BY <1>1, <1>2, <1>3
<1>7. \A n \in 1 .. la + lb + lc :
         \/ n <= la /\ n = 1 /\ textOpen /\ Closing[n] = a[n] /\ Bracket(a[n]) = <<"text", None>> /\ Ends(a[n])
         \/ /\ n > la /\ n <= la + lb /\ Closing[n] = b[n - la] /\ n - la \in 1 .. lb
            /\ Ends(b[n - la]) /\ Bracket(b[n - la]) = <<"input", b[n - la].of>>
         \/ /\ n > la + lb /\ Closing[n] = c[n - la - lb] /\ n - la - lb \in 1 .. lc
            /\ Ends(c[n - la - lb]) /\ Bracket(c[n - la - lb]) = <<"reasoning", c[n - la - lb].of>>
  <2> SUFFICES ASSUME NEW n \in 1 .. la + lb + lc
               PROVE  \/ n <= la /\ n = 1 /\ textOpen /\ Closing[n] = a[n] /\ Bracket(a[n]) = <<"text", None>> /\ Ends(a[n])
                      \/ /\ n > la /\ n <= la + lb /\ Closing[n] = b[n - la] /\ n - la \in 1 .. lb
                         /\ Ends(b[n - la]) /\ Bracket(b[n - la]) = <<"input", b[n - la].of>>
                      \/ /\ n > la + lb /\ Closing[n] = c[n - la - lb] /\ n - la - lb \in 1 .. lc
                         /\ Ends(c[n - la - lb]) /\ Bracket(c[n - la - lb]) = <<"reasoning", c[n - la - lb].of>>
    OBVIOUS
  <2>1. CASE n <= la
    <3>1. textOpen /\ n = 1 /\ a[n] = Event("text_end", None) /\ Closing[n] = a[n]
      BY <1>3, <1>5, <1>6, <2>1
    <3>2. a[n].type = "text_end"
      BY <3>1 DEF Event
    <3> QED
      BY <2>1, <3>1, <3>2 DEF Bracket, Ends
  <2>2. CASE n > la /\ n <= la + lb
    <3>1. n - la \in 1 .. lb /\ Closing[n] = b[n - la]
      BY <1>5, <1>6, <2>2
    <3> DEFINE e == b[n - la]
    <3>2. e.type = "input_end"
      BY <1>1, <3>1
    <3> HIDE DEF e
    <3>3. Ends(e) /\ Bracket(e) = <<"input", e.of>>
      BY <3>2 DEF Bracket, Ends
    <3> QED
      BY <2>2, <3>1, <3>3 DEF e
  <2>3. CASE n > la + lb
    <3>1. n - la - lb \in 1 .. lc /\ Closing[n] = c[n - la - lb]
      BY <1>5, <1>6, <2>3
    <3> DEFINE e == c[n - la - lb]
    <3>2. e.type = "reasoning_end"
      BY <1>2, <3>1
    <3> HIDE DEF e
    <3>3. Ends(e) /\ Bracket(e) = <<"reasoning", e.of>>
      BY <3>2 DEF Bracket, Ends
    <3> QED
      BY <2>3, <3>1, <3>3 DEF e
  <2> QED
    BY <1>6, <2>1, <2>2, <2>3
<1> HIDE DEF la, lb, lc
<1>8. \A n \in 1 .. la + lb + lc : Ends(Closing[n]) /\ Bracket(Closing[n]) \in OpenNow
  BY <1>1, <1>2, <1>7 DEF OpenNow, lb, lc
<1>9. \A m, n \in 1 .. la + lb + lc : Bracket(Closing[m]) = Bracket(Closing[n]) => m = n
  <2> SUFFICES ASSUME NEW m \in 1 .. la + lb + lc, NEW n \in 1 .. la + lb + lc,
                      Bracket(Closing[m]) = Bracket(Closing[n])
               PROVE  m = n
    OBVIOUS
  <2>1. \/ m <= la /\ n <= la
        \/ m > la /\ m <= la + lb /\ n > la /\ n <= la + lb
        \/ m > la + lb /\ n > la + lb
    BY SMTT(60), <1>6, <1>7
  <2>2. CASE m <= la /\ n <= la
    BY SMTT(60), <1>6, <1>7, <2>2
  <2>3. CASE m > la /\ m <= la + lb /\ n > la /\ n <= la + lb
    <3>1. m - la \in 1 .. lb /\ n - la \in 1 .. lb /\ b[m - la].of = b[n - la].of
      BY <1>6, <1>7, <2>3
    <3>2. m - la = n - la
      BY <1>1, <3>1 DEF lb
    <3> QED
      BY <1>6, <3>2
  <2>4. CASE m > la + lb /\ n > la + lb
    <3>1. m - la - lb \in 1 .. lc /\ n - la - lb \in 1 .. lc /\ c[m - la - lb].of = c[n - la - lb].of
      BY <1>6, <1>7, <2>4
    <3>2. m - la - lb = n - la - lb
      BY <1>2, <3>1 DEF lc
    <3> QED
      BY <1>6, <3>2
  <2> QED
    BY <2>1, <2>2, <2>3, <2>4
<1>10. ASSUME NEW x \in OpenNow PROVE \E n \in 1 .. la + lb + lc : Bracket(Closing[n]) = x
  <2>1. CASE textOpen /\ x = <<"text", None>>
    <3>1. la = 1
      BY <1>4, <2>1 DEF la
    <3>2. 1 \in 1 .. la + lb + lc /\ 1 <= la
      BY <1>6, <3>1
    <3> QED
      BY <1>6, <1>7, <2>1, <3>2
  <2>2. CASE \E i \in ongoing : x = <<"input", i>>
    <3>1. PICK i \in ongoing : x = <<"input", i>>
      BY <2>2
    <3>2. PICK k \in 1 .. lb : b[k] = Event("input_end", i)
      BY <1>1 DEF lb
    <3>3. la + k \in 1 .. la + lb + lc /\ la + k > la /\ la + k <= la + lb /\ la + k - la = k
      BY <1>6
    <3>4. Closing[la + k] = b[k]
      <4>1. PICK n \in 1 .. la + lb + lc : n = la + k
        BY <3>3
      <4>2. ~(n <= la) /\ n <= la + lb /\ n - la = k
        BY <1>6, <3>3, <4>1
      <4>3. Closing[n] = b[n - la]
        BY <1>5, <1>6, <4>2
      <4> QED
        BY <4>1, <4>2, <4>3
    <3>5. Bracket(b[k]) = x
      BY <3>1, <3>2 DEF Bracket, Event
    <3> QED
      BY <3>3, <3>4, <3>5
  <2>3. CASE \E i \in active : x = <<"reasoning", i>>
    <3>1. PICK i \in active : x = <<"reasoning", i>>
      BY <2>3
    <3>2. PICK k \in 1 .. lc : c[k] = Event("reasoning_end", i)
      BY <1>2 DEF lc
    <3>3. la + lb + k \in 1 .. la + lb + lc /\ la + lb + k > la + lb /\ la + lb + k > la /\ la + lb + k - la - lb = k
      BY <1>6
    <3>4. Closing[la + lb + k] = c[k]
      BY <1>5, <1>6, <3>3
    <3>5. Bracket(c[k]) = x
      BY <3>1, <3>2 DEF Bracket, Event
    <3> QED
      BY <3>3, <3>4, <3>5
  <2> QED
    BY <2>1, <2>2, <2>3 DEF OpenNow
<1> QED
  BY <1>5, <1>6, <1>8, <1>9, <1>10
-----------------------------------------------------------------------------
(* Types, and what the kind of an item tells.                              *)

Service == /\ rotates \in BOOLEAN /\ kind \in [Items -> Kinds \cup {"none"}] /\ open \in SUBSET Items
           /\ said \in Seq({"message", "reasoning"})
           /\ ending \in {"none", "completed", "incomplete", "error", "failed", "cut", "broken"}
Parser == /\ textOpen \in BOOLEAN /\ textItem \in Items \cup {None} /\ ongoing \in SUBSET Items
          /\ hasCall \in BOOLEAN /\ active \in SUBSET Items /\ thought \in Items \cup {None}
          /\ reason \in Reasons
Reader == /\ loop \in {"hearing", "done", "gone"} /\ cancelled \in BOOLEAN
          /\ body \in [{"message", "reasoning"} -> Seq(Nat)]
          /\ calls \in [Items -> {"none", "named", "part", "whole"}] /\ finish \in Reasons \cup {"none"}
Channel == /\ queue \in Seq(Events) /\ Len(queue) <= Capacity
           /\ brackets \in SUBSET ({"text", "input", "reasoning"} \X (Items \cup {None}))
Sender == task \in {"reading", "closing", "ended"} /\ out \in Seq(Events)

LEMMA TypeParts == TypeOK <=> Service /\ Parser /\ Reader /\ Channel /\ Sender
BY DEF TypeOK, Service, Parser, Reader, Channel, Sender

LEMMA InitTypes == ASSUME Init PROVE TypeOK /\ ItemsTell
<1>6. Service
  BY DEF Init, Service
<1>1. Service /\ Parser
  BY <1>6 DEF Init, Parser, Reasons
<1>5. Reader
  <2>1. body \in [{"message", "reasoning"} -> Seq(Nat)]
    <3>1. <<>> \in Seq(Nat)
      OBVIOUS
    <3> QED
      BY <3>1 DEF Init
  <2> QED
    BY <2>1 DEF Init, Reader
<1>2. Channel
  BY CapacityAssumption DEF Init, Channel
<1>3. Sender
  BY EventsAreTyped DEF Init, Sender
<1>4. ItemsTell
  BY FS_EmptySet DEF Init, ItemsTell
<1> QED
  BY <1>1, <1>2, <1>3, <1>4, <1>5, TypeParts

\* A step of the service that leaves the channel and the loop alone.
LEMMA ChunkTypes ==
  ASSUME TypeOK, ItemsTell, Chunk PROVE TypeOK' /\ ItemsTell'
<1> USE DEF Service, Parser, Reader, Channel, Sender, Elsewhere, reader, message, parser, service
<1>0. Service /\ Parser /\ Reader /\ Channel /\ Sender
  BY TypeParts
<1>1. Elsewhere
  BY DEF Chunk, ItemAdded, TextDelta, ReasoningDelta, SummaryPartAdded, ArgumentsDelta, ItemDone, AnswerEnds, StreamBreaks
<1>2. Reader' /\ Channel'
  BY <1>0, <1>1
<1>3. \A i \in Items : IsFiniteSet(ongoing \cup {i}) /\ IsFiniteSet(active \cup {i})
                       /\ IsFiniteSet(ongoing \ {i}) /\ IsFiniteSet(active \ {i})
  BY FS_AddElement, FS_RemoveElement DEF ItemsTell
<1>4. ASSUME NEW i \in Items, ItemAdded(i) PROVE Service' /\ Parser' /\ Sender' /\ ItemsTell'
  <2>1. PICK k \in Kinds : /\ kind' = [kind EXCEPT ![i] = k]
                           /\ \/ k = "message" /\ MessageAdded(i)
                              \/ k = "reasoning" /\ ReasoningAdded(i)
                              \/ k = "call" /\ CallAdded(i)
    BY <1>4 DEF ItemAdded
  <2>2. kind[i] = "none" /\ i \notin open /\ i \notin ongoing /\ i \notin active
    BY <1>4 DEF ItemAdded, ItemsTell
  <2>3. Service'
    BY <1>0, <1>4, <2>1 DEF ItemAdded
  <2>4. Parser'
    BY <1>0, <1>4, <2>1 DEF ItemAdded, MessageAdded, ReasoningAdded, CallAdded
  <2>5. Sender'
    <3>1. task' \in {"reading", "closing", "ended"}
      BY <1>0, <1>4 DEF ItemAdded
    <3>2. CASE MessageAdded(i)
      <4>1. out' = <<>> \/ out' = <<Event("text_start", None)>>
        BY <3>2 DEF MessageAdded
      <4> QED
        BY <3>1, <4>1, EventsAreTyped, EventSeqs
    <3>3. CASE ReasoningAdded(i)
      BY <3>1, <3>3, EventsAreTyped DEF ReasoningAdded
    <3>4. CASE CallAdded(i)
      <4>1. Event("input_start", i) \in Events /\ Event("input_delta", i) \in Events
        BY EventsAreTyped DEF OfCalls
      <4> QED
        BY <3>1, <3>4, <4>1, EventSeqs DEF CallAdded
    <3> QED
      BY <2>1, <3>2, <3>3, <3>4
  <2>6. ItemsTell'
    <3>1. kind' \in [Items -> Kinds \cup {"none"}] /\ open' = open \cup {i} /\ kind' = [kind EXCEPT ![i] = kind'[i]]
      BY <1>0, <1>4, <2>1 DEF ItemAdded
    <3>2. CASE kind'[i] = "message" /\ MessageAdded(i)
      BY <1>0, <2>2, <3>1, <3>2 DEF MessageAdded, ItemsTell
    <3>3. CASE kind'[i] = "reasoning" /\ ReasoningAdded(i)
      BY <1>0, <1>3, <2>2, <3>1, <3>3 DEF ReasoningAdded, ItemsTell
    <3>4. CASE kind'[i] = "call" /\ CallAdded(i)
      BY <1>0, <1>3, <2>2, <3>1, <3>4 DEF CallAdded, ItemsTell
    <3> QED
      BY <1>0, <2>1, <3>2, <3>3, <3>4
  <2> QED
    BY <2>3, <2>4, <2>5, <2>6
<1>5. ASSUME NEW i \in Items, TextDelta(i) PROVE Service' /\ Parser' /\ Sender' /\ ItemsTell'
  <2>1. Len(said') \in Nat /\ said' \in Seq({"message", "reasoning"})
    BY <1>0, <1>5 DEF TextDelta
  <2>2. Event("text_start", None) \in Events /\ Event("text_delta", Len(said')) \in Events
    BY <2>1, EventsAreTyped
  <2> QED
    BY <1>0, <1>5, <2>1, <2>2 DEF TextDelta, ItemsTell
<1>6. ASSUME NEW i \in Items, ReasoningDelta(i) PROVE Service' /\ Parser' /\ Sender' /\ ItemsTell'
  <2>1. Len(said') \in Nat /\ said' \in Seq({"message", "reasoning"})
    BY <1>0, <1>6 DEF ReasoningDelta
  <2>2. Event("reasoning_delta", Len(said')) \in Events
    BY <2>1, EventsAreTyped
  <2> QED
    BY <1>0, <1>6, <2>1, <2>2 DEF ReasoningDelta, ItemsTell
<1>7. ASSUME NEW i \in Items, SummaryPartAdded(i) PROVE Service' /\ Parser' /\ Sender' /\ ItemsTell'
  <2>1. \E j \in active : out' = <<Event("reasoning_start", j)>>
    BY <1>7 DEF SummaryPartAdded
  <2>2. out' \in Seq(Events)
    <3>1. active \subseteq Items
      BY <1>0
    <3>2. PICK j \in active : out' = <<Event("reasoning_start", j)>>
      BY <2>1
    <3>3. Event("reasoning_start", j) \in Events
      BY <3>1, EventsAreTyped
    <3> QED
      BY <3>2, <3>3, EventSeqs
  <2> QED
    BY <1>0, <1>7, <2>2 DEF SummaryPartAdded, ItemsTell
<1>8. ASSUME NEW i \in Items, ArgumentsDelta(i) PROVE Service' /\ Parser' /\ Sender' /\ ItemsTell'
  <2>1. Event("input_delta", i) \in Events
    BY EventsAreTyped DEF OfCalls
  <2> QED
    BY <1>0, <1>8, <2>1 DEF ArgumentsDelta, ItemsTell
<1>9. ASSUME NEW i \in Items, ItemDone(i) PROVE Service' /\ Parser' /\ Sender' /\ ItemsTell'
  <2>0. i \in open /\ open' = open \ {i} /\ UNCHANGED <<rotates, kind, said, ending, task, thought, reason>>
    BY <1>9 DEF ItemDone
  <2>1. CASE kind[i] = "message" /\ MessageDone(i)
    <3>1. out' \in Seq(Events)
      BY <2>1, EventsAreTyped, EventSeqs DEF MessageDone
    <3> QED
      BY <1>0, <2>0, <2>1, <3>1 DEF MessageDone, ItemsTell
  <2>2. CASE kind[i] = "reasoning" /\ ReasoningDone(i)
    <3>1. out' \in Seq(Events)
      BY <2>2, EventsAreTyped, EventSeqs DEF ReasoningDone
    <3> QED
      BY <1>0, <1>3, <2>0, <2>2, <3>1 DEF ReasoningDone, ItemsTell
  <2>3. CASE kind[i] = "call" /\ CallDone(i)
    <3>1. Event("input_end", i) \in Events /\ Event("call_end", i) \in Events
      BY EventsAreTyped DEF OfCalls
    <3>2. out' \in Seq(Events)
      BY <2>3, <3>1 DEF CallDone
    <3> QED
      BY <1>0, <1>3, <2>0, <2>3, <3>2 DEF CallDone, ItemsTell
  <2> QED
    BY <1>9, <2>1, <2>2, <2>3 DEF ItemDone
<1>10. ASSUME AnswerEnds PROVE Service' /\ Parser' /\ Sender' /\ ItemsTell'
  <2>1. out' \in Seq(Events)
    BY <1>10, EventsAreTyped, EventSeqs DEF AnswerEnds
  <2>2. reason' \in Reasons /\ ending' \in {"none", "completed", "incomplete", "error", "failed", "cut", "broken"}
    BY <1>0, <1>10 DEF AnswerEnds, FinishReason, Reasons
  <2> QED
    BY <1>0, <1>10, <2>1, <2>2 DEF AnswerEnds, ItemsTell
<1>11. ASSUME StreamBreaks PROVE Service' /\ Parser' /\ Sender' /\ ItemsTell'
  <2>1. out' \in Seq(Events)
    BY <1>11, EventsAreTyped DEF StreamBreaks
  <2> QED
    BY <1>0, <1>11, <2>1 DEF StreamBreaks, ItemsTell
<1> QED
  <2> HIDE DEF Service, Parser, Reader, Channel, Sender
  <2>1. Service' /\ Parser' /\ Sender' /\ ItemsTell'
    BY <1>4, <1>5, <1>6, <1>7, <1>8, <1>9, <1>10, <1>11 DEF Chunk
  <2> QED
    BY <1>2, <2>1 DEF TypeOK, Service, Parser, Reader, Channel, Sender

LEMMA HeadOfOut == ASSUME TypeOK, out # <<>> PROVE Head(out) \in Events /\ Tail(out) \in Seq(Events)
BY DEF TypeOK

LEMMA HeadOfQueue == ASSUME TypeOK, queue # <<>> PROVE Head(queue) \in Events /\ Tail(queue) \in Seq(Events)
BY DEF TypeOK

LEMMA StreamEndsFinishes ==
  ASSUME TypeOK, StreamEnds
  PROVE  \E r \in Reasons :
            /\ r = IF reason = "unknown" THEN FinishReason("none", hasCall) ELSE reason
            /\ out' = Closing \o <<Event("finish_step", r), Event("finish", None), Event("done", None)>>
<1>1. FinishReason("none", hasCall) \in Reasons
  BY DEF FinishReason, Reasons
<1> QED
  BY <1>1 DEF StreamEnds, TypeOK

LEMMA OtherTypes ==
  ASSUME TypeOK, ItemsTell, Task \/ Cancel \/ Loop \/ UNCHANGED vars PROVE TypeOK' /\ ItemsTell'
<1> USE DEF Service, Parser, Reader, Channel, Sender, Elsewhere, reader, message, parser, service
<1>0. Service /\ Parser /\ Reader /\ Channel /\ Sender
  BY TypeParts
<1>1. UNCHANGED <<service, parser>>
  BY DEF Task, StreamEnds, Send, SendFails, Cancel, Loop, Hear, RoundEnds, vars
<1>2. Service' /\ Parser' /\ ItemsTell'
  BY <1>0, <1>1 DEF ItemsTell
<1>3. ASSUME StreamEnds PROVE Reader' /\ Channel' /\ Sender'
  <2>1. PICK r \in Reasons :
          out' = Closing \o <<Event("finish_step", r), Event("finish", None), Event("done", None)>>
    BY <1>3, StreamEndsFinishes
  <2>2. <<Event("finish_step", r), Event("finish", None), Event("done", None)>> \in Seq(Events)
    BY EventsAreTyped
  <2>3. out' \in Seq(Events)
    BY <2>1, <2>2, ClosingEnds
  <2> QED
    BY <1>0, <1>3, <2>3 DEF StreamEnds
<1>4. ASSUME Send PROVE Reader' /\ Channel' /\ Sender'
  <2>1. Head(out) \in Events /\ Tail(out) \in Seq(Events)
    BY <1>4, HeadOfOut DEF Send
  <2> DEFINE e == Head(out)
  <2>2. queue' = Append(queue, e) /\ Len(queue) < Capacity /\ out' = Tail(out)
    BY <1>4 DEF Send
  <2>3. queue' \in Seq(Events) /\ Len(queue') <= Capacity
    BY <1>0, <2>1, <2>2, CapacityAssumption
  <2>4. Starts(e) => Bracket(e) \in {"text", "input", "reasoning"} \X (Items \cup {None})
    <3>1. Starts(e) => e.type = "text_start" \/ (e.type \in {"input_start", "reasoning_start"} /\ e.of \in Items)
      BY <2>1, EventsHave DEF Starts, OfCalls
    <3> HIDE DEF e
    <3> QED
      BY <3>1 DEF Bracket
  <2>5. brackets' = IF Starts(e) THEN brackets \cup {Bracket(e)} ELSE brackets \ {Bracket(e)}
    BY <1>4 DEF Send
  <2>6. Channel'
    <3> HIDE DEF e
    <3> QED
      BY <1>0, <2>3, <2>4, <2>5
  <2>7. task' \in {"reading", "closing", "ended"}
    BY <1>0, <1>4 DEF Send
  <2> QED
    BY <1>0, <1>4, <2>1, <2>6, <2>7 DEF Send
<1>5. ASSUME SendFails PROVE Reader' /\ Channel' /\ Sender'
  <2>1. Tail(out) \in Seq(Events)
    BY <1>5, HeadOfOut DEF SendFails
  <2> QED
    <3>1. out' = Tail(out) \/ out' = <<>>
      BY <1>5 DEF SendFails
    <3>2. Sender'
      BY <1>0, <1>5, <2>1, <3>1, EventSeqs DEF SendFails
    <3> QED
      BY <1>0, <1>5, <3>2 DEF SendFails
<1>6. ASSUME Cancel PROVE Reader' /\ Channel' /\ Sender'
  BY <1>0, <1>6 DEF Cancel
<1>7. ASSUME Hear PROVE Reader' /\ Channel' /\ Sender'
  <2>1. Head(queue) \in Events /\ Tail(queue) \in Seq(Events)
    BY <1>7, HeadOfQueue DEF Hear
  <2>2. Channel'
    <3>1. queue' = Tail(queue) /\ UNCHANGED brackets /\ queue # <<>>
      BY <1>7 DEF Hear
    <3>2. Len(Tail(queue)) <= Len(queue)
      BY <1>0, <3>1
    <3>3. Len(queue) \in Nat /\ Len(Tail(queue)) \in Nat /\ Capacity \in Nat
      BY <1>0, <2>1, CapacityAssumption
    <3> QED
      BY <1>0, <2>1, <3>1, <3>2, <3>3
  <2>3. Sender' /\ UNCHANGED cancelled
    BY <1>0, <1>7 DEF Hear
  <2> DEFINE e == Head(queue)
  <2>4. UNCHANGED message \/ (e.type \in {"text_delta", "reasoning_delta"} /\ HearText(e))
        \/ (e.type \in {"input_start", "input_delta", "call_end"} /\ HearCall(e))
        \/ (e.type = "finish_step" /\ HearFinish(e))
    BY <1>7 DEF Hear
  <2>5. loop' \in {"hearing", "done", "gone"}
    BY <1>0, <1>7 DEF Hear
  <2> HIDE DEF e
  <2>6. e \in Events
    BY <2>1 DEF e
  <2>7. CASE UNCHANGED message
    BY <1>0, <2>2, <2>3, <2>5, <2>7
  <2>8. CASE e.type \in {"text_delta", "reasoning_delta"} /\ HearText(e)
    <3>1. PICK k \in {"message", "reasoning"} : body' = [body EXCEPT ![k] = Append(@, e.of)]
      BY <2>8 DEF HearText
    <3>2. e.of \in Nat
      BY <2>6, <2>8, EventsHave
    <3>3. body' \in [{"message", "reasoning"} -> Seq(Nat)]
      BY <1>0, <3>1, <3>2
    <3> QED
      BY <1>0, <2>2, <2>3, <2>5, <2>8, <3>3 DEF HearText
  <2>9. CASE e.type \in {"input_start", "input_delta", "call_end"} /\ HearCall(e)
    <3>1. e.of \in Items
      BY <2>6, <2>9, EventsHave DEF OfCalls
    <3>2. calls' \in [Items -> {"none", "named", "part", "whole"}]
      BY <1>0, <2>9, <3>1 DEF HearCall
    <3> QED
      BY <1>0, <2>2, <2>3, <2>5, <2>9, <3>2 DEF HearCall
  <2>10. CASE e.type = "finish_step" /\ HearFinish(e)
    <3>1. e.of \in Reasons
      BY <2>6, <2>10, EventsHave
    <3> QED
      BY <1>0, <2>2, <2>3, <2>5, <2>10, <3>1 DEF HearFinish
  <2> QED
    BY <2>4, <2>7, <2>8, <2>9, <2>10
<1>8. ASSUME RoundEnds PROVE Reader' /\ Channel' /\ Sender'
  BY <1>0, <1>8 DEF RoundEnds
<1>9. ASSUME UNCHANGED vars PROVE Reader' /\ Channel' /\ Sender'
  BY <1>0, <1>9 DEF vars
<1> QED
  <2> HIDE DEF Service, Parser, Reader, Channel, Sender
  <2>1. Reader' /\ Channel' /\ Sender'
    BY <1>3, <1>4, <1>5, <1>6, <1>7, <1>8, <1>9 DEF Task, Loop
  <2> QED
    BY <1>2, <2>1 DEF TypeOK, Service, Parser, Reader, Channel, Sender

LEMMA TypesKept ==
  ASSUME TypeOK, ItemsTell, [Next]_vars PROVE TypeOK' /\ ItemsTell'
BY ChunkTypes, OtherTypes DEF Next

-----------------------------------------------------------------------------
(* What is open.                                                           *)

LEMMA NothingOut == Started(<<>>) = {} /\ Ended(<<>>, 0) = {}
BY DEF Started, Ended

LEMMA OneOut ==
  ASSUME NEW e
  PROVE  /\ Started(<<e>>) = IF Starts(e) THEN {Bracket(e)} ELSE {}
         /\ Ended(<<e>>, 0) = {}
         /\ Ended(<<e>>, 1) = IF Ends(e) THEN {Bracket(e)} ELSE {}
<1>1. Len(<<e>>) = 1 /\ <<e>>[1] = e /\ \A n \in 1 .. 1 : n = 1
  OBVIOUS
<1> QED
  BY <1>1 DEF Started, Ended

LEMMA TwoOut ==
  ASSUME NEW e, NEW f, ~ Starts(f), ~ Ends(f)
  PROVE  /\ Started(<<e, f>>) = IF Starts(e) THEN {Bracket(e)} ELSE {}
         /\ Ended(<<e, f>>, 0) = {}
         /\ Ended(<<e, f>>, 1) = IF Ends(e) THEN {Bracket(e)} ELSE {}
         /\ Ended(<<e, f>>, 2) = IF Ends(e) THEN {Bracket(e)} ELSE {}
<1>1. Len(<<e, f>>) = 2 /\ <<e, f>>[1] = e /\ <<e, f>>[2] = f /\ \A n \in 1 .. 2 : n = 1 \/ n = 2
  OBVIOUS
<1>2. \A n \in 1 .. 1 : n = 1
  OBVIOUS
<1> QED
  BY <1>1, <1>2 DEF Started, Ended

LEMMA StartsAndEnds ==
  ASSUME NEW e
  PROVE  /\ ~(Starts(e) /\ Ends(e))
         /\ e.type = "finish_step" => ~ Starts(e) /\ ~ Ends(e)
BY DEF Starts, Ends

LEMMA NothingOpens ==
  ASSUME Balanced, Reading, out' = <<>>, UNCHANGED <<task, brackets>>, OpenNow' = OpenNow
  PROVE  Balanced'
<1>1. OpenNow = brackets
  BY NothingOut DEF Balanced, Reading
<1> QED
  BY <1>1, NothingOut DEF Balanced, Reading

\* e opens, or ends, or does neither.
Does(e) ==
    \/ ~ Starts(e) /\ ~ Ends(e) /\ OpenNow' = OpenNow
    \/ /\ Starts(e) /\ (e.type = "reasoning_start" \/ Bracket(e) \notin OpenNow)
       /\ OpenNow' = OpenNow \cup {Bracket(e)}
    \/ Ends(e) /\ Bracket(e) \in OpenNow /\ OpenNow' = OpenNow \ {Bracket(e)}

LEMMA OneOpens ==
  ASSUME Balanced, Reading, NEW e, out' = <<e>>, e.type # "finish_step",
         UNCHANGED <<task, brackets>>, Does(e)
  PROVE  Balanced'
<1>1. OpenNow = brackets
  BY NothingOut DEF Balanced, Reading
<1>2. Len(out') = 1 /\ out'[1] = e /\ \A n \in 1 .. 1 : n = 1 /\ n - 1 = 0
  OBVIOUS
<1>3. /\ Started(out') = IF Starts(e) THEN {Bracket(e)} ELSE {}
      /\ Ended(out', 0) = {}
      /\ Ended(out', 1) = IF Ends(e) THEN {Bracket(e)} ELSE {}
  BY OneOut
<1>4. task' = "reading" /\ brackets' = brackets
  BY DEF Reading
<1>5. Ends(e) => Bracket(e) \in brackets
  BY <1>1, StartsAndEnds DEF Does
<1>6. Starts(e) => (e.type # "reasoning_start" => Bracket(e) \notin brackets) /\ Ended(out', 1) = {}
  BY <1>1, <1>3, StartsAndEnds DEF Does
<1>7. OpenNow' = (brackets \cup Started(out')) \ Ended(out', 1)
  BY <1>1, <1>3, StartsAndEnds DEF Does
<1> QED
  BY <1>2, <1>3, <1>4, <1>5, <1>6, <1>7 DEF Balanced

LEMMA TwoOpen ==
  ASSUME Balanced, Reading, NEW e, NEW f, out' = <<e, f>>, e.type # "finish_step", f.type # "finish_step",
         ~ Starts(f), ~ Ends(f), UNCHANGED <<task, brackets>>, Does(e)
  PROVE  Balanced'
<1>1. OpenNow = brackets
  BY NothingOut DEF Balanced, Reading
<1>2. Len(out') = 2 /\ out'[1] = e /\ out'[2] = f /\ \A n \in 1 .. 2 : n = 1 \/ n = 2
  OBVIOUS
<1>3. /\ Started(out') = IF Starts(e) THEN {Bracket(e)} ELSE {}
      /\ Ended(out', 0) = {}
      /\ Ended(out', 1) = IF Ends(e) THEN {Bracket(e)} ELSE {}
      /\ Ended(out', 2) = IF Ends(e) THEN {Bracket(e)} ELSE {}
  BY TwoOut
<1>4. task' = "reading" /\ brackets' = brackets
  BY DEF Reading
<1>5. Ends(e) => Bracket(e) \in brackets
  BY <1>1, StartsAndEnds DEF Does
<1>6. Starts(e) => (e.type # "reasoning_start" => Bracket(e) \notin brackets) /\ Ended(out', 2) = {}
  BY <1>1, <1>3, StartsAndEnds DEF Does
<1>7. OpenNow' = (brackets \cup Started(out')) \ Ended(out', 2)
  BY <1>1, <1>3, StartsAndEnds DEF Does
<1>8. 1 - 1 = 0 /\ 2 - 1 = 1
  OBVIOUS
<1> QED
  BY <1>2, <1>3, <1>4, <1>5, <1>6, <1>7, <1>8 DEF Balanced

LEMMA KeepsOpen == ASSUME UNCHANGED <<textOpen, ongoing, active>> PROVE OpenNow' = OpenNow
BY DEF OpenNow

LEMMA JoinedPair == ASSUME NEW e, NEW f PROVE <<e>> \o <<f>> = <<e, f>>
<1> DEFINE s == <<e>>
           t == <<f>>
           v == <<e, f>>
<1>1. s \in Seq({e, f}) /\ t \in Seq({e, f}) /\ v \in Seq({e, f})
  OBVIOUS
<1>2. Len(s) = 1 /\ Len(t) = 1 /\ s[1] = e /\ t[1] = f /\ Len(v) = 2 /\ v[1] = e /\ v[2] = f
  OBVIOUS
<1> HIDE DEF s, t, v
<1>3. s \o t \in Seq({e, f}) /\ Len(s \o t) = 2 /\ \A n \in 1 .. 2 : (s \o t)[n] = v[n]
  <2>1. /\ s \o t \in Seq({e, f}) /\ Len(s \o t) = Len(s) + Len(t)
        /\ \A n \in 1 .. Len(s) + Len(t) : (s \o t)[n] = IF n <= Len(s) THEN s[n] ELSE t[n - Len(s)]
    BY <1>1, ConcatProperties
  <2>2. \A n \in 1 .. 2 : n = 1 \/ n = 2
    OBVIOUS
  <2> QED
    BY <1>2, <2>1, <2>2
<1>4. s \o t = v
  BY <1>1, <1>2, <1>3, SeqEqual
<1> QED
  BY <1>4 DEF s, t, v

\* What the events of a chunk open and end.
LEMMA Text ==
  /\ Starts(Event("text_start", None)) /\ Bracket(Event("text_start", None)) = <<"text", None>>
  /\ Ends(Event("text_end", None)) /\ Bracket(Event("text_end", None)) = <<"text", None>>
BY DEF Starts, Ends, Bracket, Event

LEMMA Inputs ==
  ASSUME NEW i
  PROVE  /\ Starts(Event("input_start", i)) /\ Bracket(Event("input_start", i)) = <<"input", i>>
         /\ Ends(Event("input_end", i)) /\ Bracket(Event("input_end", i)) = <<"input", i>>
         /\ Starts(Event("reasoning_start", i)) /\ Bracket(Event("reasoning_start", i)) = <<"reasoning", i>>
         /\ Ends(Event("reasoning_end", i)) /\ Bracket(Event("reasoning_end", i)) = <<"reasoning", i>>
BY DEF Starts, Ends, Bracket, Event

LEMMA Others ==
  ASSUME NEW t \in {"text_delta", "reasoning_delta", "input_delta", "call_end", "error", "err", "start",
                    "start_step"}, NEW x
  PROVE  ~ Starts(Event(t, x)) /\ ~ Ends(Event(t, x)) /\ Event(t, x).type = t /\ Event(t, x).type # "finish_step"
BY DEF Starts, Ends, Event

LEMMA ChunkBalanced ==
  ASSUME TypeOK, ItemsTell, Balanced, Chunk PROVE Balanced'
<1>1. ASSUME NEW i \in Items, ItemAdded(i) PROVE Balanced'
  <2>1. Reading /\ UNCHANGED <<task, brackets>> /\ kind[i] = "none"
    BY <1>1 DEF ItemAdded, Elsewhere
  <2>2. i \notin active /\ i \notin ongoing
    BY <2>1 DEF ItemsTell
  <2>3. CASE MessageAdded(i)
    <3>1. CASE textOpen
      <4>1. out' = <<>> /\ OpenNow' = OpenNow
        BY <2>3, <3>1 DEF MessageAdded, OpenNow
      <4> QED
        BY <2>1, <4>1, NothingOpens
    <3>2. CASE ~ textOpen
      <4> DEFINE e == Event("text_start", None)
      <4>1. out' = <<e>> /\ OpenNow' = OpenNow \cup {<<"text", None>>} /\ <<"text", None>> \notin OpenNow
        BY <2>3, <3>2 DEF MessageAdded, OpenNow
      <4>2. Does(e) /\ e.type # "finish_step"
        BY <4>1, Text, StartsAndEnds DEF Does
      <4> HIDE DEF e
      <4> QED
        BY <2>1, <4>1, <4>2, OneOpens
    <3> QED
      BY <3>1, <3>2
  <2>4. CASE ReasoningAdded(i)
    <3> DEFINE e == Event("reasoning_start", i)
    <3>1. out' = <<e>> /\ OpenNow' = OpenNow \cup {<<"reasoning", i>>} /\ <<"reasoning", i>> \notin OpenNow
      BY <2>2, <2>4 DEF ReasoningAdded, OpenNow
    <3>2. Does(e) /\ e.type # "finish_step"
      BY <3>1, Inputs, StartsAndEnds DEF Does
    <3> HIDE DEF e
    <3> QED
      BY <2>1, <3>1, <3>2, OneOpens
  <2>5. CASE CallAdded(i)
    <3> DEFINE e == Event("input_start", i)
               f == Event("input_delta", i)
    <3>1. out' = <<e>> \/ out' = <<e, f>>
      BY <2>5 DEF CallAdded
    <3>2. OpenNow' = OpenNow \cup {<<"input", i>>} /\ <<"input", i>> \notin OpenNow
      BY <2>2, <2>5 DEF CallAdded, OpenNow
    <3>3. Does(e) /\ e.type # "finish_step"
      BY <3>2, Inputs, StartsAndEnds DEF Does
    <3>4. ~ Starts(f) /\ ~ Ends(f) /\ f.type # "finish_step"
      BY Others
    <3> HIDE DEF e, f
    <3> QED
      BY <2>1, <3>1, <3>3, <3>4, OneOpens, TwoOpen
  <2> QED
    BY <1>1, <2>3, <2>4, <2>5 DEF ItemAdded
<1>2. ASSUME NEW i \in Items, TextDelta(i) PROVE Balanced'
  <2>1. Reading /\ UNCHANGED <<task, brackets, ongoing, active>> /\ textOpen'
    BY <1>2 DEF TextDelta, Elsewhere
  <2> DEFINE f == Event("text_delta", Len(said'))
  <2>2. ~ Starts(f) /\ ~ Ends(f) /\ f.type # "finish_step"
    BY Others
  <2>3. CASE textOpen
    <3>1. out' = <<f>>
      <4>1. out' = <<>> \o <<f>>
        BY <1>2, <2>3 DEF TextDelta
      <4> QED
        BY <4>1
    <3>2. OpenNow' = OpenNow
      BY <2>1, <2>3 DEF OpenNow
    <3>3. Does(f)
      BY <2>2, <3>2 DEF Does
    <3> HIDE DEF f
    <3> QED
      BY <2>1, <2>2, <3>1, <3>3, OneOpens
  <2>4. CASE ~ textOpen
    <3> DEFINE e == Event("text_start", None)
    <3>1. out' = <<e, f>>
      <4>1. out' = <<e>> \o <<f>>
        BY <1>2, <2>4 DEF TextDelta
      <4> QED
        BY <4>1, JoinedPair
    <3>2. OpenNow' = OpenNow \cup {<<"text", None>>} /\ <<"text", None>> \notin OpenNow
      BY <2>1, <2>4 DEF OpenNow
    <3>3. Does(e) /\ e.type # "finish_step"
      BY <3>2, Text, StartsAndEnds DEF Does
    <3> HIDE DEF e, f
    <3> QED
      BY <2>1, <2>2, <3>1, <3>3, TwoOpen
  <2> QED
    BY <2>3, <2>4
<1>3. ASSUME NEW i \in Items, ReasoningDelta(i) PROVE Balanced'
  <2>1. Reading /\ UNCHANGED <<task, brackets, textOpen, ongoing, active>>
    BY <1>3 DEF ReasoningDelta, Elsewhere, parser
  <2> DEFINE f == Event("reasoning_delta", Len(said'))
  <2>2. OpenNow' = OpenNow
    BY <2>1, KeepsOpen
  <2>3. Does(f) /\ f.type # "finish_step"
    BY <2>2, Others DEF Does
  <2>4. out' = <<f>> \/ out' = <<>>
    BY <1>3 DEF ReasoningDelta
  <2> HIDE DEF f
  <2> QED
    BY <2>1, <2>2, <2>3, <2>4, OneOpens, NothingOpens
<1>4. ASSUME NEW i \in Items, SummaryPartAdded(i) PROVE Balanced'
  <2>1. Reading /\ UNCHANGED <<task, brackets, textOpen, ongoing, active>>
    BY <1>4 DEF SummaryPartAdded, Elsewhere, parser
  <2>2. PICK j \in active : out' = <<Event("reasoning_start", j)>>
    BY <1>4 DEF SummaryPartAdded
  <2> DEFINE e == Event("reasoning_start", j)
  <2>3. OpenNow' = OpenNow /\ <<"reasoning", j>> \in OpenNow
    BY <2>1, KeepsOpen DEF OpenNow
  <2>4. Does(e) /\ e.type # "finish_step"
    <3>1. e.type = "reasoning_start"
      BY DEF Event
    <3> QED
      BY <2>3, <3>1, Inputs DEF Does
  <2> HIDE DEF e
  <2>5. out' = <<e>>
    BY <2>2 DEF e
  <2> QED
    BY <2>1, <2>4, <2>5, OneOpens
<1>5. ASSUME NEW i \in Items, ArgumentsDelta(i) PROVE Balanced'
  <2>1. Reading /\ UNCHANGED <<task, brackets, textOpen, ongoing, active>>
    BY <1>5 DEF ArgumentsDelta, Elsewhere, parser, service
  <2> DEFINE f == Event("input_delta", i)
  <2>2. OpenNow' = OpenNow
    BY <2>1, KeepsOpen
  <2>3. Does(f) /\ f.type # "finish_step"
    BY <2>2, Others DEF Does
  <2>4. out' = <<f>> \/ out' = <<>>
    BY <1>5 DEF ArgumentsDelta
  <2> HIDE DEF f
  <2> QED
    BY <2>1, <2>2, <2>3, <2>4, OneOpens, NothingOpens
<1>6. ASSUME NEW i \in Items, ItemDone(i) PROVE Balanced'
  <2>1. Reading /\ UNCHANGED <<task, brackets>> /\ i \in open
    BY <1>6 DEF ItemDone, Elsewhere
  <2>2. CASE MessageDone(i)
    <3>1. CASE SameId /\ textItem = i /\ textOpen
      <4> DEFINE e == Event("text_end", None)
      <4>1. out' = <<e>> /\ OpenNow' = OpenNow \ {<<"text", None>>} /\ <<"text", None>> \in OpenNow
        BY <2>2, <3>1 DEF MessageDone, OpenNow
      <4>2. Does(e) /\ e.type # "finish_step"
        BY <4>1, Text, StartsAndEnds DEF Does
      <4> HIDE DEF e
      <4> QED
        BY <2>1, <4>1, <4>2, OneOpens
    <3>2. CASE ~(SameId /\ textItem = i /\ textOpen)
      <4>1. out' = <<>> /\ UNCHANGED <<textOpen, ongoing, active>>
        BY <2>2, <3>2 DEF MessageDone
      <4> QED
        BY <2>1, <4>1, KeepsOpen, NothingOpens
    <3> QED
      BY <3>1, <3>2
  <2>3. CASE ReasoningDone(i)
    <3>1. CASE SameId /\ i \in active
      <4> DEFINE e == Event("reasoning_end", i)
      <4>1. out' = <<e>> /\ OpenNow' = OpenNow \ {<<"reasoning", i>>} /\ <<"reasoning", i>> \in OpenNow
        BY <2>3, <3>1 DEF ReasoningDone, OpenNow
      <4>2. Does(e) /\ e.type # "finish_step"
        BY <4>1, Inputs, StartsAndEnds DEF Does
      <4> HIDE DEF e
      <4> QED
        BY <2>1, <4>1, <4>2, OneOpens
    <3>2. CASE ~(SameId /\ i \in active)
      <4>1. out' = <<>> /\ UNCHANGED <<textOpen, ongoing, active>>
        BY <2>3, <3>2 DEF ReasoningDone
      <4> QED
        BY <2>1, <4>1, KeepsOpen, NothingOpens
    <3> QED
      BY <3>1, <3>2
  <2>4. CASE kind[i] = "call" /\ CallDone(i)
    <3> DEFINE e == Event("input_end", i)
               f == Event("call_end", i)
    <3>1. i \in ongoing
      BY <2>1, <2>4 DEF ItemsTell
    <3>2. out' = <<e, f>> /\ OpenNow' = OpenNow \ {<<"input", i>>} /\ <<"input", i>> \in OpenNow
      BY <2>4, <3>1 DEF CallDone, OpenNow
    <3>3. Does(e) /\ e.type # "finish_step"
      BY <3>2, Inputs, StartsAndEnds DEF Does
    <3>4. ~ Starts(f) /\ ~ Ends(f) /\ f.type # "finish_step"
      BY Others
    <3> HIDE DEF e, f
    <3> QED
      BY <2>1, <3>2, <3>3, <3>4, TwoOpen
  <2> QED
    BY <1>6, <2>2, <2>3, <2>4 DEF ItemDone
<1>7. ASSUME AnswerEnds PROVE Balanced'
  <2>1. Reading /\ UNCHANGED <<task, brackets, textOpen, ongoing, active>>
    BY <1>7 DEF AnswerEnds, Elsewhere
  <2> DEFINE f == Event("error", None)
  <2>2. OpenNow' = OpenNow
    BY <2>1, KeepsOpen
  <2>3. Does(f) /\ f.type # "finish_step"
    BY <2>2, Others DEF Does
  <2>4. out' = <<f>> \/ out' = <<>>
    BY <1>7 DEF AnswerEnds
  <2> HIDE DEF f
  <2> QED
    BY <2>1, <2>2, <2>3, <2>4, OneOpens, NothingOpens
<1>8. ASSUME StreamBreaks PROVE Balanced'
  <2> DEFINE f == Event("err", None)
  <2>1. task' = "closing" /\ out' = <<f>>
    BY <1>8 DEF StreamBreaks
  <2>2. ~ Starts(f) /\ ~ Ends(f) /\ f.type # "finish_step"
    BY Others
  <2> HIDE DEF f
  <2>3. Len(out') = 1 /\ out'[1] = f /\ \A n \in 1 .. 1 : n = 1
    BY <2>1
  <2> QED
    BY <2>1, <2>2, <2>3 DEF Balanced
<1> QED
  BY <1>1, <1>2, <1>3, <1>4, <1>5, <1>6, <1>7, <1>8 DEF Chunk

LEMMA StreamEndsBalanced ==
  ASSUME TypeOK, ItemsTell, Balanced, StreamEnds PROVE Balanced'
<1>1. OpenNow = brackets
  BY NothingOut DEF Balanced, StreamEnds
<1>2. PICK r \in Reasons :
        out' = Closing \o <<Event("finish_step", r), Event("finish", None), Event("done", None)>>
  BY StreamEndsFinishes
<1> DEFINE c == Closing
           f == <<Event("finish_step", r), Event("finish", None), Event("done", None)>>
           k == Len(c)
<1>3. /\ c \in Seq(Events) /\ k \in Nat
      /\ \A n \in 1 .. k : Ends(c[n]) /\ Bracket(c[n]) \in OpenNow
      /\ \A m, n \in 1 .. k : Bracket(c[m]) = Bracket(c[n]) => m = n
      /\ \A b \in OpenNow : \E n \in 1 .. k : Bracket(c[n]) = b
  BY ClosingEnds
<1>4. \A n \in 1 .. 3 : f[n].type \in {"finish_step", "finish", "done"} /\ ~ Starts(f[n]) /\ ~ Ends(f[n])
                       /\ (f[n].type = "finish_step" => n = 1)
  BY DEF Event, Starts, Ends
<1>5. Len(out') = k + 3 /\ \A n \in 1 .. k + 3 : out'[n] = IF n <= k THEN c[n] ELSE f[n - k]
  <2>1. c \in Seq(Events)
    BY <1>3
  <2>2. f \in Seq(Events) /\ Len(f) = 3
    BY EventsAreTyped
  <2>3. out' = c \o f
    BY <1>2
  <2> HIDE DEF c, f
  <2>6. /\ Len(c \o f) = Len(c) + Len(f)
        /\ \A n \in 1 .. Len(c) + Len(f) : (c \o f)[n] = IF n <= Len(c) THEN c[n] ELSE f[n - Len(c)]
    BY <2>1, <2>2, ConcatProperties
  <2>4. Len(c \o f) = k + 3
    BY <2>2, <2>6
  <2>5. ASSUME NEW n \in 1 .. k + 3 PROVE (c \o f)[n] = IF n <= k THEN c[n] ELSE f[n - k]
    BY <2>2, <2>6
  <2> QED
    BY <2>3, <2>4, <2>5
<1>6. task' = "closing" /\ brackets' = brackets
  BY DEF StreamEnds, Elsewhere
<1> HIDE DEF c, f, k
<1>7. \A n \in 1 .. k + 3 :
         /\ ~ Starts(out'[n])
         /\ Ends(out'[n]) => n <= k /\ Bracket(out'[n]) \in brackets
         /\ out'[n].type = "finish_step" => n = k + 1
  <2> SUFFICES ASSUME NEW n \in 1 .. k + 3
               PROVE  /\ ~ Starts(out'[n])
                      /\ Ends(out'[n]) => n <= k /\ Bracket(out'[n]) \in brackets
                      /\ out'[n].type = "finish_step" => n = k + 1
    OBVIOUS
  <2>1. CASE n <= k
    BY <1>1, <1>3, <1>5, <2>1, StartsAndEnds
  <2>2. CASE ~(n <= k)
    <3>1. n - k \in 1 .. 3 /\ out'[n] = f[n - k]
      BY <1>3, <1>5, <2>2
    <3>2. f[n - k].type = "finish_step" => n = k + 1
      BY <1>3, <1>4, <3>1
    <3> QED
      BY <1>4, <3>1, <3>2
  <2> QED
    BY <2>1, <2>2
<1>8. \A n \in 1 .. k : Bracket(out'[n]) \notin Ended(out', n - 1)
  <2> SUFFICES ASSUME NEW n \in 1 .. k, NEW m \in 1 .. n - 1, Bracket(out'[m]) = Bracket(out'[n])
               PROVE  FALSE
    BY DEF Ended
  <2>1. m \in 1 .. k /\ m \in 1 .. k + 3 /\ n \in 1 .. k + 3 /\ m < n /\ out'[m] = c[m] /\ out'[n] = c[n]
    BY <1>3, <1>5
  <2> QED
    BY <1>3, <2>1
<1>9. brackets \subseteq Ended(out', k)
  <2> SUFFICES ASSUME NEW b \in brackets PROVE b \in Ended(out', k)
    OBVIOUS
  <2>1. PICK n \in 1 .. k : Bracket(c[n]) = b
    BY <1>1, <1>3
  <2>2. n \in 1 .. k + 3 /\ out'[n] = c[n] /\ Ends(c[n])
    BY <1>3, <1>5
  <2> QED
    BY <2>1, <2>2 DEF Ended
<1>10. k + 1 - 1 = k
  BY <1>3
<1>11. \A n \in 1 .. Len(out') : n <= k => n \in 1 .. k
  BY <1>3, <1>5
<1>12. ASSUME NEW n \in 1 .. k + 3, Ends(out'[n])
       PROVE  Bracket(out'[n]) \in brackets' /\ Bracket(out'[n]) \notin Ended(out', n - 1)
  <2>1. n <= k /\ Bracket(out'[n]) \in brackets
    BY <1>7, <1>12
  <2>2. n \in 1 .. k
    BY <1>3, <2>1
  <2> QED
    BY <1>6, <1>8, <2>1, <2>2
<1>13. ASSUME NEW n \in 1 .. k + 3, out'[n].type = "finish_step" PROVE brackets' \subseteq Ended(out', n - 1)
  <2>1. n = k + 1
    BY <1>7, <1>13
  <2>2. n - 1 = k
    BY <1>3, <2>1
  <2> QED
    BY <1>6, <1>9, <2>2
<1> QED
  BY <1>5, <1>6, <1>7, <1>12, <1>13 DEF Balanced

\* The next event goes.
LEMMA PassBalanced ==
  ASSUME TypeOK, Balanced, out # <<>>, out' = Tail(out), UNCHANGED parser,
         brackets' = (IF Starts(Head(out)) THEN brackets \cup {Bracket(Head(out))}
                      ELSE brackets \ {Bracket(Head(out))}),
         task' = "reading" => task = "reading", task = "closing" /\ Len(out) # 1 => task' = "closing"
  PROVE  Balanced'
<1> DEFINE e == Head(out)
           k == Len(out) - 1
           b == IF Ends(e) THEN {Bracket(e)} ELSE {}
<1>1. out \in Seq(Events) /\ out # <<>>
  BY DEF TypeOK
<1>2. /\ Len(out) = k + 1 /\ k \in Nat /\ Len(out') = k /\ e = out[1]
      /\ \A n \in 1 .. k : out'[n] = out[n + 1] /\ n + 1 \in 1 .. k + 1 /\ n + 1 # 1
  BY <1>1
<1>3. brackets' = (IF Starts(e) THEN brackets \cup {Bracket(e)} ELSE brackets \ {Bracket(e)})
  OBVIOUS
<1>4. ~ Starts(e) /\ ~ Ends(e) => brackets' = brackets
  <2>1. ~ Starts(e) /\ ~ Ends(e) => Bracket(e) = <<"none", None>>
    BY DEF Starts, Ends, Bracket
  <2>2. <<"none", None>> \notin brackets
    BY DEF TypeOK
  <2> QED
    BY <1>3, <2>1, <2>2
<1>5. OpenNow' = OpenNow
  BY KeepsOpen DEF parser
<1>6. (task' = "reading" => task = "reading") /\ (task = "closing" /\ k # 0 => task' = "closing")
  BY <1>2
<1> HIDE DEF e, k
<1>7. ASSUME NEW j \in 0 .. k PROVE Ended(out, j + 1) = Ended(out', j) \cup b
  <2>1. ASSUME NEW x \in Ended(out, j + 1) PROVE x \in Ended(out', j) \cup b
    <3>1. PICK n \in 1 .. j + 1 : Ends(out[n]) /\ x = Bracket(out[n])
      BY DEF Ended
    <3>2. CASE n = 1
      BY <1>2, <3>1, <3>2
    <3>3. CASE n # 1
      <4>1. PICK m \in 1 .. j : n = m + 1
        <5>1. n - 1 \in 1 .. j /\ n = n - 1 + 1
          BY <1>2, <3>3
        <5> QED
          BY <5>1
      <4>2. out'[m] = out[n]
        BY <1>2, <4>1
      <4> QED
        BY <3>1, <4>1, <4>2 DEF Ended
    <3> QED
      BY <3>2, <3>3
  <2>2. ASSUME NEW x \in Ended(out', j) PROVE x \in Ended(out, j + 1)
    <3>1. PICK n \in 1 .. j : Ends(out'[n]) /\ x = Bracket(out'[n])
      BY DEF Ended
    <3>2. n + 1 \in 1 .. j + 1 /\ out'[n] = out[n + 1]
      BY <1>2
    <3> QED
      BY <3>1, <3>2 DEF Ended
  <2>3. b \subseteq Ended(out, j + 1)
    <3>1. 1 \in 1 .. j + 1
      BY <1>2
    <3> QED
      BY <1>2, <3>1 DEF Ended
  <2> QED
    BY <2>1, <2>2, <2>3
<1>8. \A n \in 1 .. k : ~ Starts(out'[n])
  BY <1>2 DEF Balanced
<1>9. Started(out') = {} /\ Started(out) = IF Starts(e) THEN {Bracket(e)} ELSE {}
  <2>1. Started(out') = {}
    BY <1>2, <1>8 DEF Started
  <2>2. \A n \in 1 .. Len(out) : Starts(out[n]) => n = 1
    BY DEF Balanced
  <2>3. 1 \in 1 .. Len(out)
    BY <1>2
  <2> QED
    BY <1>2, <2>1, <2>2, <2>3 DEF Started
<1>10. Starts(e) => Ended(out, k + 1) = {} /\ \A m \in 1 .. k + 1 : out[m].type # "finish_step"
  <2>1. 1 \in 1 .. k + 1
    BY <1>2
  <2> QED
    BY <1>2, <2>1 DEF Balanced
<1>11. ~ (Starts(e) /\ Ends(e))
  BY StartsAndEnds
<1>12. ASSUME NEW n \in 1 .. k, Ends(out'[n])
       PROVE  Bracket(out'[n]) \in brackets' /\ Bracket(out'[n]) \notin Ended(out', n - 1)
  <2>1. n - 1 \in 0 .. k /\ n - 1 + 1 = n /\ n + 1 - 1 = n
    BY <1>2
  <2>2. Bracket(out'[n]) \in brackets /\ Bracket(out'[n]) \notin Ended(out, n)
    BY <1>2, <1>12, <2>1 DEF Balanced
  <2>3. Ended(out, n) = Ended(out', n - 1) \cup b
    BY <1>7, <2>1
  <2> QED
    BY <1>3, <1>4, <2>2, <2>3
<1>13. ASSUME NEW n \in 1 .. k, out'[n].type = "finish_step"
       PROVE  brackets' \subseteq Ended(out', n - 1) /\ task' = "closing"
  <2>1. n - 1 \in 0 .. k /\ n - 1 + 1 = n /\ n + 1 - 1 = n /\ k # 0
    BY <1>2
  <2>2. brackets \subseteq Ended(out, n) /\ task = "closing"
    BY <1>2, <1>13, <2>1 DEF Balanced
  <2>3. Ended(out, n) = Ended(out', n - 1) \cup b
    BY <1>7, <2>1
  <2>4. ~ Starts(e)
    BY <1>2, <1>10, <1>13
  <2> QED
    BY <1>3, <1>4, <1>6, <2>1, <2>2, <2>3, <2>4
<1>14. ASSUME task' = "reading" PROVE OpenNow' = (brackets' \cup Started(out')) \ Ended(out', k)
  <2>1. OpenNow = (brackets \cup Started(out)) \ Ended(out, k + 1)
    BY <1>2, <1>6, <1>14 DEF Balanced
  <2>2. Ended(out, k + 1) = Ended(out', k) \cup b
    <3>1. k \in 0 .. k
      BY <1>2
    <3> QED
      BY <1>7, <3>1
  <2>3. CASE Starts(e)
    BY <1>3, <1>5, <1>9, <1>10, <2>1, <2>2, <2>3
  <2>4. CASE Ends(e)
    BY <1>3, <1>5, <1>9, <1>11, <2>1, <2>2, <2>4
  <2>5. CASE ~ Starts(e) /\ ~ Ends(e)
    BY <1>4, <1>5, <1>9, <2>1, <2>2, <2>5
  <2> QED
    BY <2>3, <2>4, <2>5
<1> QED
  BY <1>2, <1>8, <1>12, <1>13, <1>14 DEF Balanced

LEMMA BalancedKept ==
  ASSUME TypeOK, ItemsTell, Balanced, [Next]_vars PROVE Balanced'
<1>1. CASE Chunk
  BY <1>1, ChunkBalanced
<1>2. CASE StreamEnds
  BY <1>2, StreamEndsBalanced
<1>3. CASE Send
  <2>1. /\ out # <<>> /\ out' = Tail(out) /\ UNCHANGED parser
        /\ brackets' = (IF Starts(Head(out)) THEN brackets \cup {Bracket(Head(out))}
                        ELSE brackets \ {Bracket(Head(out))})
        /\ task' = IF task = "closing" /\ Len(out) = 1 THEN "ended" ELSE task
    BY <1>3 DEF Send
  <2>2. (task' = "reading" => task = "reading") /\ (task = "closing" /\ Len(out) # 1 => task' = "closing")
    BY <2>1
  <2> QED
    BY <2>1, <2>2, PassBalanced
<1>4. CASE SendFails
  <2>1. CASE Head(out).type \in {"start", "start_step"}
    <3> DEFINE e == Head(out)
    <3>1. ~ Starts(e) /\ Bracket(e) = <<"none", None>>
      BY <2>1 DEF Starts, Bracket
    <3>2. <<"none", None>> \notin brackets
      BY DEF TypeOK
    <3>3. out # <<>> /\ out' = Tail(out) /\ UNCHANGED <<parser, task, brackets>>
      BY <1>4, <2>1 DEF SendFails
    <3>4. brackets' = (IF Starts(Head(out)) THEN brackets \cup {Bracket(Head(out))}
                      ELSE brackets \ {Bracket(Head(out))})
      BY <3>1, <3>2, <3>3
    <3> HIDE DEF e
    <3> QED
      BY <3>3, <3>4, PassBalanced
  <2>2. CASE ~(Head(out).type \in {"start", "start_step"})
    <3>1. out' = <<>> /\ task' = "ended"
      BY <1>4, <2>2 DEF SendFails
    <3> QED
      BY <3>1 DEF Balanced
  <2> QED
    BY <2>1, <2>2
<1>5. CASE Cancel \/ Loop \/ UNCHANGED vars
  <2>1. UNCHANGED <<task, out, parser, brackets>>
    BY <1>5 DEF Cancel, Loop, Hear, RoundEnds, vars
  <2>2. OpenNow' = OpenNow
    BY <2>1, KeepsOpen DEF parser
  <2> QED
    BY <2>1, <2>2 DEF Balanced
<1> QED
  BY <1>1, <1>2, <1>3, <1>4, <1>5 DEF Next, Task

\* A step puts an event into the channel only by sending what is first.
LEMMA SentIsFirst ==
  ASSUME TypeOK, [Next]_vars, Len(queue') > Len(queue)
  PROVE  out # <<>> /\ queue' = Append(queue, Head(out)) /\ Last(queue') = out[1] /\ 1 \in 1 .. Len(out)
<1>1. Send
  <2>1. queue \in Seq(Events) /\ Len(queue) \in Nat
    BY DEF TypeOK
  <2>2. ~ Hear
    <3>1. ASSUME Hear PROVE queue # <<>> /\ queue' = Tail(queue)
      BY <3>1 DEF Hear
    <3>2. queue # <<>> => Len(Tail(queue)) < Len(queue)
      BY <2>1
    <3> QED
      BY <2>1, <3>1, <3>2
  <2>3. ~ UNCHANGED queue
    BY <2>1
  <2>4. ~ UNCHANGED vars /\ ~ StreamEnds /\ ~ SendFails /\ ~ Cancel /\ ~ RoundEnds
    BY <2>3 DEF vars, StreamEnds, SendFails, Cancel, RoundEnds, Elsewhere
  <2>5. ~ Chunk
    BY <2>3 DEF Chunk, ItemAdded, TextDelta, ReasoningDelta, SummaryPartAdded, ArgumentsDelta, ItemDone,
                AnswerEnds, StreamBreaks, Elsewhere
  <2> QED
    BY <2>2, <2>4, <2>5 DEF Next, Task, Loop
<1>2. queue \in Seq(Events) /\ out \in Seq(Events) /\ out # <<>> /\ queue' = Append(queue, Head(out))
  BY <1>1 DEF TypeOK, Send
<1>3. Head(out) = out[1] /\ 1 \in 1 .. Len(out) /\ Head(out) \in Events
  BY <1>2
<1> DEFINE e == Head(out)
<1> HIDE DEF e
<1>4. e \in Events
  BY <1>3 DEF e
<1>5. Append(queue, e)[Len(Append(queue, e))] = e
  BY <1>2, <1>4
<1> QED
  BY <1>2, <1>3, <1>5 DEF Last, e

LEMMA EndsWhatIsOpen ==
  ASSUME TypeOK, Balanced, [Next]_vars, Len(queue') > Len(queue)
  PROVE  LET e == Last(queue') IN
         /\ Ends(e) => Bracket(e) \in brackets
         /\ Starts(e) /\ e.type # "reasoning_start" => Bracket(e) \notin brackets
         /\ e.type = "finish_step" => brackets = {}
<1>1. Last(queue') = out[1] /\ 1 \in 1 .. Len(out)
  BY SentIsFirst
<1>2. Ended(out, 1 - 1) = {}
  BY DEF Ended
<1>3. out[1].type = "finish_step" => brackets \subseteq Ended(out, 1 - 1)
  BY <1>1 DEF Balanced
<1> QED
  BY <1>1, <1>2, <1>3 DEF Balanced

-----------------------------------------------------------------------------
(* What the loop is still to hear.                                         *)

LEMMA AheadIs ==
  ASSUME TypeOK
  PROVE  /\ Ahead \in Seq(Events) /\ Len(Ahead) = Len(queue) + Len(out) /\ Len(queue) \in Nat /\ Len(out) \in Nat
         /\ \A n \in 1 .. Len(queue) + Len(out) :
               Ahead[n] = IF n <= Len(queue) THEN queue[n] ELSE out[n - Len(queue)]
BY ConcatProperties, LenProperties DEF TypeOK, Ahead

\* Chunks and the end of the stream add to it.
LEMMA AheadGrows ==
  ASSUME TypeOK, TypeOK', out = <<>>, UNCHANGED queue
  PROVE  LET k == Len(Ahead)
         IN /\ k \in Nat /\ Len(out') \in Nat /\ Len(Ahead') = k + Len(out')
            /\ \A n \in 1 .. k : Ahead'[n] = Ahead[n] /\ n \in 1 .. Len(Ahead')
            /\ \A n \in 1 .. Len(Ahead') : n \in 1 .. k \/ (n - k \in 1 .. Len(out') /\ Ahead'[n] = out'[n - k])
            /\ \A n \in 1 .. Len(out') : k + n \in 1 .. Len(Ahead') /\ Ahead'[k + n] = out'[n]
<1>1. /\ Len(out) = 0 /\ Len(Ahead) = Len(queue) /\ Len(queue) \in Nat
      /\ \A n \in 1 .. Len(queue) : Ahead[n] = queue[n]
  BY AheadIs
<1>2. /\ Len(queue') = Len(queue) /\ Len(Ahead') = Len(queue) + Len(out') /\ Len(out') \in Nat
      /\ \A n \in 1 .. Len(queue) + Len(out') :
            Ahead'[n] = IF n <= Len(queue) THEN queue[n] ELSE out'[n - Len(queue)]
  <2>1. queue' \in Seq(Events) /\ out' \in Seq(Events) /\ Ahead' = queue' \o out' /\ queue' = queue
    BY DEF TypeOK, Ahead
  <2> HIDE DEF Ahead
  <2> QED
    BY <2>1, ConcatProperties, LenProperties
<1> DEFINE k == Len(queue)
           l == Len(out')
<1> HIDE DEF k, l
<1>3. k \in Nat /\ l \in Nat /\ Len(Ahead') = k + l
  BY <1>1, <1>2 DEF k, l
<1>4. ASSUME NEW n \in 1 .. k PROVE Ahead'[n] = Ahead[n] /\ n \in 1 .. k + l
  BY <1>1, <1>2, <1>3 DEF k, l
<1>5. ASSUME NEW n \in 1 .. k + l PROVE n \in 1 .. k \/ (n - k \in 1 .. l /\ Ahead'[n] = out'[n - k])
  <2>1. CASE n <= k
    BY <1>3, <2>1
  <2>2. CASE ~(n <= k)
    <3>1. n - k \in 1 .. l
      BY <1>3, <2>2
    <3> QED
      BY <1>2, <2>2, <3>1 DEF k, l
  <2> QED
    BY <2>1, <2>2
<1>6. ASSUME NEW n \in 1 .. l PROVE k + n \in 1 .. k + l /\ Ahead'[k + n] = out'[n]
  <2>1. PICK m \in 1 .. k + l : m = k + n /\ ~(m <= k) /\ m - k = n
    BY <1>3
  <2>2. Ahead'[m] = out'[m - k]
    BY <1>2, <2>1 DEF k, l
  <2> QED
    BY <2>1, <2>2
<1> QED
  BY <1>1, <1>3, <1>4, <1>5, <1>6 DEF k, l

LEMMA AheadSent ==
  ASSUME TypeOK, TypeOK', Send PROVE Ahead' = Ahead
<1> DEFINE k == Len(queue)
           l == Len(out)
<1>1. /\ queue \in Seq(Events) /\ out \in Seq(Events) /\ out # <<>>
      /\ queue' = Append(queue, out[1]) /\ out' = Tail(out)
  BY DEF TypeOK, Send
<1>2. k \in Nat /\ l \in Nat /\ l # 0 /\ out[1] \in Events
  BY <1>1
<1>3. /\ Len(queue') = k + 1 /\ \A n \in 1 .. k + 1 : queue'[n] = IF n <= k THEN queue[n] ELSE out[1]
      /\ queue' \in Seq(Events)
  BY <1>1, <1>2
<1>4. Len(out') = l - 1 /\ (\A n \in 1 .. l - 1 : out'[n] = out[n + 1]) /\ out' \in Seq(Events)
  BY <1>1, HeadTailProperties
<1>5. /\ Ahead \in Seq(Events) /\ Len(Ahead) = k + l
      /\ \A n \in 1 .. k + l : Ahead[n] = IF n <= k THEN queue[n] ELSE out[n - k]
  BY AheadIs
<1>6. /\ Ahead' \in Seq(Events) /\ Len(Ahead') = k + 1 + (l - 1)
      /\ \A n \in 1 .. k + 1 + (l - 1) : Ahead'[n] = IF n <= k + 1 THEN queue'[n] ELSE out'[n - (k + 1)]
  <2>1. Ahead' = queue' \o out'
    BY DEF Ahead
  <2>2. /\ queue' \o out' \in Seq(Events) /\ Len(queue' \o out') = Len(queue') + Len(out')
        /\ \A n \in 1 .. Len(queue') + Len(out') :
              (queue' \o out')[n] = IF n <= Len(queue') THEN queue'[n] ELSE out'[n - Len(queue')]
    BY <1>3, <1>4, ConcatProperties
  <2>3. Len(queue') = k + 1 /\ Len(out') = l - 1
    BY <1>3, <1>4
  <2> HIDE DEF Ahead, k, l
  <2> QED
    BY <2>1, <2>2, <2>3
<1> HIDE DEF k, l
<1>7. ASSUME NEW n \in 1 .. k + l PROVE Ahead'[n] = Ahead[n]
  <2>0. n \in 1 .. k + 1 + (l - 1) /\ n \in Nat
    BY <1>2
  <2>1. CASE n <= k
    <3>1. n \in 1 .. k + 1 /\ n <= k + 1
      BY <1>2, <2>0, <2>1
    <3> QED
      BY <1>3, <1>5, <1>6, <2>0, <2>1, <3>1
  <2>2. CASE n = k + 1
    <3>1. n - k = 1 /\ ~(n <= k) /\ n \in 1 .. k + 1 /\ n <= k + 1
      BY <1>2, <2>2
    <3> QED
      BY <1>3, <1>5, <1>6, <2>0, <3>1
  <2>3. CASE n > k + 1
    <3>1. PICK m \in 1 .. l - 1 : m = n - (k + 1) /\ m + 1 = n - k
      BY <1>2, <2>0, <2>3
    <3>2. ~(n <= k + 1) /\ ~(n <= k)
      BY <1>2, <2>0, <2>3
    <3> QED
      BY <1>4, <1>5, <1>6, <2>0, <3>1, <3>2
  <2> QED
    BY <1>2, <2>0, <2>1, <2>2, <2>3
<1>8. k + 1 + (l - 1) = k + l
  BY <1>2
<1> QED
  BY <1>5, <1>6, <1>7, <1>8, SeqEqual

\* The loop takes its first.
LEMMA AheadHeard ==
  ASSUME TypeOK, TypeOK', queue # <<>>, queue' = Tail(queue), UNCHANGED out
  PROVE  /\ Len(Ahead) \in Nat \ {0} /\ Len(Ahead') = Len(Ahead) - 1 /\ Head(queue) = Ahead[1]
         /\ \A n \in 1 .. Len(Ahead) - 1 : Ahead'[n] = Ahead[n + 1]
<1> DEFINE k == Len(queue)
           l == Len(out)
<1>1. queue \in Seq(Events) /\ out \in Seq(Events) /\ k \in Nat /\ l \in Nat /\ k # 0 /\ Head(queue) = queue[1]
  BY DEF TypeOK
<1>2. Len(queue') = k - 1 /\ (\A n \in 1 .. k - 1 : queue'[n] = queue[n + 1]) /\ queue' \in Seq(Events)
  BY <1>1, HeadTailProperties
<1>3. /\ Len(Ahead) = k + l
      /\ \A n \in 1 .. k + l : Ahead[n] = IF n <= k THEN queue[n] ELSE out[n - k]
  BY AheadIs
<1>4. /\ Len(Ahead') = k - 1 + l
      /\ \A n \in 1 .. k - 1 + l : Ahead'[n] = IF n <= k - 1 THEN queue'[n] ELSE out[n - (k - 1)]
  <2>1. Ahead' = queue' \o out
    BY DEF Ahead
  <2> HIDE DEF Ahead
  <2> QED
    BY <1>1, <1>2, <2>1, ConcatProperties
<1> HIDE DEF k, l
<1>5. ASSUME NEW n \in 1 .. k + l - 1 PROVE Ahead'[n] = Ahead[n + 1]
  <2>0. n \in 1 .. k - 1 + l /\ n + 1 \in 1 .. k + l /\ n \in Nat
    BY <1>1
  <2>1. CASE n <= k - 1
    <3>1. n \in 1 .. k - 1 /\ n + 1 <= k
      BY <1>1, <2>0, <2>1
    <3> QED
      BY <1>2, <1>3, <1>4, <2>0, <2>1, <3>1
  <2>2. CASE ~(n <= k - 1)
    <3>1. PICK m \in 1 .. k + l : m = n + 1
      BY <2>0
    <3>2. ~(m <= k) /\ n - (k - 1) = m - k
      BY <1>1, <2>0, <2>2, <3>1
    <3>3. Ahead[m] = out[m - k]
      BY <1>3, <3>2
    <3>4. Ahead'[n] = out[m - k]
      BY <1>4, <2>0, <2>2, <3>2
    <3> QED
      BY <3>1, <3>3, <3>4
  <2> QED
    BY <2>1, <2>2
<1>6. k - 1 + l = k + l - 1 /\ k + l \in Nat \ {0} /\ 1 \in 1 .. k + l /\ 1 <= k
  BY <1>1
<1> QED
  BY <1>1, <1>3, <1>4, <1>5, <1>6

-----------------------------------------------------------------------------
(* Calls and the reason of the end.                                        *)

\* What the new events of a chunk say of calls.
ChunkSays ==
    /\ \A n \in 1 .. Len(out') :
          /\ out'[n].type # "finish_step"
          /\ out'[n].type = "call_end" => n = Len(out') /\ hasCall' /\ \E i \in Items : out'[n].of = i /\ Whole(i)'
          /\ out'[n].type = "input_delta" =>
                ~ Whole(out'[n].of) /\ \A m \in 1 .. Len(out') : out'[m].type # "call_end"
    /\ \A i \in Items : Whole(i) => Whole(i)'
    /\ hasCall' <=> (hasCall \/ \E n \in 1 .. Len(out') : out'[n].type = "call_end")
    /\ (reason = "tool-calls" => ending # "none" /\ Backed(reason))'

LEMMA ChunkHearing ==
  ASSUME TypeOK, TypeOK', Reading, HearingInv, UNCHANGED <<queue, loop, calls, finish>>, ChunkSays
  PROVE  HearingInv'
<1> SUFFICES ASSUME loop = "hearing" PROVE ((hasCall <=> Heard \/ CallAhead) /\ CallsEnd /\ Finishes)'
  BY DEF HearingInv
<1>1. (hasCall <=> Heard \/ CallAhead) /\ CallsEnd /\ Finishes
  BY DEF HearingInv
<1> DEFINE k == Len(Ahead)
<1>2. /\ k \in Nat /\ Len(out') \in Nat /\ Len(Ahead') = k + Len(out')
      /\ \A n \in 1 .. k : Ahead'[n] = Ahead[n] /\ n \in 1 .. Len(Ahead')
      /\ \A n \in 1 .. Len(Ahead') : n \in 1 .. k \/ (n - k \in 1 .. Len(out') /\ Ahead'[n] = out'[n - k])
      /\ \A n \in 1 .. Len(out') : k + n \in 1 .. Len(Ahead') /\ Ahead'[k + n] = out'[n]
  BY AheadGrows DEF Reading
<1> HIDE DEF k
<1>3. \A n \in 1 .. k : Ahead[n] \in Events
  BY AheadIs DEF k
<1>4. \A n \in 1 .. Len(out') : out'[n] \in Events
  BY DEF TypeOK
<1>5. Heard' <=> Heard
  BY DEF Heard
<1>6. CallAhead' <=> CallAhead \/ \E n \in 1 .. Len(out') : out'[n].type = "call_end"
  <2>1. ASSUME CallAhead PROVE CallAhead'
    <3>1. PICK n \in 1 .. k : Ahead[n].type = "call_end"
      BY <2>1 DEF CallAhead, k
    <3> QED
      BY <1>2, <3>1 DEF CallAhead
  <2>2. ASSUME NEW n \in 1 .. Len(out'), out'[n].type = "call_end" PROVE CallAhead'
    BY <1>2, <2>2 DEF CallAhead
  <2>3. ASSUME CallAhead' PROVE CallAhead \/ \E n \in 1 .. Len(out') : out'[n].type = "call_end"
    <3>1. PICK n \in 1 .. Len(Ahead') : Ahead'[n].type = "call_end"
      BY <2>3 DEF CallAhead
    <3> QED
      BY <1>2, <3>1 DEF CallAhead, k
  <2> QED
    BY <2>1, <2>2, <2>3
<1>7. (hasCall <=> Heard \/ CallAhead)'
  BY <1>1, <1>5, <1>6 DEF ChunkSays
<1>8. ASSUME NEW i \in Items, Whole(i), NEW n \in 1 .. k + 1, NoPart(i, n) PROVE NoPart(i, n)'
  <2> SUFFICES ASSUME NEW m \in n .. Len(Ahead'), Ahead'[m].type = "input_delta", Ahead'[m].of = i PROVE FALSE
    BY DEF NoPart
  <2>1. m \in 1 .. Len(Ahead') /\ m >= n
    BY <1>2
  <2>2. CASE m \in 1 .. k
    <3>1. m \in n .. k /\ Ahead'[m] = Ahead[m]
      BY <1>2, <2>1, <2>2
    <3> QED
      BY <1>8, <3>1 DEF NoPart, k
  <2>3. CASE m - k \in 1 .. Len(out') /\ Ahead'[m] = out'[m - k]
    BY <1>8, <2>3 DEF ChunkSays
  <2> QED
    BY <1>2, <2>1, <2>2, <2>3
<1>9. CallsEnd'
  <2>1. ASSUME NEW i \in Items, calls[i] = "whole" PROVE Whole(i)' /\ NoPart(i, 1)'
    <3>1. Whole(i) /\ NoPart(i, 1) /\ 1 \in 1 .. k + 1
      BY <1>1, <1>2, <2>1 DEF CallsEnd
    <3> QED
      BY <1>8, <3>1 DEF ChunkSays
  <2>2. ASSUME NEW n \in 1 .. Len(Ahead'), Ahead'[n].type = "call_end"
        PROVE  (Whole(Ahead[n].of) /\ NoPart(Ahead[n].of, n))'
    <3>1. CASE n \in 1 .. k
      <4>1. Ahead'[n] = Ahead[n] /\ Ahead[n].of \in Items /\ n \in 1 .. k + 1
        BY <1>2, <1>3, <2>2, <3>1, EventsHave DEF OfCalls
      <4>2. Whole(Ahead[n].of) /\ NoPart(Ahead[n].of, n)
        BY <1>1, <2>2, <3>1, <4>1 DEF CallsEnd, k
      <4> DEFINE i == Ahead[n].of
      <4>3. PICK j \in Items : j = i
        BY <4>1
      <4>4. Whole(j)' /\ NoPart(j, n)'
        BY <1>8, <4>1, <4>2, <4>3 DEF ChunkSays
      <4>5. Ahead'[n].of = j
        BY <4>1, <4>3
      <4> QED
        BY <4>4, <4>5 DEF Whole, NoPart, Ahead
    <3>2. CASE n - k \in 1 .. Len(out') /\ Ahead'[n] = out'[n - k]
      <4>1. PICK i \in Items : n - k = Len(out') /\ Ahead'[n].of = i /\ Whole(i)'
        BY <2>2, <3>2 DEF ChunkSays
      <4>2. \A m \in n .. Len(Ahead') : m = n
        BY <1>2, <4>1
      <4>3. NoPart(i, n)'
        BY <2>2, <4>2 DEF NoPart
      <4> QED
        BY <4>1, <4>3 DEF Whole, NoPart, Ahead
    <3> QED
      BY <1>2, <2>2, <3>1, <3>2
  <2> QED
    BY <2>1, <2>2 DEF CallsEnd
<1>10. Finishes'
  <2>1. finish' = "none"
    BY <1>1 DEF Finishes, Reading
  <2>2. ASSUME NEW n \in 1 .. Len(Ahead') PROVE Ahead'[n].type # "finish_step"
    <3>1. CASE n \in 1 .. k
      BY <1>1, <1>2, <3>1 DEF Finishes, Reading, k
    <3>2. CASE n - k \in 1 .. Len(out') /\ Ahead'[n] = out'[n - k]
      BY <3>2 DEF ChunkSays
    <3> QED
      BY <1>2, <3>1, <3>2
  <2>3. (reason = "tool-calls" => ending # "none" /\ Backed(reason))'
    BY DEF ChunkSays
  <2> QED
    BY <2>1, <2>2, <2>3 DEF Finishes
<1> QED
  BY <1>7, <1>9, <1>10

\* Events that say nothing of a call.
Silent(e) == e.type \notin {"finish_step", "call_end", "input_delta"}

LEMMA SilentChunk ==
  ASSUME Finishes, Reading, UNCHANGED <<hasCall, reason>>,
         \A n \in 1 .. Len(out') : Silent(out'[n]), \A i \in Items : Whole(i) => Whole(i)'
  PROVE  ChunkSays
BY DEF ChunkSays, Silent, Finishes, Reading

LEMMA SilentOne == ASSUME NEW e, Silent(e) PROVE \A n \in 1 .. Len(<<e>>) : Silent(<<e>>[n])
<1>1. Len(<<e>>) = 1 /\ <<e>>[1] = e /\ \A n \in 1 .. 1 : n = 1
  OBVIOUS
<1> QED
  BY <1>1

LEMMA SilentTwo == ASSUME NEW e, NEW f, Silent(e), Silent(f) PROVE \A n \in 1 .. Len(<<e, f>>) : Silent(<<e, f>>[n])
<1>1. Len(<<e, f>>) = 2 /\ <<e, f>>[1] = e /\ <<e, f>>[2] = f /\ \A n \in 1 .. 2 : n = 1 \/ n = 2
  OBVIOUS
<1> QED
  BY <1>1

LEMMA SilentNone == \A n \in 1 .. Len(<<>>) : Silent(<<>>[n])
OBVIOUS

LEMMA SilentEvents ==
  ASSUME NEW t \in {"text_start", "text_delta", "text_end", "reasoning_start", "reasoning_delta", "reasoning_end",
                    "input_start", "error", "err"}, NEW x
  PROVE  Silent(Event(t, x))
BY DEF Silent, Event

LEMMA ChunksSay ==
  ASSUME TypeOK, ItemsTell, Finishes, Chunk PROVE ChunkSays
<1>0. Reading
  BY DEF Chunk, ItemAdded, TextDelta, ReasoningDelta, SummaryPartAdded, ArgumentsDelta, ItemDone,
         AnswerEnds, StreamBreaks
<1>1. ASSUME NEW i \in Items, ItemAdded(i) PROVE ChunkSays
  <2>1. /\ kind[i] = "none" /\ open' = open \cup {i} /\ UNCHANGED reason
        /\ \E k \in Kinds : kind' = [kind EXCEPT ![i] = k]
    BY <1>1 DEF ItemAdded
  <2>2. \A j \in Items : Whole(j) => Whole(j)'
    BY <2>1 DEF Whole, TypeOK
  <2>3. CASE MessageAdded(i)
    <3>1. UNCHANGED hasCall /\ (out' = <<>> \/ out' = <<Event("text_start", None)>>)
      BY <2>3 DEF MessageAdded
    <3>2. \A n \in 1 .. Len(out') : Silent(out'[n])
      BY <3>1, SilentOne, SilentNone, SilentEvents
    <3> QED
      BY <1>0, <2>1, <2>2, <3>1, <3>2, SilentChunk
  <2>4. CASE ReasoningAdded(i)
    <3>1. UNCHANGED hasCall /\ out' = <<Event("reasoning_start", i)>>
      BY <2>4 DEF ReasoningAdded
    <3>2. \A n \in 1 .. Len(out') : Silent(out'[n])
      BY <3>1, SilentOne, SilentEvents
    <3> QED
      BY <1>0, <2>1, <2>2, <3>1, <3>2, SilentChunk
  <2>5. CASE CallAdded(i)
    <3>1. UNCHANGED hasCall
      BY <2>5 DEF CallAdded
    <3>2. CASE out' = <<Event("input_start", i)>>
      <4>1. \A n \in 1 .. Len(out') : Silent(out'[n])
        BY <3>2, SilentOne, SilentEvents
      <4> QED
        BY <1>0, <2>1, <2>2, <3>1, <4>1, SilentChunk
    <3>3. CASE out' = <<Event("input_start", i), Event("input_delta", i)>>
      <4>1. \A n \in 1 .. Len(out') : out'[n].of = i /\ out'[n].type \in {"input_start", "input_delta"}
        BY <3>3 DEF Event
      <4>2. ~ Whole(i)
        BY <2>1 DEF Whole
      <4> QED
        BY <1>0, <2>1, <2>2, <3>1, <4>1, <4>2 DEF ChunkSays, Finishes, Reading
    <3> QED
      BY <2>5, <3>2, <3>3 DEF CallAdded
  <2> QED
    BY <1>1, <2>3, <2>4, <2>5 DEF ItemAdded
<1>2. ASSUME NEW i \in Items, TextDelta(i) PROVE ChunkSays
  <2>1. UNCHANGED <<hasCall, reason, kind, open>>
    BY <1>2 DEF TextDelta
  <2> DEFINE f == Event("text_delta", Len(said'))
             e == Event("text_start", None)
  <2>2. Silent(e) /\ Silent(f)
    BY SilentEvents
  <2>3. out' = <<>> \o <<f>> \/ out' = <<e>> \o <<f>>
    BY <1>2 DEF TextDelta
  <2>4. <<>> \o <<f>> = <<f>>
    OBVIOUS
  <2> HIDE DEF e, f
  <2>5. \A n \in 1 .. Len(out') : Silent(out'[n])
    BY <2>2, <2>3, <2>4, JoinedPair, SilentOne, SilentTwo
  <2>6. \A j \in Items : Whole(j) => Whole(j)'
    BY <2>1 DEF Whole
  <2> QED
    BY <1>0, <2>1, <2>5, <2>6, SilentChunk
<1>3. ASSUME NEW i \in Items, ReasoningDelta(i) \/ SummaryPartAdded(i) PROVE ChunkSays
  <2>1. UNCHANGED <<hasCall, reason, kind, open>>
    BY <1>3 DEF ReasoningDelta, SummaryPartAdded, parser, service
  <2>2. \A j \in Items : Whole(j) => Whole(j)'
    BY <2>1 DEF Whole
  <2>3. out' = <<>> \/ \E t \in {"reasoning_start", "reasoning_delta"} : \E x : out' = <<Event(t, x)>>
    BY <1>3 DEF ReasoningDelta, SummaryPartAdded
  <2>4. \A n \in 1 .. Len(out') : Silent(out'[n])
    BY <2>3, SilentOne, SilentNone, SilentEvents
  <2> QED
    BY <1>0, <2>1, <2>2, <2>4, SilentChunk
<1>4. ASSUME NEW i \in Items, ArgumentsDelta(i) PROVE ChunkSays
  <2>1. UNCHANGED <<hasCall, reason, kind, open, ending>> /\ i \in open
    BY <1>4 DEF ArgumentsDelta, parser, service
  <2>2. \A j \in Items : Whole(j) => Whole(j)'
    BY <2>1 DEF Whole
  <2>3. out' = <<>> \/ out' = <<Event("input_delta", i)>>
    BY <1>4 DEF ArgumentsDelta
  <2>4. \A n \in 1 .. Len(out') : out'[n].of = i /\ out'[n].type = "input_delta"
    BY <2>3 DEF Event
  <2>5. ~ Whole(i)
    BY <2>1 DEF Whole
  <2> QED
    BY <1>0, <2>1, <2>2, <2>4, <2>5 DEF ChunkSays, Finishes, Reading
<1>5. ASSUME NEW i \in Items, ItemDone(i) PROVE ChunkSays
  <2>1. i \in open /\ open' = open \ {i} /\ UNCHANGED <<kind, reason, ending>>
    BY <1>5 DEF ItemDone
  <2>2. \A j \in Items : Whole(j) => Whole(j)'
    BY <2>1 DEF Whole
  <2>3. CASE MessageDone(i) \/ ReasoningDone(i)
    <3>1. /\ UNCHANGED hasCall
          /\ out' = <<>> \/ \E t \in {"text_end", "reasoning_end"} : \E x : out' = <<Event(t, x)>>
      BY <2>3 DEF MessageDone, ReasoningDone
    <3>2. \A n \in 1 .. Len(out') : Silent(out'[n])
      BY <3>1, SilentOne, SilentNone, SilentEvents
    <3> QED
      BY <1>0, <2>1, <2>2, <3>1, <3>2, SilentChunk
  <2>4. CASE kind[i] = "call" /\ CallDone(i)
    <3>1. hasCall' /\ out' = <<Event("input_end", i), Event("call_end", i)>>
      BY <2>4 DEF CallDone
    <3>2. /\ Len(out') = 2 /\ out'[1].type = "input_end" /\ out'[2].type = "call_end" /\ out'[2].of = i
          /\ \A n \in 1 .. 2 : n = 1 \/ n = 2
      BY <3>1 DEF Event
    <3>3. Whole(i)'
      BY <2>1, <2>4 DEF Whole
    <3>4. reason # "tool-calls"
      BY <1>0 DEF Finishes, Reading
    <3> QED
      BY <2>1, <2>2, <3>1, <3>2, <3>3, <3>4 DEF ChunkSays
  <2> QED
    BY <1>5, <2>3, <2>4 DEF ItemDone
<1>6. ASSUME AnswerEnds PROVE ChunkSays
  <2>1. UNCHANGED <<hasCall, kind, open>> /\ (out' = <<>> \/ out' = <<Event("error", None)>>)
    BY <1>6 DEF AnswerEnds
  <2>2. \A j \in Items : Whole(j) => Whole(j)'
    BY <2>1 DEF Whole
  <2>3. \A n \in 1 .. Len(out') : Silent(out'[n])
    BY <2>1, SilentOne, SilentNone, SilentEvents
  <2>4. reason' = "tool-calls" => ending' # "none" /\ Backed(reason')
    <3>1. \A d : Backed(FinishReason(d, hasCall))
      BY DEF FinishReason, Backed
    <3>2. reason # "tool-calls"
      BY <1>0 DEF Finishes, Reading
    <3>3. Backed("error")
      BY DEF Backed
    <3> QED
      BY <1>6, <3>1, <3>2, <3>3 DEF AnswerEnds
  <2> QED
    BY <2>1, <2>2, <2>3, <2>4 DEF ChunkSays, Silent, Backed
<1>7. ASSUME StreamBreaks PROVE ChunkSays
  <2>1. UNCHANGED <<hasCall, kind, open, reason>> /\ out' = <<Event("err", None)>>
    BY <1>7 DEF StreamBreaks, parser
  <2>2. \A j \in Items : Whole(j) => Whole(j)'
    BY <2>1 DEF Whole
  <2>3. \A n \in 1 .. Len(out') : Silent(out'[n])
    BY <2>1, SilentOne, SilentEvents
  <2> QED
    BY <1>0, <2>1, <2>2, <2>3, SilentChunk
<1> QED
  BY <1>1, <1>2, <1>3, <1>4, <1>5, <1>6, <1>7 DEF Chunk

LEMMA StreamEndsHearing ==
  ASSUME TypeOK, TypeOK', ItemsTell, HearingInv, StreamEnds PROVE HearingInv'
<1> SUFFICES ASSUME loop = "hearing" PROVE ((hasCall <=> Heard \/ CallAhead) /\ CallsEnd /\ Finishes)'
  BY DEF HearingInv, StreamEnds, Elsewhere, reader
<1>1. (hasCall <=> Heard \/ CallAhead) /\ CallsEnd /\ Finishes
  BY DEF HearingInv, StreamEnds, Elsewhere, reader
<1>2. /\ UNCHANGED <<hasCall, reason, kind, open, ending, queue, calls, finish>>
      /\ out = <<>> /\ task = "reading" /\ task' = "closing" /\ ending # "none"
  BY DEF StreamEnds, Elsewhere, reader, message, service, parser
<1>3. PICK r \in Reasons :
        /\ r = IF reason = "unknown" THEN FinishReason("none", hasCall) ELSE reason
        /\ out' = Closing \o <<Event("finish_step", r), Event("finish", None), Event("done", None)>>
  BY StreamEndsFinishes
<1>4. Backed(r)
  BY <1>1, <1>3 DEF Backed, FinishReason, Finishes
<1> DEFINE k == Len(Ahead)
           l == Len(Closing)
           c == Closing
           f == <<Event("finish_step", r), Event("finish", None), Event("done", None)>>
<1>5. /\ l \in Nat /\ Len(out') = l + 3
      /\ \A n \in 1 .. l : Silent(out'[n])
      /\ out'[l + 1].type = "finish_step" /\ out'[l + 1].of = r
      /\ out'[l + 2].type = "finish" /\ out'[l + 3].type = "done"
  <2>1. c \in Seq(Events) /\ l \in Nat /\ \A n \in 1 .. l : Ends(c[n])
    BY ClosingEnds
  <2>2. /\ f \in Seq(Events) /\ Len(f) = 3 /\ f[1].type = "finish_step" /\ f[1].of = r
        /\ f[2].type = "finish" /\ f[3].type = "done"
    BY EventsAreTyped DEF Event
  <2> HIDE DEF c, f
  <2>3. /\ Len(c \o f) = Len(c) + Len(f)
        /\ \A n \in 1 .. Len(c) + Len(f) : (c \o f)[n] = IF n <= Len(c) THEN c[n] ELSE f[n - Len(c)]
    BY <2>1, <2>2, ConcatProperties
  <2>4. out' = c \o f /\ Len(c) = l
    BY <1>3 DEF c, f
  <2> HIDE DEF l
  <2>5. ASSUME NEW n \in 1 .. l PROVE Silent(out'[n])
    <3>1. n \in 1 .. l + 3 /\ n <= l
      BY <2>1
    <3>2. out'[n] = c[n]
      BY <2>2, <2>3, <2>4, <3>1
    <3>3. \A e : Ends(e) => Silent(e)
      BY DEF Ends, Silent
    <3> QED
      BY <2>1, <3>2, <3>3
  <2>6. ASSUME NEW j \in 1 .. 3 PROVE out'[l + j] = f[j]
    <3>1. PICK n \in 1 .. l + 3 : n = l + j /\ ~(n <= l) /\ n - l = j
      BY <2>1
    <3> QED
      BY <2>2, <2>3, <2>4, <3>1
  <2>7. 1 \in 1 .. 3 /\ 2 \in 1 .. 3 /\ 3 \in 1 .. 3
    OBVIOUS
  <2> QED
    BY <2>1, <2>2, <2>3, <2>4, <2>5, <2>6, <2>7
<1>6. /\ k \in Nat /\ Len(out') \in Nat /\ Len(Ahead') = k + Len(out')
      /\ \A n \in 1 .. k : Ahead'[n] = Ahead[n] /\ n \in 1 .. Len(Ahead')
      /\ \A n \in 1 .. Len(Ahead') : n \in 1 .. k \/ (n - k \in 1 .. Len(out') /\ Ahead'[n] = out'[n - k])
  BY <1>2, AheadGrows
<1> HIDE DEF k, l, c, f
<1>7. ASSUME NEW n \in 1 .. Len(Ahead')
      PROVE  \/ n \in 1 .. k /\ Ahead'[n] = Ahead[n]
             \/ Silent(Ahead'[n]) /\ n < k + l + 1
             \/ n = k + l + 1 /\ Ahead'[n].type = "finish_step" /\ Ahead'[n].of = r
             \/ n > k + l + 1 /\ Ahead'[n].type \in {"finish", "done"}
  <2>1. CASE n \in 1 .. k
    BY <1>6, <2>1
  <2>2. CASE n - k \in 1 .. Len(out') /\ Ahead'[n] = out'[n - k]
    <3>1. PICK m \in 1 .. l + 3 : m = n - k /\ n = k + m /\ Ahead'[n] = out'[m]
      BY <1>5, <1>6, <2>2
    <3>2. m \in 1 .. l \/ m = l + 1 \/ m = l + 2 \/ m = l + 3
      BY <1>5
    <3>3. CASE m \in 1 .. l
      BY <1>5, <1>6, <3>1, <3>3
    <3>4. CASE m = l + 1
      BY <1>5, <1>6, <3>1, <3>4
    <3>5. CASE m = l + 2
      BY <1>5, <1>6, <3>1, <3>5
    <3>6. CASE m = l + 3
      BY <1>5, <1>6, <3>1, <3>6
    <3> QED
      BY <3>2, <3>3, <3>4, <3>5, <3>6
  <2> QED
    BY <1>6, <2>1, <2>2
<1>8. \A n \in 1 .. Len(Ahead') :
         Ahead'[n].type \in {"call_end", "input_delta"} => n \in 1 .. k /\ Ahead'[n] = Ahead[n]
  BY <1>7 DEF Silent
<1>9. \A n \in 1 .. k : Ahead[n].type # "finish_step" /\ Ahead[n] \in Events
  BY <1>1, <1>2, AheadIs DEF Finishes, k
<1>10. (hasCall <=> Heard \/ CallAhead)'
  <2>1. CallAhead' <=> CallAhead
    BY <1>6, <1>8 DEF CallAhead, k
  <2> QED
    BY <1>1, <1>2, <2>1 DEF Heard
<1>11. ASSUME NEW i \in Items, NEW n \in 1 .. k + 1, NoPart(i, n) PROVE NoPart(i, n)'
  <2> SUFFICES ASSUME NEW m \in n .. Len(Ahead'), Ahead'[m].type = "input_delta", Ahead'[m].of = i PROVE FALSE
    BY DEF NoPart
  <2>1. m \in 1 .. Len(Ahead') /\ m >= n
    BY <1>5, <1>6
  <2>2. m \in n .. k /\ Ahead'[m] = Ahead[m]
    BY <1>6, <1>8, <2>1
  <2> QED
    BY <1>11, <2>2 DEF NoPart, k
<1>12. CallsEnd'
  <2>1. ASSUME NEW i \in Items, calls[i] = "whole" PROVE Whole(i)' /\ NoPart(i, 1)'
    <3>1. Whole(i) /\ NoPart(i, 1) /\ 1 \in 1 .. k + 1
      BY <1>1, <1>6, <2>1 DEF CallsEnd
    <3> QED
      BY <1>2, <1>11, <3>1 DEF Whole
  <2>2. ASSUME NEW n \in 1 .. Len(Ahead'), Ahead'[n].type = "call_end"
        PROVE  (Whole(Ahead[n].of) /\ NoPart(Ahead[n].of, n))'
    <3>1. n \in 1 .. k /\ Ahead'[n] = Ahead[n] /\ n \in 1 .. k + 1 /\ Ahead[n].of \in Items
      BY <1>6, <1>8, <1>9, <2>2, EventsHave DEF OfCalls
    <3>2. PICK i \in Items : Ahead[n].of = i
      BY <3>1
    <3>3. Whole(i) /\ NoPart(i, n)
      BY <1>1, <2>2, <3>1, <3>2 DEF CallsEnd, k
    <3>4. Whole(i)' /\ NoPart(i, n)'
      BY <1>2, <1>11, <3>1, <3>3 DEF Whole
    <3> QED
      BY <3>1, <3>2, <3>4 DEF Whole, NoPart, Ahead
  <2> QED
    BY <1>2, <2>1, <2>2 DEF CallsEnd
<1>13. Finishes'
  <2>1. finish' = "none"
    BY <1>1, <1>2 DEF Finishes
  <2>2. ASSUME NEW n \in 1 .. Len(Ahead'), Ahead'[n].type = "finish_step"
        PROVE  (Backed(Ahead[n].of) /\ AreLast(n + 1))'
    <3>1. n = k + l + 1 /\ Ahead'[n].of = r
      BY <1>7, <1>9, <2>2 DEF Silent
    <3>2. \A m \in n + 1 .. Len(Ahead') : Ahead'[m].type \in {"finish", "done"}
      <4> SUFFICES ASSUME NEW m \in n + 1 .. Len(Ahead') PROVE Ahead'[m].type \in {"finish", "done"}
        OBVIOUS
      <4>1. m \in 1 .. Len(Ahead') /\ m > k + l + 1 /\ ~(m < k + l + 1) /\ m # k + l + 1 /\ m \notin 1 .. k
        BY <1>5, <1>6, <3>1
      <4> QED
        BY <1>7, <4>1
    <3> QED
      BY <1>2, <1>4, <3>1, <3>2 DEF Backed, AreLast
  <2> QED
    BY <1>1, <1>2, <2>1, <2>2 DEF Finishes, Backed
<1> QED
  BY <1>10, <1>12, <1>13

\* A step of the loop that goes on hearing.
LEMMA HearKeeps ==
  ASSUME TypeOK, TypeOK', HearingInv, AsksAgainForCalls, Hear, loop' = "hearing"
  PROVE  HearingInv' /\ AsksAgainForCalls'
<1> DEFINE k == Len(Ahead) - 1
           e == Ahead[1]
<1>1. /\ loop = "hearing" /\ queue # <<>> /\ queue' = Tail(queue) /\ ~ cancelled
      /\ UNCHANGED <<service, task, out, parser>>
  BY DEF Hear
<1>2. (hasCall <=> Heard \/ CallAhead) /\ CallsEnd /\ Finishes
  BY <1>1 DEF HearingInv
<1>3. /\ Len(Ahead) = k + 1 /\ k \in Nat /\ Len(Ahead') = k /\ Head(queue) = e
      /\ \A n \in 1 .. k : Ahead'[n] = Ahead[n + 1] /\ n + 1 \in 1 .. k + 1 /\ n + 1 # 1
      /\ 1 \in 1 .. k + 1
  BY <1>1, AheadHeard
<1>4. UNCHANGED <<hasCall, kind, open, reason, ending, task>>
  BY <1>1 DEF service, parser
<1>5. \/ e.type \in {"text_delta", "reasoning_delta"} /\ HearText(e)
      \/ e.type \in {"input_start", "input_delta", "call_end"} /\ HearCall(e)
      \/ e.type = "finish_step" /\ HearFinish(e)
      \/ /\ e.type \in {"start", "start_step", "text_start", "text_end", "reasoning_start", "reasoning_end",
                         "input_end"}
         /\ UNCHANGED message
  BY <1>1, <1>3 DEF Hear
<1>6. e \in Events /\ \A n \in 1 .. k + 1 : Ahead[n] \in Events
  BY <1>3, AheadIs
<1> HIDE DEF k, e
<1>7. ASSUME NEW i \in Items, NEW n \in 1 .. k + 1, NEW m \in 1 .. k + 1, NoPart(i, n), n <= m + 1
      PROVE  NoPart(i, m)'
  <2> SUFFICES ASSUME NEW j \in m .. Len(Ahead'), Ahead'[j].type = "input_delta", Ahead'[j].of = i PROVE FALSE
    BY DEF NoPart
  <2>1. j \in 1 .. k /\ j + 1 \in n .. Len(Ahead) /\ Ahead'[j] = Ahead[j + 1]
    BY <1>3, <1>7
  <2> QED
    BY <1>7, <2>1 DEF NoPart
<1>8. CallAhead <=> e.type = "call_end" \/ CallAhead'
  <2>1. ASSUME CallAhead PROVE e.type = "call_end" \/ CallAhead'
    <3>1. PICK n \in 1 .. k + 1 : Ahead[n].type = "call_end"
      BY <1>3, <2>1 DEF CallAhead
    <3>2. CASE n = 1
      BY <3>1, <3>2 DEF e
    <3>3. CASE n # 1
      <4>1. PICK m \in 1 .. k : n = m + 1
        <5>1. n - 1 \in 1 .. k /\ n = n - 1 + 1
          BY <1>3, <3>3
        <5> QED
          BY <5>1
      <4> QED
        BY <1>3, <3>1, <4>1 DEF CallAhead
    <3> QED
      BY <3>2, <3>3
  <2>2. ASSUME e.type = "call_end" PROVE CallAhead
    BY <1>3, <2>2 DEF CallAhead, e
  <2>3. ASSUME CallAhead' PROVE CallAhead
    <3>1. PICK n \in 1 .. k : Ahead'[n].type = "call_end"
      BY <1>3, <2>3 DEF CallAhead
    <3> QED
      BY <1>3, <3>1 DEF CallAhead
  <2> QED
    BY <2>1, <2>2, <2>3
<1>9. ASSUME NEW n \in 1 .. Len(Ahead'), Ahead'[n].type = "call_end"
      PROVE  (Whole(Ahead[n].of) /\ NoPart(Ahead[n].of, n))'
  <2>1. n \in 1 .. k /\ Ahead'[n] = Ahead[n + 1] /\ n + 1 \in 1 .. k + 1 /\ n \in 1 .. k + 1 /\ n + 1 <= n + 1
    BY <1>3
  <2>2. PICK i \in Items : Ahead[n + 1].of = i
    BY <1>6, <1>9, <2>1, EventsHave DEF OfCalls
  <2>3. Whole(i) /\ NoPart(i, n + 1)
    BY <1>2, <1>3, <1>9, <2>1, <2>2 DEF CallsEnd
  <2>4. Whole(i)' /\ NoPart(i, n)'
    BY <1>4, <1>7, <2>1, <2>3 DEF Whole
  <2> QED
    BY <2>1, <2>2, <2>4 DEF Whole, NoPart, Ahead
<1>10. ASSUME NEW n \in 1 .. Len(Ahead'), Ahead'[n].type = "finish_step"
       PROVE  (task # "reading" /\ Backed(Ahead[n].of) /\ AreLast(n + 1))'
  <2>1. n \in 1 .. k /\ Ahead'[n] = Ahead[n + 1] /\ n + 1 \in 1 .. k + 1
    BY <1>3
  <2>2. task # "reading" /\ Backed(Ahead[n + 1].of) /\ AreLast(n + 2)
    <3>1. n + 1 + 1 = n + 2
      BY <2>1
    <3> QED
      BY <1>2, <1>3, <1>10, <2>1, <3>1 DEF Finishes
  <2>3. ASSUME NEW m \in n + 1 .. Len(Ahead') PROVE Ahead'[m].type \in {"finish", "done"}
    <3>1. m \in 1 .. k /\ m + 1 \in n + 2 .. Len(Ahead)
      BY <1>3, <2>1
    <3> QED
      BY <1>3, <2>2, <3>1 DEF AreLast
  <2> QED
    BY <1>4, <2>1, <2>2, <2>3 DEF Backed, AreLast
<1>11. (reason = "tool-calls" => ending # "none" /\ Backed(reason))'
  BY <1>2, <1>4 DEF Finishes, Backed
<1>12. finish # "none" => e.type \in {"finish", "done"} /\ task # "reading" /\ AreLast(1)
  BY <1>2, <1>3 DEF Finishes, AreLast, e
<1>13. CASE e.type # "finish_step" /\ e.type # "call_end" /\ e.type # "input_delta" /\ UNCHANGED finish
           /\ \A i \in Items : calls[i] = "whole" <=> calls'[i] = "whole"
  <2>1. finish' = "none"
    BY <1>5, <1>12, <1>13
  <2>2. (hasCall <=> Heard \/ CallAhead)'
    BY <1>2, <1>4, <1>8, <1>13 DEF Heard
  <2>3. ASSUME NEW i \in Items, calls'[i] = "whole" PROVE Whole(i)' /\ NoPart(i, 1)'
    <3>1. Whole(i) /\ NoPart(i, 1) /\ 1 \in 1 .. k + 1 /\ 1 <= 1 + 1
      BY <1>2, <1>3, <1>13, <2>3 DEF CallsEnd
    <3> QED
      BY <1>4, <1>7, <3>1 DEF Whole
  <2>4. CallsEnd' /\ Finishes'
    BY <1>9, <1>10, <1>11, <2>1, <2>3 DEF CallsEnd, Finishes
  <2> QED
    BY <2>1, <2>2, <2>4 DEF HearingInv, AsksAgainForCalls
<1>14. CASE e.type = "input_delta" /\ HearCall(e)
  <2>1. PICK i \in Items : e.of = i
    BY <1>6, <1>14, EventsHave DEF OfCalls
  <2>2. calls[i] # "whole"
    <3>1. ASSUME NoPart(i, 1) PROVE FALSE
      <4>1. 1 \in 1 .. Len(Ahead)
        BY <1>3
      <4> QED
        BY <1>14, <2>1, <3>1, <4>1 DEF NoPart, e
    <3> QED
      BY <1>2, <3>1 DEF CallsEnd
  <2>3. calls' = [calls EXCEPT ![i] = "part"] /\ UNCHANGED finish
    BY <1>14, <2>1 DEF HearCall
  <2>4. \A j \in Items : calls[j] = "whole" <=> calls'[j] = "whole"
    BY <2>2, <2>3 DEF TypeOK
  <2>5. finish' = "none"
    BY <1>12, <1>14, <2>3
  <2>6. (hasCall <=> Heard \/ CallAhead)'
    BY <1>2, <1>4, <1>8, <1>14, <2>4 DEF Heard
  <2>7. ASSUME NEW j \in Items, calls'[j] = "whole" PROVE Whole(j)' /\ NoPart(j, 1)'
    <3>1. Whole(j) /\ NoPart(j, 1) /\ 1 \in 1 .. k + 1 /\ 1 <= 1 + 1
      BY <1>2, <1>3, <2>4, <2>7 DEF CallsEnd
    <3> QED
      BY <1>4, <1>7, <3>1 DEF Whole
  <2>8. CallsEnd' /\ Finishes'
    BY <1>9, <1>10, <1>11, <2>5, <2>7 DEF CallsEnd, Finishes
  <2> QED
    BY <2>5, <2>6, <2>8 DEF HearingInv, AsksAgainForCalls
<1>15. CASE e.type = "call_end" /\ HearCall(e)
  <2>1. PICK i \in Items : e.of = i
    BY <1>6, <1>15, EventsHave DEF OfCalls
  <2>2. Whole(i) /\ NoPart(i, 1)
    BY <1>2, <1>3, <1>15, <2>1 DEF CallsEnd, e
  <2>3. calls' = [calls EXCEPT ![i] = "whole"] /\ UNCHANGED finish
    BY <1>15, <2>1 DEF HearCall
  <2>4. calls'[i] = "whole" /\ \A j \in Items : calls'[j] = "whole" => calls[j] = "whole" \/ j = i
    BY <2>3 DEF TypeOK
  <2>5. finish' = "none"
    BY <1>12, <1>15, <2>3
  <2>6. (hasCall <=> Heard \/ CallAhead)'
    BY <1>2, <1>4, <1>8, <1>15, <2>4 DEF Heard
  <2>7. ASSUME NEW j \in Items, calls'[j] = "whole" PROVE Whole(j)' /\ NoPart(j, 1)'
    <3>1. Whole(j) /\ NoPart(j, 1) /\ 1 \in 1 .. k + 1 /\ 1 <= 1 + 1
      BY <1>2, <1>3, <2>2, <2>4, <2>7 DEF CallsEnd
    <3> QED
      BY <1>4, <1>7, <3>1 DEF Whole
  <2>8. CallsEnd' /\ Finishes'
    BY <1>9, <1>10, <1>11, <2>5, <2>7 DEF CallsEnd, Finishes
  <2> QED
    BY <2>5, <2>6, <2>8 DEF HearingInv, AsksAgainForCalls
<1>16. CASE e.type = "finish_step" /\ HearFinish(e)
  <2>1. finish' = e.of /\ UNCHANGED calls
    BY <1>16 DEF HearFinish
  <2>2. task # "reading" /\ Backed(e.of) /\ AreLast(2)
    <3>1. 1 + 1 = 2
      OBVIOUS
    <3> QED
      BY <1>2, <1>3, <1>16, <3>1 DEF Finishes, e
  <2>3. ASSUME NEW m \in 1 .. Len(Ahead') PROVE Ahead'[m].type \in {"finish", "done"}
    <3>1. m \in 1 .. k /\ m + 1 \in 2 .. Len(Ahead)
      BY <1>3
    <3> QED
      BY <1>3, <2>2, <3>1 DEF AreLast
  <2>4. ~ CallAhead' /\ ~ CallAhead
    BY <1>8, <1>16, <2>3 DEF CallAhead
  <2>5. (hasCall <=> Heard \/ CallAhead)'
    BY <1>2, <1>4, <2>1, <2>4 DEF Heard
  <2>6. AsksAgainForCalls'
    BY <1>2, <2>1, <2>2, <2>4 DEF AsksAgainForCalls, Backed, Heard
  <2>7. ASSUME NEW j \in Items, calls'[j] = "whole" PROVE Whole(j)' /\ NoPart(j, 1)'
    <3>1. Whole(j) /\ NoPart(j, 1) /\ 1 \in 1 .. k + 1 /\ 1 <= 1 + 1
      BY <1>2, <1>3, <2>1, <2>7 DEF CallsEnd
    <3> QED
      BY <1>4, <1>7, <3>1 DEF Whole
  <2>8. AreLast(1)' /\ task' # "reading"
    BY <1>4, <2>2, <2>3 DEF AreLast
  <2>9. CallsEnd' /\ Finishes'
    BY <1>9, <1>10, <1>11, <2>7, <2>8 DEF CallsEnd, Finishes
  <2> QED
    BY <2>5, <2>6, <2>9 DEF HearingInv
<1>17. CASE e.type = "input_start" /\ HearCall(e)
  <2>1. PICK i \in Items : e.of = i
    BY <1>6, <1>17, EventsHave DEF OfCalls
  <2>2. calls' = [calls EXCEPT ![i] = IF @ = "none" THEN "named" ELSE @] /\ UNCHANGED finish
    BY <1>17, <2>1 DEF HearCall
  <2>3. \A j \in Items : calls[j] = "whole" <=> calls'[j] = "whole"
    BY <2>2 DEF TypeOK
  <2> QED
    BY <1>13, <1>17, <2>2, <2>3
<1>18. CASE e.type \in {"text_delta", "reasoning_delta"} /\ HearText(e)
  BY <1>13, <1>18 DEF HearText
<1>19. CASE /\ e.type \in {"start", "start_step", "text_start", "text_end", "reasoning_start", "reasoning_end",
                            "input_end"}
            /\ UNCHANGED message
  BY <1>13, <1>19 DEF message
<1> QED
  BY <1>5, <1>14, <1>15, <1>16, <1>17, <1>18, <1>19

LEMMA HearingKept ==
  ASSUME TypeOK, TypeOK', ItemsTell, HearingInv, AsksAgainForCalls, [Next]_vars
  PROVE  HearingInv' /\ AsksAgainForCalls'
<1>1. CASE Chunk
  <2>1. Reading /\ UNCHANGED <<queue, loop, calls, finish>>
    BY <1>1 DEF Chunk, ItemAdded, TextDelta, ReasoningDelta, SummaryPartAdded, ArgumentsDelta, ItemDone,
                AnswerEnds, StreamBreaks, Elsewhere, reader, message
  <2>2. CASE loop = "hearing"
    BY <1>1, <2>1, <2>2, ChunksSay, ChunkHearing DEF HearingInv, AsksAgainForCalls
  <2>3. CASE loop # "hearing"
    BY <2>1, <2>3 DEF HearingInv, AsksAgainForCalls
  <2> QED
    BY <2>2, <2>3
<1>2. CASE StreamEnds
  <2>1. UNCHANGED <<calls, finish>>
    BY <1>2 DEF StreamEnds, Elsewhere, reader, message
  <2> QED
    BY <1>2, <2>1, StreamEndsHearing DEF AsksAgainForCalls
<1>3. CASE Send
  <2>1. /\ Ahead' = Ahead /\ UNCHANGED <<hasCall, kind, open, reason, ending, loop, calls, finish>>
        /\ task # "reading" => task' # "reading"
    BY <1>3, AheadSent DEF Send, service, parser, reader, message
  <2>2. UNCHANGED <<Heard, CallAhead>>
    BY <2>1 DEF Heard, CallAhead
  <2>3. CallsEnd => CallsEnd'
    BY <2>1 DEF CallsEnd, Whole, NoPart
  <2>4. Finishes => Finishes'
    BY <2>1 DEF Finishes, Backed, AreLast
  <2> QED
    BY <2>1, <2>2, <2>3, <2>4 DEF HearingInv, AsksAgainForCalls
<1>4. CASE SendFails \/ RoundEnds
  <2>1. loop' = "gone" /\ UNCHANGED <<calls, finish>>
    BY <1>4 DEF SendFails, RoundEnds, reader, message
  <2> QED
    BY <2>1 DEF HearingInv, AsksAgainForCalls
<1>5. CASE Cancel \/ UNCHANGED vars
  <2>1. UNCHANGED <<queue, out, hasCall, kind, open, reason, ending, task, loop, calls, finish>>
    BY <1>5 DEF Cancel, vars, service, parser, reader, message
  <2>2. Ahead' = Ahead
    BY <2>1 DEF Ahead
  <2>3. UNCHANGED <<Heard, CallAhead>>
    BY <2>1, <2>2 DEF Heard, CallAhead
  <2>4. CallsEnd => CallsEnd'
    BY <2>1, <2>2 DEF CallsEnd, Whole, NoPart
  <2>5. Finishes => Finishes'
    BY <2>1, <2>2 DEF Finishes, Backed, AreLast
  <2> QED
    BY <2>1, <2>3, <2>4, <2>5 DEF HearingInv, AsksAgainForCalls
<1>6. CASE Hear
  <2>1. CASE loop' = "hearing"
    BY <1>6, <2>1, HearKeeps
  <2>2. CASE loop' # "hearing"
    <3>1. UNCHANGED message
      BY <1>6, <2>2 DEF Hear
    <3> QED
      BY <2>2, <3>1 DEF HearingInv, AsksAgainForCalls, message
  <2> QED
    BY <2>1, <2>2
<1> QED
  BY <1>1, <1>2, <1>3, <1>4, <1>5, <1>6 DEF Next, Task, Loop

-----------------------------------------------------------------------------
(* What was said, and what of it comes through.                            *)

SaidGrows == said' = said \/ \E x \in Sorts : said' = Append(said, x)

LEMMA PiecesGrow ==
  ASSUME TypeOK, SaidGrows, NEW k \in Sorts
  PROVE  /\ Len(said) \in Nat
         /\ \A p \in Pieces(k) : p \in Pieces(k)' /\ p \in Nat /\ p <= Len(said)
         /\ \A p \in Pieces(k)' :
               p \in Pieces(k) \/ (p = Len(said) + 1 /\ said' = Append(said, k))
         /\ said' = Append(said, k) => Len(said) + 1 \in Pieces(k)'
<1>1. said \in Seq(Sorts) /\ Len(said) \in Nat
  BY DEF TypeOK, Sorts
<1>2. CASE said' = said
  <2>1. said # Append(said, k)
    <3>1. Len(Append(said, k)) = Len(said) + 1 /\ Len(said) + 1 # Len(said)
      BY <1>1
    <3> QED
      BY <3>1
  <2> QED
    BY <1>1, <1>2, <2>1 DEF Pieces
<1>3. ASSUME NEW x \in Sorts, said' = Append(said, x)
      PROVE  /\ \A p \in Pieces(k) : p \in Pieces(k)' /\ p \in Nat /\ p <= Len(said)
             /\ \A p \in Pieces(k)' :
                   p \in Pieces(k) \/ (p = Len(said) + 1 /\ said' = Append(said, k))
             /\ said' = Append(said, k) => Len(said) + 1 \in Pieces(k)'
  <2>1. /\ Len(said') = Len(said) + 1 /\ said'[Len(said) + 1] = x
        /\ \A p \in 1 .. Len(said) : said'[p] = said[p]
    BY <1>1, <1>3
  <2>2. \A p \in 1 .. Len(said) + 1 : p \in 1 .. Len(said) \/ p = Len(said) + 1
    BY <1>1
  <2>3. said' = Append(said, k) => x = k
    BY <1>1, <2>1
  <2> QED
    BY <1>1, <1>3, <2>1, <2>2, <2>3 DEF Pieces
<1> QED
  BY <1>1, <1>2, <1>3 DEF SaidGrows

LEMMA BeginningGrows ==
  ASSUME TypeOK, SaidGrows, NEW k \in Sorts, body' = body, FromBeginning(body[k], k)
  PROVE  FromBeginning(body[k], k)'
<1>1. /\ \A n \in 1 .. Len(body[k]) : body[k][n] \in Pieces(k)
      /\ \A m, n \in 1 .. Len(body[k]) : m < n => body[k][m] < body[k][n]
      /\ \A n \in 1 .. Len(body[k]) : \A p \in Pieces(k) : p < body[k][n] => Holds(body[k], p)
  BY DEF FromBeginning
<1>2. \A n \in 1 .. Len(body[k]) : body[k][n] \in Pieces(k)'
  BY <1>1, PiecesGrow
<1>3. ASSUME NEW n \in 1 .. Len(body[k]), NEW p \in Pieces(k)', p < body[k][n]
      PROVE  Holds(body[k], p)
  <2>1. body[k][n] \in Nat /\ body[k][n] <= Len(said) /\ Len(said) \in Nat
    BY <1>1, PiecesGrow
  <2>2. p # Len(said) + 1
    BY <1>3, <2>1
  <2> QED
    BY <1>1, <1>3, <2>2, PiecesGrow
<1> QED
  BY <1>1, <1>2, <1>3 DEF FromBeginning, Holds

\* What a chunk tells of the pieces of a kind: nothing, and there is no new one
\* but such as are not told, or the new one.
ChunkTells(k) ==
    \/ /\ \A n \in 1 .. Len(out') : out'[n].type # Delta(k)
       /\ Told(k) => said' = said \/ \E x \in Sorts \ {k} : said' = Append(said, x)
    \/ /\ Told(k) /\ said' = Append(said, k)
       /\ Len(out') \in 1 .. Len(out')
       /\ \A n \in 1 .. Len(out') : out'[n].type = Delta(k) <=> n = Len(out')
       /\ out'[Len(out')].of = Len(said) + 1

LEMMA FlowsGrow ==
  ASSUME TypeOK, TypeOK', out = <<>>, UNCHANGED <<queue, rotates, body>>, SaidGrows,
         NEW k \in Sorts, Flows(k), FromBeginning(body[k], k), ChunkTells(k)
  PROVE  Flows(k)'
<1> DEFINE a == Len(Ahead)
           l == Len(out')
           q == Len(said) + 1
<1>1. /\ a \in Nat /\ l \in Nat /\ Len(Ahead') = a + l
      /\ \A n \in 1 .. a : Ahead'[n] = Ahead[n] /\ n \in 1 .. Len(Ahead')
      /\ \A n \in 1 .. Len(Ahead') : n \in 1 .. a \/ (n - a \in 1 .. l /\ Ahead'[n] = out'[n - a])
      /\ \A n \in 1 .. l : a + n \in 1 .. Len(Ahead') /\ Ahead'[a + n] = out'[n]
  BY AheadGrows
<1>2. /\ \A n \in 1 .. a : Ahead[n].type = Delta(k) =>
            /\ Told(k) /\ Ahead[n].of \in Pieces(k)
            /\ \A m \in 1 .. Len(body[k]) : body[k][m] < Ahead[n].of
      /\ \A m, n \in 1 .. a :
            m < n /\ Ahead[m].type = Delta(k) /\ Ahead[n].type = Delta(k) => Ahead[m].of < Ahead[n].of
      /\ Told(k) => \A p \in Pieces(k) : Holds(body[k], p) \/ Comes(k, p)
  BY DEF Flows
<1>3. /\ \A p \in Pieces(k) : p \in Pieces(k)' /\ p \in Nat /\ p < q
      /\ \A p \in Pieces(k)' : p \in Pieces(k) \/ (p = q /\ said' = Append(said, k))
      /\ said' = Append(said, k) => q \in Pieces(k)'
  <2>1. \A p \in Nat : p <= Len(said) => p < q
    BY PiecesGrow
  <2> QED
    BY <2>1, PiecesGrow
<1>4. \A n \in 1 .. Len(body[k]) : body[k][n] \in Pieces(k)
  BY DEF FromBeginning
<1>5. (Told(k)' <=> Told(k)) /\ \A p : Holds(body[k], p)' <=> Holds(body[k], p)
  BY DEF Told, Holds
<1>6. ASSUME NEW p, Comes(k, p) PROVE Comes(k, p)'
  <2>1. PICK n \in 1 .. a : Ahead[n].type = Delta(k) /\ Ahead[n].of = p
    BY <1>6 DEF Comes
  <2> QED
    BY <1>1, <2>1 DEF Comes
<1> HIDE DEF a, l, q
<1>7. CASE \A n \in 1 .. l : out'[n].type # Delta(k)
  <2>1. \A n \in 1 .. Len(Ahead') : Ahead'[n].type = Delta(k) => n \in 1 .. a /\ Ahead'[n] = Ahead[n]
    BY <1>1, <1>7
  <2>2. Told(k) => \A p \in Pieces(k)' : p \in Pieces(k)
    <3> SUFFICES ASSUME Told(k), NEW p \in Pieces(k)', said' = Append(said, k) PROVE FALSE
      BY <1>3
    <3>0. said \in Seq(Sorts) /\ Len(said) \in Nat
      BY DEF TypeOK, Sorts
    <3>1. said' # said
      <4>1. Len(Append(said, k)) = Len(said) + 1 /\ Len(said) + 1 # Len(said)
        BY <3>0
      <4> QED
        BY <4>1
    <3>2. ASSUME NEW x \in Sorts \ {k}, said' = Append(said, x) PROVE FALSE
      <4>1. Append(said, k)[Len(said) + 1] = k /\ Append(said, x)[Len(said) + 1] = x
        BY <3>0
      <4> QED
        BY <3>2, <4>1
    <3>3. ~(l \in 1 .. l /\ \A n \in 1 .. l : out'[n].type = Delta(k) <=> n = l)
      BY <1>7
    <3> QED
      BY <3>1, <3>2, <3>3 DEF ChunkTells, l
  <2>3. \A n \in 1 .. Len(Ahead') : Ahead'[n].type = Delta(k) =>
            /\ Told(k)' /\ Ahead'[n].of \in Pieces(k)'
            /\ \A m \in 1 .. Len(body'[k]) : body'[k][m] < Ahead'[n].of
    BY <1>2, <1>3, <1>5, <2>1
  <2>4. \A m, n \in 1 .. Len(Ahead') :
            m < n /\ Ahead'[m].type = Delta(k) /\ Ahead'[n].type = Delta(k) => Ahead'[m].of < Ahead'[n].of
    BY <1>2, <2>1
  <2>5. Told(k)' => \A p \in Pieces(k)' : Holds(body[k], p)' \/ Comes(k, p)'
    BY <1>2, <1>5, <1>6, <2>2
  <2> QED
    BY <2>3, <2>4, <2>5 DEF Flows
<1>8. CASE /\ Told(k) /\ said' = Append(said, k) /\ l \in 1 .. l
           /\ \A n \in 1 .. l : out'[n].type = Delta(k) <=> n = l
           /\ out'[l].of = q
  <2>1. a + l \in 1 .. Len(Ahead') /\ Ahead'[a + l].type = Delta(k) /\ Ahead'[a + l].of = q
    BY <1>1, <1>8
  <2>2. \A n \in 1 .. Len(Ahead') : Ahead'[n].type = Delta(k) =>
            (n \in 1 .. a /\ Ahead'[n] = Ahead[n]) \/ (n = a + l /\ Ahead'[n].of = q)
    <3> SUFFICES ASSUME NEW n \in 1 .. Len(Ahead'), Ahead'[n].type = Delta(k), n \notin 1 .. a
                 PROVE  n = a + l
      BY <1>1, <2>1
    <3>1. n - a = l
      BY <1>1, <1>8
    <3> QED
      BY <1>1, <3>1
  <2>3. \A n \in 1 .. Len(Ahead') : Ahead'[n].type = Delta(k) =>
            /\ Told(k)' /\ Ahead'[n].of \in Pieces(k)'
            /\ \A m \in 1 .. Len(body'[k]) : body'[k][m] < Ahead'[n].of
    BY <1>2, <1>3, <1>4, <1>5, <1>8, <2>2
  <2>4. \A m, n \in 1 .. Len(Ahead') :
            m < n /\ Ahead'[m].type = Delta(k) /\ Ahead'[n].type = Delta(k) => Ahead'[m].of < Ahead'[n].of
    <3> SUFFICES ASSUME NEW m \in 1 .. Len(Ahead'), NEW n \in 1 .. Len(Ahead'), m < n,
                        Ahead'[m].type = Delta(k), Ahead'[n].type = Delta(k)
                 PROVE  Ahead'[m].of < Ahead'[n].of
      OBVIOUS
    <3>1. m \in 1 .. a /\ Ahead'[m] = Ahead[m]
      BY <1>1, <2>2
    <3>2. CASE n \in 1 .. a /\ Ahead'[n] = Ahead[n]
      BY <1>2, <3>1, <3>2
    <3>3. CASE Ahead'[n].of = q
      BY <1>2, <1>3, <3>1, <3>3
    <3> QED
      BY <2>2, <3>2, <3>3
  <2>5. \A p \in Pieces(k)' : Holds(body[k], p)' \/ Comes(k, p)'
    <3>1. \A p : p = q => Comes(k, p)'
      BY <2>1 DEF Comes
    <3> QED
      BY <1>2, <1>3, <1>5, <1>6, <1>8, <3>1
  <2> QED
    BY <2>3, <2>4, <2>5 DEF Flows
<1> QED
  BY <1>7, <1>8 DEF ChunkTells, l, q

LEMMA EndsGrow ==
  ASSUME TypeOK, TypeOK', out = <<>>, UNCHANGED <<queue, calls>>, EndsCome,
         \A i \in Items : Whole(i)' =>
            \/ Whole(i)
            \/ \E n \in 1 .. Len(out') : out'[n].type = "call_end" /\ out'[n].of = i
  PROVE  EndsCome'
<1>1. /\ \A n \in 1 .. Len(Ahead) : Ahead'[n] = Ahead[n] /\ n \in 1 .. Len(Ahead')
      /\ \A n \in 1 .. Len(out') : Len(Ahead) + n \in 1 .. Len(Ahead') /\ Ahead'[Len(Ahead) + n] = out'[n]
  BY AheadGrows
<1> SUFFICES ASSUME NEW i \in Items, Whole(i)', calls[i] # "whole"
             PROVE  \E n \in 1 .. Len(Ahead') : Ahead'[n].type = "call_end" /\ Ahead'[n].of = i
  BY DEF EndsCome
<1>2. CASE Whole(i)
  <2>1. PICK n \in 1 .. Len(Ahead) : Ahead[n].type = "call_end" /\ Ahead[n].of = i
    BY <1>2 DEF EndsCome
  <2> QED
    BY <1>1, <2>1
<1>3. CASE ~ Whole(i)
  <2>1. PICK n \in 1 .. Len(out') : out'[n].type = "call_end" /\ out'[n].of = i
    BY <1>3
  <2> QED
    BY <1>1, <2>1
<1> QED
  BY <1>2, <1>3

\* Events that tell no piece of text or thought.
Mute == EventTypes \ {"text_delta", "reasoning_delta"}

LEMMA MuteOut ==
  ASSUME NEW q,
         \/ q = <<>>
         \/ \E t \in Mute : \E x : q = <<Event(t, x)>>
         \/ \E t, u \in Mute : \E x, y : q = <<Event(t, x), Event(u, y)>>
  PROVE  \A n \in 1 .. Len(q) : q[n].type \in Mute
<1>1. CASE q = <<>>
  BY <1>1
<1>2. ASSUME NEW t \in Mute, NEW x, q = <<Event(t, x)>> PROVE \A n \in 1 .. Len(q) : q[n].type \in Mute
  BY <1>2 DEF Event
<1>3. ASSUME NEW t \in Mute, NEW u \in Mute, NEW x, NEW y, q = <<Event(t, x), Event(u, y)>>
      PROVE  \A n \in 1 .. Len(q) : q[n].type \in Mute
  BY <1>3 DEF Event
<1> QED
  BY <1>1, <1>2, <1>3

LEMMA MuteTells ==
  ASSUME said' = said, \A n \in 1 .. Len(out') : out'[n].type \in Mute
  PROVE  SaidGrows /\ \A k \in Sorts : ChunkTells(k)
BY DEF SaidGrows, ChunkTells, Mute, Delta, Sorts

\* What a chunk leaves of a call or a thought that is done.
ChunkDoes ==
    /\ \A i \in Items : Whole(i)' =>
          Whole(i) \/ \E n \in 1 .. Len(out') : out'[n].type = "call_end" /\ out'[n].of = i
    /\ ThoughtsKnown'

LEMMA ItemAddedTells ==
  ASSUME TypeOK, ItemsTell, ThoughtsKnown, NEW i \in Items, ItemAdded(i)
  PROVE  SaidGrows /\ (\A k \in Sorts : ChunkTells(k)) /\ ChunkDoes
<1>1. PICK k \in Kinds : /\ kind' = [kind EXCEPT ![i] = k]
                         /\ \/ k = "message" /\ MessageAdded(i)
                            \/ k = "reasoning" /\ ReasoningAdded(i)
                            \/ k = "call" /\ CallAdded(i)
  BY DEF ItemAdded
<1>2. /\ kind[i] = "none" /\ open' = open \cup {i} /\ UNCHANGED <<rotates, said>>
      /\ kind'[i] = k /\ \A j \in Items : j # i => kind'[j] = kind[j]
  BY <1>1 DEF ItemAdded, TypeOK
<1>3. \A n \in 1 .. Len(out') : out'[n].type \in Mute
  <2>1. \A t \in {"text_start", "reasoning_start", "input_start", "input_delta"} : t \in Mute
    BY DEF Mute, EventTypes
  <2> QED
    BY <1>1, <2>1, MuteOut DEF MessageAdded, ReasoningAdded, CallAdded
<1>4. \A j \in Items : Whole(j)' => Whole(j)
  BY <1>2 DEF Whole
<1>5. active' = active \/ (k = "reasoning" /\ active' = active \cup {i})
  BY <1>1 DEF MessageAdded, ReasoningAdded, CallAdded
<1>6. k = "reasoning" => active' = active \cup {i}
  BY <1>1 DEF ReasoningAdded
<1>7. ThoughtsKnown'
  BY <1>2, <1>5, <1>6 DEF ThoughtsKnown, TypeOK
<1> QED
  BY <1>2, <1>3, <1>4, <1>7, MuteTells DEF ChunkDoes

LEMMA ItemDoneTells ==
  ASSUME TypeOK, ItemsTell, ThoughtsKnown, NEW i \in Items, ItemDone(i)
  PROVE  SaidGrows /\ (\A k \in Sorts : ChunkTells(k)) /\ ChunkDoes
<1>1. open' = open \ {i} /\ UNCHANGED <<rotates, kind, said>>
  BY DEF ItemDone
<1>2. \A n \in 1 .. Len(out') : out'[n].type \in Mute
  <2>1. \A t \in {"text_end", "reasoning_end", "input_end", "call_end"} : t \in Mute
    BY DEF Mute, EventTypes
  <2> QED
    BY <2>1, MuteOut DEF ItemDone, MessageDone, ReasoningDone, CallDone
<1>3. kind[i] = "call" => \E n \in 1 .. Len(out') : out'[n].type = "call_end" /\ out'[n].of = i
  <2> SUFFICES ASSUME kind[i] = "call" PROVE \E n \in 1 .. Len(out') : out'[n].type = "call_end" /\ out'[n].of = i
    OBVIOUS
  <2>1. out' = <<Event("input_end", i), Event("call_end", i)>>
    BY DEF ItemDone, CallDone
  <2>2. 2 \in 1 .. Len(out') /\ out'[2] = Event("call_end", i)
    BY <2>1
  <2> QED
    BY <2>2 DEF Event
<1>4. \A j \in Items : Whole(j)' => Whole(j) \/ (j = i /\ kind[i] = "call")
  BY <1>1 DEF Whole
<1>5. active' = active \/ active' = active \ {i}
  BY DEF ItemDone, MessageDone, ReasoningDone, CallDone
<1>6. ThoughtsKnown'
  BY <1>1, <1>5 DEF ThoughtsKnown
<1> QED
  BY <1>1, <1>2, <1>3, <1>4, <1>6, MuteTells DEF ChunkDoes

LEMMA OtherDoes ==
  ASSUME ThoughtsKnown, UNCHANGED <<rotates, kind, open, active>> PROVE ChunkDoes
BY DEF ChunkDoes, ThoughtsKnown, Whole

\* The text is put last, whatever item it is of.
LEMMA TextTells ==
  ASSUME TypeOK, NEW i \in Items, TextDelta(i)
  PROVE  SaidGrows /\ \A k \in Sorts : ChunkTells(k)
<1> DEFINE f == Event("text_delta", Len(said'))
           e == Event("text_start", None)
<1>1. said' = Append(said, "message") /\ (out' = <<>> \o <<f>> \/ out' = <<e>> \o <<f>>)
  BY DEF TextDelta
<1>2. Len(said') = Len(said) + 1
  BY <1>1 DEF TypeOK
<1>3. f.type = "text_delta" /\ f.of = Len(said) + 1 /\ e.type = "text_start"
  BY <1>2 DEF Event
<1>4. <<>> \o <<f>> = <<f>> /\ <<e>> \o <<f>> = <<e, f>>
  BY JoinedPair
<1> HIDE DEF e, f
<1>5. /\ Len(out') \in 1 .. Len(out') /\ out'[Len(out')] = f
      /\ \A n \in 1 .. Len(out') : n = Len(out') \/ out'[n] = e
  <2>1. CASE out' = <<f>>
    <3>1. Len(out') = 1 /\ out'[1] = f /\ \A n \in 1 .. 1 : n = 1
      BY <2>1
    <3> QED
      BY <3>1
  <2>2. CASE out' = <<e, f>>
    <3>1. Len(out') = 2 /\ out'[1] = e /\ out'[2] = f /\ \A n \in 1 .. 2 : n = 1 \/ n = 2
      BY <2>2
    <3> QED
      BY <3>1
  <2> QED
    BY <1>1, <1>4, <2>1, <2>2
<1>6. ChunkTells("message")
  BY <1>1, <1>3, <1>5 DEF ChunkTells, Delta, Told
<1>7. ChunkTells("reasoning")
  <2>1. \A n \in 1 .. Len(out') : out'[n].type # "reasoning_delta"
    BY <1>3, <1>5
  <2> QED
    BY <1>1, <2>1 DEF ChunkTells, Delta, Sorts
<1> QED
  BY <1>1, <1>6, <1>7 DEF SaidGrows, Sorts

\* A thought is put last, or has another id.
LEMMA ThoughtTells ==
  ASSUME TypeOK, ThoughtsKnown, NEW i \in Items, ReasoningDelta(i)
  PROVE  SaidGrows /\ \A k \in Sorts : ChunkTells(k)
<1> DEFINE f == Event("reasoning_delta", Len(said'))
<1>1. /\ said' = Append(said, "reasoning") /\ i \in open /\ kind[i] = "reasoning"
      /\ out' = IF SameId /\ i \in active THEN <<f>> ELSE <<>>
  BY DEF ReasoningDelta
<1>2. Len(said') = Len(said) + 1
  BY <1>1 DEF TypeOK
<1>3. f.type = "reasoning_delta" /\ f.of = Len(said) + 1
  BY <1>2 DEF Event
<1> HIDE DEF f
<1>4. ChunkTells("message")
  <2>1. \A n \in 1 .. Len(out') : out'[n].type # "text_delta"
    BY <1>1, <1>3
  <2> QED
    BY <1>1, <2>1 DEF ChunkTells, Delta, Sorts
<1>5. ChunkTells("reasoning")
  <2>1. CASE rotates
    <3>1. Len(out') = 0
      BY <1>1, <2>1 DEF SameId
    <3> QED
      BY <2>1, <3>1 DEF ChunkTells, Told
  <2>2. CASE ~ rotates
    <3>1. out' = <<f>>
      BY <1>1, <2>2 DEF ThoughtsKnown, SameId
    <3>2. Len(out') = 1 /\ out'[1] = f /\ \A n \in 1 .. 1 : n = 1
      BY <3>1
    <3> QED
      BY <1>1, <1>3, <2>2, <3>2 DEF ChunkTells, Delta, Told
  <2> QED
    BY <2>1, <2>2
<1> QED
  BY <1>1, <1>4, <1>5 DEF SaidGrows, Sorts

LEMMA ChunksTell ==
  ASSUME TypeOK, ItemsTell, ThoughtsKnown, Chunk
  PROVE  SaidGrows /\ (\A k \in Sorts : ChunkTells(k)) /\ ChunkDoes
<1>0. \A t \in {"reasoning_start", "input_delta", "error", "err"} : t \in Mute
  BY DEF Mute, EventTypes
<1>1. ASSUME NEW i \in Items, TextDelta(i) \/ ReasoningDelta(i)
      PROVE  SaidGrows /\ (\A k \in Sorts : ChunkTells(k)) /\ ChunkDoes
  <2>1. UNCHANGED <<rotates, kind, open, active>>
    BY <1>1 DEF TextDelta, ReasoningDelta, parser
  <2> QED
    BY <1>1, <2>1, OtherDoes, TextTells, ThoughtTells
<1>2. ASSUME NEW i \in Items, SummaryPartAdded(i) \/ ArgumentsDelta(i)
      PROVE  SaidGrows /\ (\A k \in Sorts : ChunkTells(k)) /\ ChunkDoes
  <2>1. UNCHANGED <<rotates, kind, open, active, said>>
    BY <1>2 DEF SummaryPartAdded, ArgumentsDelta, parser, service
  <2>2. \A n \in 1 .. Len(out') : out'[n].type \in Mute
    BY <1>0, <1>2, MuteOut DEF SummaryPartAdded, ArgumentsDelta
  <2> QED
    BY <2>1, <2>2, OtherDoes, MuteTells
<1>3. CASE AnswerEnds \/ StreamBreaks
  <2>1. UNCHANGED <<rotates, kind, open, active, said>>
    BY <1>3 DEF AnswerEnds, StreamBreaks, parser
  <2>2. \A n \in 1 .. Len(out') : out'[n].type \in Mute
    BY <1>0, <1>3, MuteOut DEF AnswerEnds, StreamBreaks
  <2> QED
    BY <2>1, <2>2, OtherDoes, MuteTells
<1> QED
  BY <1>1, <1>2, <1>3, ItemAddedTells, ItemDoneTells DEF Chunk

LEMMA StreamEndsMute ==
  ASSUME TypeOK, ItemsTell, StreamEnds PROVE \A n \in 1 .. Len(out') : out'[n].type \in Mute
<1>1. PICK r \in Reasons :
        out' = Closing \o <<Event("finish_step", r), Event("finish", None), Event("done", None)>>
  BY StreamEndsFinishes
<1> DEFINE c == Closing
           f == <<Event("finish_step", r), Event("finish", None), Event("done", None)>>
<1>2. c \in Seq(Events) /\ \A n \in 1 .. Len(c) : Ends(c[n])
  BY ClosingEnds
<1>3. f \in Seq(Events) /\ \A n \in 1 .. Len(f) : f[n].type \in {"finish_step", "finish", "done"}
  BY EventsAreTyped DEF Event
<1> HIDE DEF c, f
<1>4. /\ Len(c \o f) = Len(c) + Len(f) /\ Len(c) \in Nat /\ Len(f) \in Nat
      /\ \A n \in 1 .. Len(c) + Len(f) : (c \o f)[n] = IF n <= Len(c) THEN c[n] ELSE f[n - Len(c)]
  BY <1>2, <1>3, ConcatProperties
<1> SUFFICES ASSUME NEW n \in 1 .. Len(c) + Len(f) PROVE (c \o f)[n].type \in Mute
  BY <1>1, <1>4 DEF c, f
<1>5. CASE n <= Len(c)
  <2>1. n \in 1 .. Len(c) /\ (c \o f)[n] = c[n]
    BY <1>4, <1>5
  <2> QED
    BY <1>2, <2>1 DEF Ends, Mute, EventTypes
<1>6. CASE ~(n <= Len(c))
  <2>1. n - Len(c) \in 1 .. Len(f) /\ (c \o f)[n] = f[n - Len(c)]
    BY <1>4, <1>6
  <2> QED
    BY <1>3, <2>1 DEF Mute, EventTypes
<1> QED
  BY <1>5, <1>6

LEMMA OneMore ==
  ASSUME NEW s \in Seq(Nat), NEW x \in Nat, NEW t, t = Append(s, x)
  PROVE  /\ Len(t) = Len(s) + 1 /\ t[Len(s) + 1] = x
         /\ \A n \in 1 .. Len(s) : t[n] = s[n]
BY AppendProperties

\* The loop puts the first piece behind the others, and it is the next one.
LEMMA FlowsHeard ==
  ASSUME TypeOK, TypeOK', queue # <<>>, queue' = Tail(queue), UNCHANGED <<out, said, rotates>>,
         NEW k \in Sorts, Flows(k), FromBeginning(body[k], k),
         body'[k] = IF Ahead[1].type = Delta(k) THEN Append(body[k], Ahead[1].of) ELSE body[k]
  PROVE  /\ Flows(k)' /\ FromBeginning(body[k], k)'
         /\ \A p : Holds(body[k], p) => Holds(body[k], p)'
<1> DEFINE a == Len(Ahead) - 1
           e == Ahead[1]
           b == Len(body[k])
<1>1. /\ Len(Ahead) = a + 1 /\ a \in Nat /\ Len(Ahead') = a
      /\ \A n \in 1 .. a : Ahead'[n] = Ahead[n + 1] /\ n + 1 \in 1 .. a + 1 /\ 1 < n + 1
      /\ \A n \in 1 .. a + 1 : n = 1 \/ (n - 1 \in 1 .. a /\ Ahead'[n - 1] = Ahead[n])
      /\ 1 \in 1 .. a + 1
  <2>1. Len(Ahead) = a + 1 /\ a \in Nat /\ Len(Ahead') = a /\ \A n \in 1 .. a : Ahead'[n] = Ahead[n + 1]
    BY AheadHeard
  <2> HIDE DEF a
  <2>2. \A n \in 1 .. a : n + 1 \in 1 .. a + 1 /\ 1 < n + 1
    BY <2>1
  <2>3. ASSUME NEW n \in 1 .. a + 1, n # 1 PROVE n - 1 \in 1 .. a /\ Ahead'[n - 1] = Ahead[n]
    <3>1. PICK m \in 1 .. a : m = n - 1 /\ m + 1 = n
      <4>1. n - 1 \in 1 .. a /\ n - 1 + 1 = n
        BY <2>1, <2>3
      <4> QED
        BY <4>1
    <3> QED
      BY <2>1, <3>1
  <2>4. 1 \in 1 .. a + 1
    BY <2>1
  <2> QED
    BY <2>1, <2>2, <2>3, <2>4
<1>2. body[k] \in Seq(Nat) /\ b \in Nat
  BY DEF TypeOK, Sorts
<1> HIDE DEF a, e, b
<1>3. /\ \A n \in 1 .. a + 1 : Ahead[n].type = Delta(k) =>
            /\ Told(k) /\ Ahead[n].of \in Pieces(k)
            /\ \A m \in 1 .. b : body[k][m] < Ahead[n].of
      /\ \A m, n \in 1 .. a + 1 :
            m < n /\ Ahead[m].type = Delta(k) /\ Ahead[n].type = Delta(k) => Ahead[m].of < Ahead[n].of
      /\ Told(k) => \A p \in Pieces(k) : Holds(body[k], p) \/ Comes(k, p)
  BY <1>1 DEF Flows, b
<1>4. Pieces(k)' = Pieces(k) /\ Told(k)' = Told(k) /\ \A p \in Pieces(k) : p \in Nat
  BY DEF Pieces, Told
<1>5. /\ \A n \in 1 .. b : body[k][n] \in Pieces(k)
      /\ \A m, n \in 1 .. b : m < n => body[k][m] < body[k][n]
      /\ \A n \in 1 .. b : \A p \in Pieces(k) : p < body[k][n] => Holds(body[k], p)
  BY DEF FromBeginning, b
<1>6. ASSUME NEW p, Comes(k, p) PROVE Comes(k, p)' \/ (e.type = Delta(k) /\ e.of = p)
  <2>1. PICK n \in 1 .. a + 1 : Ahead[n].type = Delta(k) /\ Ahead[n].of = p
    BY <1>1, <1>6 DEF Comes
  <2>2. CASE n = 1
    BY <2>1, <2>2 DEF e
  <2>3. CASE n # 1
    <3>1. n - 1 \in 1 .. Len(Ahead') /\ Ahead'[n - 1] = Ahead[n]
      BY <1>1, <2>3
    <3> QED
      BY <2>1, <3>1, Zenon DEF Comes
  <2> QED
    BY <2>2, <2>3
<1>7. \A m, n \in 1 .. Len(Ahead') :
          m < n /\ Ahead'[m].type = Delta(k) /\ Ahead'[n].type = Delta(k) => Ahead'[m].of < Ahead'[n].of
  <2> SUFFICES ASSUME NEW m \in 1 .. a, NEW n \in 1 .. a, m < n,
                      Ahead'[m].type = Delta(k), Ahead'[n].type = Delta(k)
               PROVE  Ahead'[m].of < Ahead'[n].of
    BY <1>1
  <2>1. m + 1 \in 1 .. a + 1 /\ n + 1 \in 1 .. a + 1 /\ m + 1 < n + 1
    BY <1>1
  <2> QED
    BY <1>1, <1>3, <2>1
<1>8. CASE e.type # Delta(k)
  <2>1. body'[k] = body[k]
    BY <1>8 DEF e
  <2>2. \A p : Holds(body[k], p)' <=> Holds(body[k], p)
    BY <2>1 DEF Holds
  <2>3. \A n \in 1 .. Len(Ahead') : Ahead'[n].type = Delta(k) =>
            /\ Told(k)' /\ Ahead'[n].of \in Pieces(k)'
            /\ \A m \in 1 .. Len(body'[k]) : body'[k][m] < Ahead'[n].of
    BY <1>1, <1>3, <1>4, <2>1 DEF b
  <2>4. Told(k)' => \A p \in Pieces(k)' : Holds(body[k], p)' \/ Comes(k, p)'
    BY <1>3, <1>4, <1>6, <1>8, <2>2
  <2>5. Flows(k)'
    BY <1>7, <2>3, <2>4 DEF Flows
  <2>6. FromBeginning(body[k], k)'
    BY <1>4, <1>5, <2>1, <2>2 DEF FromBeginning, b
  <2> QED
    BY <2>2, <2>5, <2>6
<1>9. CASE e.type = Delta(k)
  <2>1. /\ Told(k) /\ e.of \in Pieces(k) /\ e.of \in Nat
        /\ \A m \in 1 .. b : body[k][m] < e.of
        /\ \A n \in 1 .. a : Ahead'[n].type = Delta(k) => e.of < Ahead'[n].of
    BY <1>1, <1>3, <1>4, <1>9 DEF e
  <2>2. body'[k] = Append(body[k], e.of)
    BY <1>9 DEF e
  <2>3. /\ Len(body'[k]) = b + 1 /\ body'[k][b + 1] = e.of
        /\ \A n \in 1 .. b : body'[k][n] = body[k][n] /\ n \in 1 .. b + 1
        /\ b + 1 \in 1 .. b + 1 /\ \A n \in 1 .. b + 1 : n \in 1 .. b \/ n = b + 1
    <3>1. /\ Len(body'[k]) = Len(body[k]) + 1 /\ body'[k][Len(body[k]) + 1] = e.of
          /\ \A n \in 1 .. Len(body[k]) : body'[k][n] = body[k][n]
      <4>1. body[k] \in Seq(Nat) /\ e.of \in Nat
        BY <1>2, <2>1
      <4>2. PICK s \in Seq(Nat), x \in Nat, t \in {body'[k]} : s = body[k] /\ x = e.of
        BY <4>1
      <4>3. t = Append(s, x)
        BY <2>2, <4>2
      <4>4. Len(t) = Len(s) + 1 /\ t[Len(s) + 1] = x /\ \A n \in 1 .. Len(s) : t[n] = s[n]
        BY <4>3, OneMore
      <4> QED
        BY <4>2, <4>4, Zenon
    <3>2. /\ \A n \in 1 .. b : n \in 1 .. b + 1
          /\ b + 1 \in 1 .. b + 1 /\ \A n \in 1 .. b + 1 : n \in 1 .. b \/ n = b + 1
      BY <1>2
    <3> QED
      BY <3>1, <3>2 DEF b
  <2>4. /\ \A p : Holds(body[k], p) => Holds(body[k], p)'
        /\ \A p : p = e.of => Holds(body[k], p)'
    BY <2>3 DEF Holds, b
  <2>5. \A n \in 1 .. Len(Ahead') : Ahead'[n].type = Delta(k) =>
            /\ Told(k)' /\ Ahead'[n].of \in Pieces(k)'
            /\ \A m \in 1 .. Len(body'[k]) : body'[k][m] < Ahead'[n].of
    <3> SUFFICES ASSUME NEW n \in 1 .. a, Ahead'[n].type = Delta(k)
                 PROVE  /\ Told(k)' /\ Ahead'[n].of \in Pieces(k)'
                        /\ \A m \in 1 .. b + 1 : body'[k][m] < Ahead'[n].of
      BY <1>1, <2>3
    <3>1. n + 1 \in 1 .. a + 1 /\ Ahead'[n] = Ahead[n + 1]
      BY <1>1
    <3>2. /\ Told(k) /\ Ahead'[n].of \in Pieces(k)
          /\ \A m \in 1 .. b : body[k][m] < Ahead'[n].of
      BY <1>3, <3>1
    <3>3. \A m \in 1 .. b + 1 : body'[k][m] < Ahead'[n].of
      BY <2>1, <2>3, <3>2
    <3> QED
      BY <1>4, <3>2, <3>3
  <2>6. \A p \in Pieces(k) : Holds(body[k], p)' \/ Comes(k, p)'
    BY <1>3, <1>6, <2>1, <2>4
  <2>7. Flows(k)'
    BY <1>4, <1>7, <2>5, <2>6 DEF Flows
  <2>8. ASSUME NEW n \in 1 .. b + 1, NEW p \in Pieces(k), p < body'[k][n] PROVE Holds(body[k], p)'
    <3>1. CASE n \in 1 .. b
      BY <1>5, <2>3, <2>4, <2>8, <3>1
    <3>2. CASE n = b + 1
      <4>1. p < e.of /\ p \in Nat
        BY <1>4, <2>3, <2>8, <3>2
      <4>2. ~ Comes(k, p)
        <5> SUFFICES ASSUME NEW m \in 1 .. a + 1, Ahead[m].type = Delta(k), Ahead[m].of = p PROVE FALSE
          BY <1>1 DEF Comes
        <5>1. m # 1
          BY <2>1, <4>1 DEF e
        <5>2. e.of < p
          BY <1>1, <2>1, <5>1
        <5> QED
          BY <2>1, <4>1, <5>2
      <4> QED
        BY <1>3, <2>1, <2>4, <4>2
    <3> QED
      BY <2>3, <3>1, <3>2
  <2>9. FromBeginning(body[k], k)'
    <3>1. \A n \in 1 .. b + 1 : body'[k][n] \in Pieces(k)
      BY <1>5, <2>1, <2>3
    <3>2. \A m, n \in 1 .. b + 1 : m < n => body'[k][m] < body'[k][n]
      <4> SUFFICES ASSUME NEW m \in 1 .. b + 1, NEW n \in 1 .. b + 1, m < n
                   PROVE  body'[k][m] < body'[k][n]
        OBVIOUS
      <4>1. m \in 1 .. b
        BY <1>2
      <4> QED
        BY <1>5, <2>1, <2>3, <4>1
    <3> QED
      BY <1>4, <2>3, <2>8, <3>1, <3>2 DEF FromBeginning, Holds
  <2> QED
    BY <2>4, <2>7, <2>9
<1> QED
  BY <1>8, <1>9

\* Nor is a call that is whole taken back, and the end of none is passed over.
LEMMA EndsHeard ==
  ASSUME TypeOK, TypeOK', HearingInv, EndsCome, Hear, loop' = "hearing"
  PROVE  EndsCome'
<1> DEFINE e == Ahead[1]
<1>1. /\ loop = "hearing" /\ queue # <<>> /\ queue' = Tail(queue) /\ ~ cancelled
      /\ UNCHANGED <<out, kind, open>>
  BY DEF Hear, service
<1>2. CallsEnd
  BY <1>1 DEF HearingInv
<1>3. /\ Len(Ahead) \in Nat \ {0} /\ Len(Ahead') = Len(Ahead) - 1 /\ Head(queue) = e
      /\ \A n \in 1 .. Len(Ahead) - 1 : Ahead'[n] = Ahead[n + 1]
  BY <1>1, AheadHeard
<1>4. e.type \in {"input_start", "input_delta", "call_end"} => HearCall(e)
  BY <1>1, <1>3 DEF Hear
<1>5. e.type \notin {"input_start", "input_delta", "call_end"} => UNCHANGED calls
  BY <1>1, <1>3 DEF Hear, HearText, HearFinish, message
<1>6. e.type \in {"input_start", "input_delta", "call_end"} => e.of \in Items
  <2>1. e \in Events
    BY <1>1, <1>3, HeadOfQueue
  <2> QED
    BY <2>1, EventsHave DEF OfCalls
<1>7. 1 \in 1 .. Len(Ahead)
  BY <1>3
<1> HIDE DEF e
<1>8. calls \in [Items -> {"none", "named", "part", "whole"}]
  BY DEF TypeOK
<1>9. ASSUME NEW i \in Items, e.type = "call_end", e.of = i PROVE calls'[i] = "whole"
  BY <1>4, <1>8, <1>9 DEF HearCall
<1>10. ASSUME NEW i \in Items, calls[i] = "whole" PROVE calls'[i] = "whole"
  <2>1. CASE e.type = "input_start"
    BY <1>4, <1>6, <1>8, <1>10, <2>1 DEF HearCall
  <2>2. CASE e.type = "input_delta"
    <3>1. e.of # i
      BY <1>2, <1>7, <1>10, <2>2 DEF CallsEnd, NoPart, e
    <3> QED
      BY <1>4, <1>6, <1>8, <1>10, <2>2, <3>1 DEF HearCall
  <2>3. CASE e.type = "call_end"
    BY <1>4, <1>6, <1>8, <1>10, <2>3 DEF HearCall
  <2> QED
    BY <1>5, <1>10, <2>1, <2>2, <2>3
<1> SUFFICES ASSUME NEW i \in Items, Whole(i)'
             PROVE  \/ calls'[i] = "whole"
                    \/ \E n \in 1 .. Len(Ahead') : Ahead'[n].type = "call_end" /\ Ahead'[n].of = i
  BY DEF EndsCome
<1>11. Whole(i)
  BY <1>1 DEF Whole
<1>12. CASE calls[i] = "whole"
  BY <1>10, <1>12
<1>13. ASSUME NEW n \in 1 .. Len(Ahead), Ahead[n].type = "call_end" /\ Ahead[n].of = i
       PROVE  \/ calls'[i] = "whole"
              \/ \E m \in 1 .. Len(Ahead') : Ahead'[m].type = "call_end" /\ Ahead'[m].of = i
  <2>1. CASE n = 1
    BY <1>9, <1>13, <2>1 DEF e
  <2>2. CASE n # 1
    <3>1. \A a \in Nat \ {0} : \A x \in 1 .. a : x # 1 => x - 1 \in 1 .. a - 1 /\ x - 1 + 1 = x
      OBVIOUS
    <3>2. n - 1 \in 1 .. Len(Ahead) - 1 /\ n - 1 + 1 = n
      BY <1>3, <2>2, <3>1
    <3>3. PICK m \in 1 .. Len(Ahead) - 1 : m + 1 = n
      BY <3>2
    <3>4. Ahead'[m] = Ahead[n] /\ m \in 1 .. Len(Ahead')
      BY <1>3, <3>3
    <3> QED
      BY <1>13, <3>4
  <2> QED
    BY <2>1, <2>2
<1> QED
  BY <1>11, <1>12, <1>13 DEF EndsCome

\* A step of the loop that goes on hearing: with the end of the answer nothing
\* is left to hear, so that all that comes through is there.
LEMMA HearFlows ==
  ASSUME TypeOK, TypeOK', HearingInv, HearingInv', FlowInv, Hear, loop' = "hearing"
  PROVE  FlowInv'
<1> DEFINE e == Ahead[1]
<1>1. /\ loop = "hearing" /\ queue # <<>> /\ queue' = Tail(queue) /\ ~ cancelled
      /\ UNCHANGED <<out, rotates, kind, open, said, active, task>>
  BY DEF Hear, service, parser
<1>2. (\A k \in Sorts : Flows(k)) /\ EndsCome /\ ThoughtsKnown /\ NothingLost
  BY <1>1 DEF FlowInv
<1>3. Head(queue) = e /\ e \in Events
  BY <1>1, AheadHeard, HeadOfQueue
<1>4. \/ e.type \in {"text_delta", "reasoning_delta"} /\ HearText(e)
      \/ e.type \notin {"text_delta", "reasoning_delta"} /\ UNCHANGED body
  BY <1>1, <1>3 DEF Hear, HearCall, HearFinish, message
<1> HIDE DEF e
<1>5. ASSUME NEW k \in Sorts
      PROVE  body'[k] = IF e.type = Delta(k) THEN Append(body[k], e.of) ELSE body[k]
  <2>1. body \in [Sorts -> Seq(Nat)]
    BY DEF TypeOK, Sorts
  <2>2. CASE e.type = "text_delta"
    <3>1. body' = [body EXCEPT !["message"] = Append(@, e.of)]
      BY <1>4, <2>2 DEF HearText
    <3> QED
      BY <2>1, <2>2, <3>1 DEF Delta, Sorts
  <2>3. CASE e.type = "reasoning_delta"
    <3>1. body' = [body EXCEPT !["reasoning"] = Append(@, e.of)]
      BY <1>4, <2>3 DEF HearText
    <3> QED
      BY <2>1, <2>3, <3>1 DEF Delta, Sorts
  <2>4. CASE e.type \notin {"text_delta", "reasoning_delta"}
    BY <1>4, <2>4 DEF Delta
  <2> QED
    BY <2>2, <2>3, <2>4
<1>6. ASSUME NEW k \in Sorts PROVE Flows(k)' /\ FromBeginning(body[k], k)'
  <2>1. FromBeginning(body[k], k)
    BY <1>2 DEF NothingLost, Sorts
  <2> QED
    BY <1>1, <1>2, <1>5, <2>1, FlowsHeard DEF e
<1>7. EndsCome'
  BY <1>2, EndsHeard
<1>8. CallsEnd' /\ Finishes'
  BY DEF HearingInv
<1>9. ASSUME finish' # "none"
      PROVE  /\ \A k \in Sorts : Told(k)' => \A p \in Pieces(k)' : Holds(body[k], p)'
             /\ \A i \in Items : calls'[i] = "whole" <=> Whole(i)'
             /\ task' # "reading"
  <2>1. task' # "reading" /\ AreLast(1)'
    BY <1>8, <1>9 DEF Finishes
  <2>2. \A n \in 1 .. Len(Ahead') : Ahead'[n].type \in {"finish", "done"}
    BY <2>1 DEF AreLast
  <2>3. \A k \in Sorts : \A p : ~ Comes(k, p)'
    BY <2>2 DEF Comes, Delta
  <2>4. \A k \in Sorts : Told(k)' => \A p \in Pieces(k)' : Holds(body[k], p)'
    BY <1>6, <2>3 DEF Flows
  <2>5. \A i \in Items : Whole(i)' => calls'[i] = "whole"
    BY <1>7, <2>2 DEF EndsCome
  <2>6. \A i \in Items : calls'[i] = "whole" => Whole(i)'
    BY <1>8 DEF CallsEnd
  <2> QED
    BY <2>1, <2>4, <2>5, <2>6
<1>10. NothingLost'
  <2>1. "message" \in Sorts /\ "reasoning" \in Sorts
    BY DEF Sorts
  <2>2. Told("message")' /\ (~ rotates' => Told("reasoning")')
    BY DEF Told
  <2>3. \A i \in Items : Whole(i)' <=> kind'[i] = "call" /\ i \notin open'
    BY DEF Whole
  <2> QED
    BY <1>6, <1>9, <2>1, <2>2, <2>3 DEF NothingLost
<1>11. ThoughtsKnown'
  BY <1>1, <1>2 DEF ThoughtsKnown
<1> QED
  BY <1>6, <1>7, <1>9, <1>10, <1>11 DEF FlowInv

\* What the message holds does not change while nothing is said or heard.
LEMMA NothingElse ==
  ASSUME NothingLost, UNCHANGED <<rotates, kind, open, said, body, calls, finish>>
  PROVE  NothingLost'
<1>1. ASSUME NEW k PROVE FromBeginning(body[k], k) => FromBeginning(body[k], k)'
  BY DEF FromBeginning, Pieces, Holds
<1> QED
  BY <1>1 DEF NothingLost, Pieces, Holds

\* Nor does what comes through while the loop does not hear: a Send only moves it.
LEMMA FlowStays ==
  ASSUME FlowInv, UNCHANGED <<rotates, kind, open, said, active, body, calls, finish>>,
         task # "reading" => task' # "reading",
         loop' = "hearing" => loop = "hearing" /\ Ahead' = Ahead
  PROVE  FlowInv'
<1>1. NothingLost' /\ ThoughtsKnown'
  BY NothingElse DEF FlowInv, ThoughtsKnown
<1>2. ASSUME loop' = "hearing", NEW k \in Sorts PROVE Flows(k)'
  <2>1. Flows(k) /\ Ahead' = Ahead
    BY <1>2 DEF FlowInv
  <2> QED
    BY <2>1 DEF Flows, Told, Pieces, Holds, Comes
<1>3. ASSUME loop' = "hearing" PROVE EndsCome'
  BY <1>3 DEF FlowInv, EndsCome, Whole
<1> QED
  BY <1>1, <1>2, <1>3 DEF FlowInv

\* What the task reads is put behind all that is on its way.
LEMMA FlowRead ==
  ASSUME TypeOK, TypeOK', FlowInv, task = "reading", out = <<>>,
         UNCHANGED <<queue, rotates, loop, body, calls, finish>>,
         SaidGrows, \A k \in Sorts : ChunkTells(k), ChunkDoes
  PROVE  FlowInv'
<1>1. finish = "none" /\ finish' = "none"
  BY DEF FlowInv
<1>2. \A k \in Sorts : FromBeginning(body[k], k)
  BY DEF FlowInv, NothingLost, Sorts
<1>3. \A k \in Sorts : FromBeginning(body[k], k)'
  BY <1>2, BeginningGrows
<1>4. NothingLost'
  BY <1>1, <1>3 DEF NothingLost, Sorts
<1>5. ASSUME loop' = "hearing" PROVE (\A k \in Sorts : Flows(k)') /\ EndsCome'
  <2>1. (\A k \in Sorts : Flows(k)) /\ EndsCome
    BY <1>5 DEF FlowInv
  <2>2. \A k \in Sorts : Flows(k)'
    BY <1>2, <2>1, FlowsGrow
  <2>3. EndsCome'
    BY <2>1, EndsGrow DEF ChunkDoes
  <2> QED
    BY <2>2, <2>3
<1> QED
  BY <1>1, <1>4, <1>5 DEF FlowInv, ChunkDoes

LEMMA FlowKept ==
  ASSUME TypeOK, TypeOK', ItemsTell, HearingInv, HearingInv', FlowInv, [Next]_vars
  PROVE  FlowInv'
<1>0. ThoughtsKnown
  BY DEF FlowInv
<1>1. CASE Chunk
  <2>1. Reading /\ UNCHANGED <<queue, rotates, loop, body, calls, finish>>
    BY <1>1 DEF Chunk, ItemAdded, TextDelta, ReasoningDelta, SummaryPartAdded, ArgumentsDelta, ItemDone,
                AnswerEnds, StreamBreaks, Elsewhere, reader, message, service
  <2>2. SaidGrows /\ (\A k \in Sorts : ChunkTells(k)) /\ ChunkDoes
    BY <1>0, <1>1, ChunksTell
  <2> QED
    BY <2>1, <2>2, FlowRead DEF Reading
<1>2. CASE StreamEnds
  <2>1. /\ task = "reading" /\ out = <<>>
        /\ UNCHANGED <<queue, rotates, kind, open, said, active, loop, body, calls, finish>>
    BY <1>2 DEF StreamEnds, Elsewhere, reader, message, service, parser
  <2>2. SaidGrows /\ \A k \in Sorts : ChunkTells(k)
    BY <1>2, <2>1, StreamEndsMute, MuteTells
  <2>3. ChunkDoes
    BY <1>0, <2>1, OtherDoes
  <2> QED
    BY <2>1, <2>2, <2>3, FlowRead
<1>3. CASE Send
  <2>1. /\ Ahead' = Ahead /\ UNCHANGED <<rotates, kind, open, said, active, loop, body, calls, finish>>
        /\ task # "reading" => task' # "reading"
    BY <1>3, AheadSent DEF Send, service, parser, reader, message
  <2> QED
    BY <2>1, FlowStays
<1>4. CASE SendFails \/ RoundEnds
  <2>1. /\ loop' = "gone" /\ UNCHANGED <<rotates, kind, open, said, active, body, calls, finish>>
        /\ task # "reading" => task' # "reading"
    BY <1>4 DEF SendFails, RoundEnds, service, parser, reader, message
  <2> QED
    BY <2>1, FlowStays
<1>5. CASE Cancel \/ UNCHANGED vars
  <2>1. UNCHANGED <<queue, out, rotates, kind, open, said, active, task, loop, body, calls, finish>>
    BY <1>5 DEF Cancel, vars, service, parser, reader, message
  <2>2. Ahead' = Ahead
    BY <2>1 DEF Ahead
  <2> QED
    BY <2>1, <2>2, FlowStays
<1>6. CASE Hear
  <2>1. CASE loop' = "hearing"
    BY <1>6, <2>1, HearFlows
  <2>2. CASE loop' # "hearing"
    <3>1. UNCHANGED <<rotates, kind, open, said, active, task, body, calls, finish>>
      BY <1>6, <2>2 DEF Hear, message, service, parser
    <3> QED
      BY <2>2, <3>1, FlowStays
  <2> QED
    BY <2>1, <2>2
<1> QED
  BY <1>1, <1>2, <1>3, <1>4, <1>5, <1>6 DEF Next, Task, Loop

\* At the start nothing is said.
LEMMA InitFlows ==
  ASSUME Init, \A n \in 1 .. Len(Ahead) : Ahead[n].type \in {"start", "start_step"} PROVE FlowInv
<1>1. /\ said = <<>> /\ body = [k \in Sorts |-> <<>>] /\ finish = "none" /\ open = {}
      /\ \A i \in Items : ~ Whole(i)
  BY DEF Init, Sorts, Whole
<1>2. \A k \in Sorts : body[k] = <<>> /\ Len(body[k]) = 0 /\ Pieces(k) = {}
  BY <1>1 DEF Pieces
<1>3. \A k \in Sorts : FromBeginning(body[k], k)
  BY <1>2 DEF FromBeginning
<1>4. \A k \in Sorts : Flows(k)
  BY <1>2 DEF Flows, Delta
<1> QED
  BY <1>1, <1>3, <1>4 DEF FlowInv, ThoughtsKnown, EndsCome, NothingLost, Sorts

-----------------------------------------------------------------------------
LEMMA InitInv == ASSUME Init PROVE IInv
<1>1. TypeOK /\ ItemsTell
  BY InitTypes
<1> DEFINE e == Event("start", None)
           f == Event("start_step", None)
<1>2. ~ Starts(e) /\ ~ Ends(e) /\ ~ Starts(f) /\ ~ Ends(f) /\ Silent(e) /\ Silent(f)
  BY DEF Starts, Ends, Silent, Event
<1>3. out = <<e, f>> /\ queue = <<>> /\ brackets = {} /\ task = "reading"
  BY DEF Init
<1>4. OpenNow = {}
  BY DEF Init, OpenNow
<1> HIDE DEF e, f
<1>5. Len(out) = 2 /\ \A n \in 1 .. 2 : out[n] = e \/ out[n] = f
  <2>1. \A n \in 1 .. 2 : n = 1 \/ n = 2
    OBVIOUS
  <2> QED
    BY <1>3, <2>1
<1>6. Started(out) = {}
  BY <1>2, <1>5 DEF Started
<1>7. Balanced
  BY <1>2, <1>3, <1>4, <1>5, <1>6 DEF Balanced, Silent
<1>8. Ahead = out
  BY <1>1, <1>3, ConcatEmptySeq DEF Ahead, TypeOK
<1>9. \A n \in 1 .. Len(Ahead) : Silent(Ahead[n])
  BY <1>2, <1>5, <1>8
<1>10. ~ hasCall /\ finish = "none" /\ reason = "unknown" /\ \A i \in Items : calls[i] = "none"
  BY DEF Init
<1>11. HearingInv /\ AsksAgainForCalls
  BY <1>9, <1>10 DEF HearingInv, AsksAgainForCalls, Heard, CallAhead, CallsEnd, Finishes, Silent
<1>12. FlowInv
  <2>1. \A n \in 1 .. Len(Ahead) : Ahead[n].type \in {"start", "start_step"}
    <3>1. e.type = "start" /\ f.type = "start_step"
      BY DEF e, f, Event
    <3>2. Len(Ahead) = 2 /\ \A n \in 1 .. 2 : Ahead[n] = e \/ Ahead[n] = f
      BY <1>5, <1>8
    <3> QED
      BY <3>1, <3>2
  <2> QED
    BY <2>1, InitFlows
<1> QED
  BY <1>1, <1>7, <1>11, <1>12 DEF IInv

LEMMA InvKept == ASSUME IInv, [Next]_vars PROVE IInv'
<1>1. TypeOK' /\ ItemsTell' /\ Balanced'
  BY TypesKept, BalancedKept DEF IInv
<1>2. HearingInv' /\ AsksAgainForCalls'
  BY <1>1, HearingKept DEF IInv
<1> QED
  BY <1>1, <1>2, FlowKept DEF IInv

LEMMA Invariant == Spec => []IInv
<1>1. Init => IInv
  BY InitInv
<1>2. IInv /\ [Next]_vars => IInv'
  BY InvKept
<1> QED
  BY <1>1, <1>2, PTL DEF Spec

\* Every variable keeps its type and the channel its bound, whatever the items
\* are and however they interleave.
THEOREM TypeCorrect == Spec => []TypeOK
<1>1. IInv => TypeOK
  BY DEF IInv
<1> QED
  BY <1>1, Invariant, PTL

\* An event of do_stream's task ends only what is open, whatever the service
\* leaves open, and a step is finished with nothing open.
THEOREM EndsWhatStarted == Spec => Bracketed
<1> DEFINE Well == Len(queue') > Len(queue) =>
                      LET e == Last(queue') IN
                      /\ Ends(e) => Bracket(e) \in brackets
                      /\ Starts(e) /\ e.type # "reasoning_start" => Bracket(e) \notin brackets
                      /\ e.type = "finish_step" => brackets = {}
<1>1. IInv /\ [Next]_vars => [Well]_vars
  BY EndsWhatIsOpen DEF IInv
<1>2. Spec => [][Well]_vars
  BY <1>1, Invariant, PTL DEF Spec
<1> QED
  BY <1>2 DEF Bracketed

\* Wherever the answer is cut, the loop is told that it ended for its calls only
\* when one of them came through, with all its arguments.
THEOREM AsksForACall == Spec => []AsksAgainForCalls
<1>1. IInv => AsksAgainForCalls
  BY DEF IInv
<1> QED
  BY <1>1, Invariant, PTL

\* What the message holds is a part of what the service said, from its beginning
\* and in its order, and with the end of the answer all of it, with the arguments
\* of every call that was finished: no interleaving of the items, no full channel
\* and no cancel between two events loses, repeats or reorders a piece.
THEOREM AllIsHeard == Spec => []NothingLost
<1>1. IInv => NothingLost
  BY DEF IInv, FlowInv
<1> QED
  BY <1>1, Invariant, PTL
=============================================================================
