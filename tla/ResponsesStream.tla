-------------------------- MODULE ResponsesStream --------------------------
(***************************************************************************)
(* One streamed answer of the Responses API (kfcode-provider responses.rs) *)
(* on its way into a message: the service sends chunks about the items of  *)
(* its output, a task of do_stream turns each into stream events and puts  *)
(* them into a bounded channel, and the prompt loop (prompt.rs) builds the *)
(* assistant message from them.  The service may end its answer, cut it    *)
(* short, report an error or lose the connection anywhere, the user may    *)
(* cancel anywhere, and the receiver goes when the loop's round is over.   *)
(*                                                                         *)
(* Only function tools are ever offered to the service, so the items of an *)
(* answer are messages, thoughts (reasoning) and function calls.  Pieces   *)
(* of text are numbered in the order they were said.                       *)
(***************************************************************************)
EXTENDS Naturals, Sequences, SequencesExt

CONSTANTS
    Items,      \* indices of the answer's items (output_index)
    None,       \* no item
    Capacity,   \* bound of the channel (256 in the code)
    MaxSaid     \* bound on the pieces of text and thought

ASSUME ItemsAssumption == None \notin Items
ASSUME CapacityAssumption == Capacity \in Nat \ {0}
ASSUME MaxSaidAssumption == MaxSaid \in Nat

VARIABLES
    \* the service
    rotates,    \* whether it gives an item another id in every chunk
    kind,       \* what each item is, "none" before it is added
    open,       \* items that were added and are not done
    said,       \* the pieces of text and thought, by the kind of their item
    ending,     \* how the answer ended, "none" before
    \* the task of do_stream
    task,       \* "reading", "closing" after its loop, "ended"
    out,        \* events of the last chunk that are not in the channel yet
    textOpen,   \* text_open
    textItem,   \* the item whose id is current_text_id
    ongoing,    \* ongoing_tool_calls
    hasCall,    \* has_function_call
    active,     \* active_reasoning
    thought,    \* current_reasoning_output_index
    reason,     \* finish_reason
    \* the channel
    queue,
    \* the prompt loop
    loop,       \* "hearing", "done" with the message, "gone" with the receiver
    cancelled,  \* its token
    body,       \* the message's text and thoughts, by the pieces they hold
    calls,      \* tool_calls: how much of each call's arguments is known
    finish,     \* its finish_reason
    \* ghost
    brackets    \* what is open after the events that are in the channel

service == <<rotates, kind, open, said, ending>>
parser == <<textOpen, textItem, ongoing, hasCall, active, thought, reason>>
message == <<body, calls, finish>>
reader == <<loop, cancelled, message>>
vars == <<service, task, out, parser, queue, reader, brackets>>

Kinds == {"message", "reasoning", "call"}
Event(type, of) == [type |-> type, of |-> of]

Init ==
    /\ rotates \in BOOLEAN
    /\ kind = [i \in Items |-> "none"]
    /\ open = {}
    /\ said = <<>>
    /\ ending = "none"
    /\ task = "reading"
    /\ out = <<Event("start", None), Event("start_step", None)>>
    /\ textOpen = FALSE
    /\ textItem = None
    /\ ongoing = {}
    /\ hasCall = FALSE
    /\ active = {}
    /\ thought = None
    /\ reason = "unknown"
    /\ queue = <<>>
    /\ loop = "hearing"
    /\ cancelled = FALSE
    /\ body = [k \in {"message", "reasoning"} |-> <<>>]
    /\ calls = [i \in Items |-> "none"]
    /\ finish = "none"
    /\ brackets = {}

-----------------------------------------------------------------------------
(* The next chunk of the service, and what process_stream_chunk makes of   *)
(* it.  Chunks wait in the connection, so they may be chosen when they are *)
(* read.                                                                   *)

Reading == task = "reading" /\ out = <<>> /\ ending = "none"

Elsewhere == UNCHANGED <<queue, reader, brackets>>

\* Whether a chunk's item id is the one an earlier chunk of that item had.
SameId == ~ rotates

MessageAdded(i) ==
    /\ textItem' = i
    /\ textOpen' = TRUE
    /\ out' = IF textOpen THEN <<>> ELSE <<Event("text_start", None)>>
    /\ UNCHANGED <<ongoing, hasCall, active, thought>>

ReasoningAdded(i) ==
    /\ active' = active \cup {i}
    /\ thought' = i
    /\ out' = <<Event("reasoning_start", i)>>
    /\ UNCHANGED <<textOpen, textItem, ongoing, hasCall>>

\* (mutant) a call counts from its first chunk.
CallAddedCounts(i) ==
    /\ ongoing' = ongoing \cup {i}
    /\ hasCall' = TRUE
    /\ out' = <<Event("input_start", i)>>
    /\ UNCHANGED <<textOpen, textItem, active, thought>>

\* Some services send the first arguments with the item.
CallAdded(i) ==
    /\ ongoing' = ongoing \cup {i}
    /\ \/ out' = <<Event("input_start", i)>>
       \/ out' = <<Event("input_start", i), Event("input_delta", i)>>
    /\ UNCHANGED <<textOpen, textItem, hasCall, active, thought>>

ItemAdded(i) ==
    /\ Reading
    /\ kind[i] = "none"
    /\ \E k \in Kinds :
          /\ kind' = [kind EXCEPT ![i] = k]
          /\ \/ k = "message" /\ MessageAdded(i)
             \/ k = "reasoning" /\ ReasoningAdded(i)
             \/ k = "call" /\ CallAdded(i)
    /\ open' = open \cup {i}
    /\ UNCHANGED <<rotates, said, ending, task, reason>>
    /\ Elsewhere

\* Text is shown whatever item it belongs to.
TextDelta(i) ==
    /\ Reading
    /\ i \in open /\ kind[i] = "message"
    /\ Len(said) < MaxSaid
    /\ said' = Append(said, "message")
    /\ textOpen' = TRUE
    /\ textItem' = IF textOpen THEN textItem ELSE i
    /\ out' = (IF textOpen THEN <<>> ELSE <<Event("text_start", None)>>)
              \o <<Event("text_delta", Len(said'))>>
    /\ UNCHANGED <<rotates, kind, open, ending, task, ongoing, hasCall, active, thought, reason>>
    /\ Elsewhere

\* (mutant) the item is found by the one that is current.
ReasoningDeltaOfCurrent(i) ==
    /\ Reading
    /\ i \in open /\ kind[i] = "reasoning"
    /\ Len(said) < MaxSaid
    /\ said' = Append(said, "reasoning")
    /\ out' = IF i = thought THEN <<Event("reasoning_delta", Len(said'))>> ELSE <<>>
    /\ UNCHANGED <<rotates, kind, open, ending, task, parser>>
    /\ Elsewhere

\* The item is looked up by its id: a thought whose id changed is dropped.
ReasoningDelta(i) ==
    /\ Reading
    /\ i \in open /\ kind[i] = "reasoning"
    /\ Len(said) < MaxSaid
    /\ said' = Append(said, "reasoning")
    /\ out' = IF SameId /\ i \in active THEN <<Event("reasoning_delta", Len(said'))>> ELSE <<>>
    /\ UNCHANGED <<rotates, kind, open, ending, task, parser>>
    /\ Elsewhere

\* A further part of a summary starts again, under the id it began with; an
\* id that changed is taken for the current item's.
SummaryPartAdded(i) ==
    /\ Reading
    /\ i \in open /\ kind[i] = "reasoning"
    /\ LET j == IF SameId THEN i ELSE thought
       IN /\ j \in active
          /\ out' = <<Event("reasoning_start", j)>>
    /\ UNCHANGED <<service, task, parser>>
    /\ Elsewhere

ArgumentsDelta(i) ==
    /\ Reading
    /\ i \in open /\ kind[i] = "call"
    /\ out' = IF i \in ongoing THEN <<Event("input_delta", i)>> ELSE <<>>
    /\ UNCHANGED <<service, task, parser>>
    /\ Elsewhere

MessageDone(i) ==
    /\ IF SameId /\ textItem = i /\ textOpen
       THEN textOpen' = FALSE /\ textItem' = None /\ out' = <<Event("text_end", None)>>
       ELSE UNCHANGED <<textOpen, textItem>> /\ out' = <<>>
    /\ UNCHANGED <<ongoing, hasCall, active>>

ReasoningDone(i) ==
    /\ IF SameId /\ i \in active
       THEN active' = active \ {i} /\ out' = <<Event("reasoning_end", i)>>
       ELSE UNCHANGED active /\ out' = <<>>
    /\ UNCHANGED <<textOpen, textItem, ongoing, hasCall>>

\* (mutant) the call is still closed with the stream.
CallDoneKept(i) ==
    /\ hasCall' = TRUE
    /\ out' = <<Event("input_end", i), Event("call_end", i)>>
    /\ UNCHANGED <<textOpen, textItem, ongoing, active>>

\* The item has all of the call's arguments.
CallDone(i) ==
    /\ ongoing' = ongoing \ {i}
    /\ hasCall' = TRUE
    /\ out' = <<Event("input_end", i), Event("call_end", i)>>
    /\ UNCHANGED <<textOpen, textItem, active>>

ItemDone(i) ==
    /\ Reading
    /\ i \in open
    /\ \/ kind[i] = "message" /\ MessageDone(i)
       \/ kind[i] = "reasoning" /\ ReasoningDone(i)
       \/ kind[i] = "call" /\ CallDone(i)
    /\ open' = open \ {i}
    /\ UNCHANGED <<rotates, kind, said, ending, task, thought, reason>>
    /\ Elsewhere

\* map_openai_response_finish_reason: details is incomplete_details.reason.
FinishReason(details, call) ==
    CASE details = "max_output_tokens" -> "length"
      [] details = "content_filter" -> "content-filter"
      [] OTHER -> IF call THEN "tool-calls" ELSE IF details = "none" THEN "stop" ELSE "unknown"

\* The last chunk.  "response.failed" is not among the chunks that are known,
\* so nothing comes of it.
AnswerEnds ==
    /\ Reading
    /\ \/ open = {} /\ ending' = "completed" /\ reason' = FinishReason("none", hasCall) /\ out' = <<>>
       \/ /\ \E d \in {"max_output_tokens", "content_filter", "other"} :
                reason' = FinishReason(d, hasCall)
          /\ ending' = "incomplete" /\ out' = <<>>
       \/ ending' = "error" /\ reason' = "error" /\ out' = <<Event("error", None)>>
       \/ ending' \in {"failed", "cut"} /\ UNCHANGED reason /\ out' = <<>>
    /\ UNCHANGED <<rotates, kind, open, said, task, textOpen, textItem, ongoing, hasCall, active, thought>>
    /\ Elsewhere

-----------------------------------------------------------------------------
(* The task of do_stream.                                                  *)

\* What is left open is closed.
Closing ==
    (IF textOpen THEN <<Event("text_end", None)>> ELSE <<>>)
    \o SetToSeq({Event("input_end", i) : i \in ongoing})
    \o SetToSeq({Event("reasoning_end", i) : i \in active})

\* The connection is closed, in an orderly way.
StreamEnds ==
    /\ task = "reading" /\ out = <<>> /\ ending # "none"
    /\ LET r == IF reason = "unknown" THEN FinishReason("none", hasCall) ELSE reason
       IN out' = Closing \o <<Event("finish_step", r), Event("finish", None), Event("done", None)>>
    /\ task' = "closing"
    /\ UNCHANGED <<service, parser>>
    /\ Elsewhere

\* The connection breaks.
StreamBreaks ==
    /\ Reading
    /\ ending' = "broken"
    /\ out' = <<Event("err", None)>>
    /\ task' = "closing"
    /\ UNCHANGED <<rotates, kind, open, said, parser>>
    /\ Elsewhere

\* What an event opens or closes.
Bracket(e) ==
    CASE e.type \in {"text_start", "text_end"} -> <<"text", None>>
      [] e.type \in {"input_start", "input_end"} -> <<"input", e.of>>
      [] e.type \in {"reasoning_start", "reasoning_end"} -> <<"reasoning", e.of>>
      [] OTHER -> <<"none", None>>
Starts(e) == e.type \in {"text_start", "input_start", "reasoning_start"}
Ends(e) == e.type \in {"text_end", "input_end", "reasoning_end"}

Send ==
    /\ out # <<>>
    /\ loop # "gone"
    /\ Len(queue) < Capacity
    /\ LET e == Head(out)
       IN /\ queue' = Append(queue, e)
          /\ brackets' = IF Starts(e) THEN brackets \cup {Bracket(e)} ELSE brackets \ {Bracket(e)}
    /\ out' = Tail(out)
    /\ task' = IF task = "closing" /\ Len(out) = 1 THEN "ended" ELSE task
    /\ UNCHANGED <<service, parser, reader>>

\* (mutant) a receiver that is gone is noticed only at the end.
SendFailsLate ==
    /\ out # <<>>
    /\ loop = "gone"
    /\ task = "closing"
    /\ out' = <<>>
    /\ task' = "ended"
    /\ UNCHANGED <<service, parser, queue, reader, brackets>>

\* The receiver is gone: the task returns, but for the first two events, of
\* which it does not ask.
SendFails ==
    /\ out # <<>>
    /\ loop = "gone"
    /\ IF Head(out).type \in {"start", "start_step"}
       THEN out' = Tail(out) /\ UNCHANGED task
       ELSE out' = <<>> /\ task' = "ended"
    /\ UNCHANGED <<service, parser, queue, reader, brackets>>

-----------------------------------------------------------------------------
(* The prompt loop.                                                        *)

Cancel ==
    /\ ~ cancelled
    /\ loop = "hearing"
    /\ cancelled' = TRUE
    /\ UNCHANGED <<service, task, out, parser, queue, loop, message, brackets>>

HearText(e) ==
    /\ LET k == IF e.type = "text_delta" THEN "message" ELSE "reasoning"
       IN body' = [body EXCEPT ![k] = Append(@, e.of)]
    /\ UNCHANGED <<calls, finish>>

HearCall(e) ==
    /\ calls' = [calls EXCEPT ![e.of] =
          CASE e.type = "input_start" -> IF @ = "none" THEN "named" ELSE @
            [] e.type = "input_delta" -> "part"
            [] e.type = "call_end" -> "whole"]
    /\ UNCHANGED <<body, finish>>

HearFinish(e) ==
    /\ finish' = e.of
    /\ UNCHANGED <<body, calls>>

\* stream.next(): a cancelled loop stops at the next event, an error returns
\* at once and takes the receiver with it.
Hear ==
    /\ loop = "hearing"
    /\ queue # <<>>
    /\ queue' = Tail(queue)
    /\ LET e == Head(queue)
       IN IF cancelled
          THEN loop' = "done" /\ UNCHANGED message
          ELSE \/ e.type \in {"text_delta", "reasoning_delta"} /\ HearText(e) /\ UNCHANGED loop
               \/ e.type \in {"input_start", "input_delta", "call_end"} /\ HearCall(e) /\ UNCHANGED loop
               \/ e.type = "finish_step" /\ HearFinish(e) /\ UNCHANGED loop
               \/ e.type \in {"finish", "done"} /\ loop' = "done" /\ UNCHANGED message
               \/ e.type \in {"error", "err"} /\ loop' = "gone" /\ UNCHANGED message
               \/ /\ e.type \in {"start", "start_step", "text_start", "text_end",
                                 "reasoning_start", "reasoning_end", "input_end"}
                  /\ UNCHANGED <<loop, message>>
    /\ UNCHANGED <<service, task, out, parser, cancelled, brackets>>

\* The round is over (the calls have been run): the stream is dropped.
RoundEnds ==
    /\ loop = "done"
    /\ loop' = "gone"
    /\ UNCHANGED <<service, task, out, parser, queue, cancelled, message, brackets>>

-----------------------------------------------------------------------------
Chunk ==
    \/ \E i \in Items :
          \/ ItemAdded(i) \/ TextDelta(i) \/ ReasoningDelta(i) \/ SummaryPartAdded(i)
          \/ ArgumentsDelta(i) \/ ItemDone(i)
    \/ AnswerEnds \/ StreamBreaks
Task == StreamEnds \/ Send \/ SendFails
Loop == Hear \/ RoundEnds

Next == Chunk \/ Task \/ Cancel \/ Loop

Spec == Init /\ [][Next]_vars

\* A service that is read ends its answer sooner or later; the task and the
\* loop go on.
FairSpec == Spec /\ SF_vars(AnswerEnds \/ StreamBreaks) /\ WF_vars(Task) /\ WF_vars(Loop)

-----------------------------------------------------------------------------
(* Properties.                                                             *)

EventTypes ==
    {"start", "start_step", "text_start", "text_delta", "text_end", "reasoning_start",
     "reasoning_delta", "reasoning_end", "input_start", "input_delta", "input_end", "call_end",
     "finish_step", "finish", "done", "error", "err"}
Reasons == {"stop", "tool-calls", "length", "content-filter", "error", "unknown"}
OfCalls == {"input_start", "input_delta", "input_end", "call_end"}
Events ==
    {e \in [type : EventTypes, of : Nat \cup Reasons \cup Items \cup {None}] :
        /\ e.type \in {"text_delta", "reasoning_delta"} => e.of \in Nat
        /\ e.type \in OfCalls \cup {"reasoning_start", "reasoning_end"} => e.of \in Items
        /\ e.type = "finish_step" => e.of \in Reasons}

TypeOK ==
    /\ rotates \in BOOLEAN
    /\ kind \in [Items -> Kinds \cup {"none"}]
    /\ open \in SUBSET Items
    /\ said \in Seq({"message", "reasoning"})
    /\ ending \in {"none", "completed", "incomplete", "error", "failed", "cut", "broken"}
    /\ task \in {"reading", "closing", "ended"}
    /\ out \in Seq(Events)
    /\ textOpen \in BOOLEAN
    /\ textItem \in Items \cup {None}
    /\ ongoing \in SUBSET Items
    /\ hasCall \in BOOLEAN
    /\ active \in SUBSET Items
    /\ thought \in Items \cup {None}
    /\ reason \in Reasons
    /\ queue \in Seq(Events) /\ Len(queue) <= Capacity
    /\ loop \in {"hearing", "done", "gone"}
    /\ cancelled \in BOOLEAN
    /\ body \in [{"message", "reasoning"} -> Seq(Nat)]
    /\ calls \in [Items -> {"none", "named", "part", "whole"}]
    /\ finish \in Reasons \cup {"none"}
    /\ brackets \in SUBSET ({"text", "input", "reasoning"} \X (Items \cup {None}))

\* The pieces of one kind, and a list of them that has all up to its last one,
\* in the order they were said.
Pieces(k) == {p \in 1 .. Len(said) : said[p] = k}
Holds(s, p) == \E n \in 1 .. Len(s) : s[n] = p
FromBeginning(s, k) ==
    /\ \A n \in 1 .. Len(s) : s[n] \in Pieces(k)
    /\ \A m, n \in 1 .. Len(s) : m < n => s[m] < s[n]
    /\ \A n \in 1 .. Len(s) : \A p \in Pieces(k) : p < s[n] => Holds(s, p)

\* What a message holds is at all times a part of what the service said, from
\* its beginning and in its order, however its items interleave; and when the
\* end of the answer is heard it is all of it, and of each call that the
\* service finished it is all the arguments: a call without them was cut, by
\* the service or by a cancel.  The thoughts of a service that changes its ids
\* are the exception.
NothingLost ==
    /\ FromBeginning(body["message"], "message")
    /\ FromBeginning(body["reasoning"], "reasoning")
    /\ finish # "none" =>
          /\ \A p \in Pieces("message") : Holds(body["message"], p)
          /\ ~ rotates => \A p \in Pieces("reasoning") : Holds(body["reasoning"], p)
          /\ \A i \in Items : calls[i] = "whole" <=> kind[i] = "call" /\ i \notin open

\* An answer that is said to have ended for its calls has brought one, with all
\* its arguments.  The loop runs whatever calls a message has, cut ones too, and
\* looks at the reason only when it has none: for this reason it then asks again,
\* which without a call behind it would be the same question up to the step limit.
AsksAgainForCalls ==
    finish = "tool-calls" => \E i \in Items : calls[i] = "whole"

\* Whatever the service leaves open, an event only ends what another one has
\* started, and nothing is open when the step is finished.
Bracketed ==
    [][Len(queue') > Len(queue) =>
          LET e == Last(queue') IN
          /\ Ends(e) => Bracket(e) \in brackets
          /\ Starts(e) /\ e.type # "reasoning_start" => Bracket(e) \notin brackets
          /\ e.type = "finish_step" => brackets = {}]_vars

\* The task does not outlive its answer and its receiver, whether the channel
\* was full, the user cancelled or the loop went away.
TaskEnds == <>(task = "ended" /\ loop = "gone")
=============================================================================
