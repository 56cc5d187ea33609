------------------------------- MODULE Request -------------------------------
(* One request to the provider: FireworksProvider::invoke of oracle.rs, with *)
(* its continuations of a truncated answer, and the parser of a streamed     *)
(* answer, read_stream.                                                      *)
(*                                                                           *)
(* The wire carries the tokens of a body: "text", "cut" and "done" are data  *)
(* lines (a piece of the answer, a piece with the finish reason "length",    *)
(* the end marker), "comment" is a comment line, "CR" and "LF" end lines,    *)
(* and "bom1", "bom2" are the halves of a byte order mark.  The buffer is    *)
(* what was received and not taken yet, and an answer is the sequence of the *)
(* positions of its pieces.  Limits count tokens.                            *)
EXTENDS Integers, Sequences, FiniteSets, SequencesExt

CONSTANTS
    Bodies,             \* what a stream may carry
    MoreBodies,         \* what the stream of a continuation may carry
    Completions,        \* answers that are not streamed: [text, cut]
    MaxContinuations,   \* MAX_TRUNCATION_CONTINUATIONS
    MaxBuffer,          \* MAX_SSE_BUFFER_BYTES
    MaxEvents           \* MAX_SSE_EVENTS

Pieces == {"text", "cut"}
Data == Pieces \cup {"done"}
LineEnds == {"CR", "LF"}

\* A token is a whole line, a line end, or half of the byte order mark that may
\* begin a body.
WellFormed(b) ==
    /\ b \in Seq(Data \cup LineEnds \cup {"comment", "bom1", "bom2"})
    /\ \A i \in DOMAIN b :
        /\ b[i] = "bom1" => i = 1
        /\ b[i] = "bom2" <=> i = 2 /\ b[1] = "bom1"
        /\ i > 1 => {b[i - 1], b[i]} \cap (LineEnds \cup {"bom2"}) # {}

ASSUME RequestAssumption ==
    /\ {MaxContinuations, MaxBuffer, MaxEvents} \subseteq Nat
    /\ \A b \in Bodies \cup MoreBodies : WellFormed(b)
    /\ Completions \subseteq [text : Seq(Nat), cut : BOOLEAN]

VARIABLES
    class,      \* of max_tokens: "utility" (to 512), "plain" (to 4096), "stream"
    phase,      \* "idle", "sending", "reading", "judging" or "over"
    segment,    \* segment_idx
    messages,   \* the answers among the messages of the request
    combined,   \* pairs of a segment and a position in it
    body,       \* of the current response
    received, taken,    \* positions in it: the buffer lies between them
    opened,     \* the first chunk has been looked at (bom_stripped)
    event,      \* positions of the data lines of the event (event_data)
    events,     \* event_count
    completion, \* [text, cut]: result and finish_reason
    marked,     \* saw_done
    outcome,    \* "none", "ok" or an error
    answers,    \* completions of the segments (history)
    bomSplit    \* a byte order mark came in two chunks (history)

stream == <<body, received, taken, opened, event, events, completion, marked>>
requestVars == <<class, phase, segment, messages, combined, stream, outcome, answers, bomSplit>>

Nothing == [text |-> <<>>, cut |-> FALSE]

RequestInit ==
    /\ class \in {"utility", "plain", "stream"}
    /\ phase = "sending" /\ segment = 0 /\ messages = <<>> /\ combined = <<>>
    /\ body = <<>> /\ received = 0 /\ taken = 0 /\ opened = FALSE
    /\ event = <<>> /\ events = 0 /\ completion = Nothing /\ marked = FALSE
    /\ outcome = "none" /\ answers = <<>> /\ bomSplit = FALSE

-----------------------------------------------------------------------------
(* Lines and events *)

\* A CR at the end of the buffer taken for a line end.
BoundaryEager(from, to) ==
    LET ends == {i \in from + 1 .. to : body[i] \in LineEnds}
        i == CHOOSE j \in ends : \A e \in ends : j <= e
    IN IF ends = {} THEN <<>>
       ELSE <<i, IF body[i] = "CR" /\ i + 1 <= to /\ body[i + 1] = "LF" THEN i + 1 ELSE i>>

\* The next line of the buffer: where its text ends and where the rest starts,
\* if it is complete.  A CR that ends the buffer may be half of a CR LF.
Boundary(from, to) ==
    LET ends == {i \in from + 1 .. to : body[i] \in LineEnds}
        i == CHOOSE j \in ends : \A e \in ends : j <= e
    IN IF ends = {} \/ (body[i] = "CR" /\ i + 1 > to) THEN <<>>
       ELSE <<i, IF body[i] = "CR" /\ body[i + 1] = "LF" THEN i + 1 ELSE i>>

\* Two documents in one event are no JSON document.
Malformed == Len(event) > 1

\* An event goes to the answer or sets the end marker.
Dispatch ==
    LET e == event[1]
        piece == event # <<>> /\ body[e] \in Pieces
    IN /\ completion' = IF ~piece THEN completion
                        ELSE [text |-> Append(completion.text, e),
                              cut |-> completion.cut \/ body[e] = "cut"]
       /\ marked' = (marked \/ (event # <<>> /\ body[e] = "done"))

-----------------------------------------------------------------------------
(* The request *)

Fail(why) ==
    /\ phase' = "over" /\ outcome' = why
    /\ UNCHANGED <<class, segment, messages, combined, stream, answers, bomSplit>>

\* The connection or the provider fails.
SendFails == phase = "sending" /\ \E why \in {"network", "rate", "auth", "api"} : Fail(why)

AnswerWhole ==
    /\ phase = "sending" /\ class # "stream"
    /\ completion' \in Completions
    /\ phase' = "judging"
    /\ UNCHANGED <<class, segment, messages, combined, body, received, taken, opened, event,
                   events, marked, outcome, answers, bomSplit>>

AnswerMalformed == phase = "sending" /\ class # "stream" /\ Fail("corrupted")

StartStream ==
    /\ phase = "sending" /\ class = "stream"
    /\ body' \in IF segment = 0 THEN Bodies ELSE MoreBodies
    /\ received' = 0 /\ taken' = 0 /\ opened' = FALSE
    /\ event' = <<>> /\ events' = 0 /\ completion' = Nothing /\ marked' = FALSE
    /\ phase' = "reading"
    /\ UNCHANGED <<class, segment, messages, combined, outcome, answers, bomSplit>>

Reading == phase = "reading"
HasLine == Boundary(taken, received) # <<>>

Receive(n) ==
    /\ Reading /\ ~HasLine /\ n <= Len(body)
    /\ Len(completion.text) + n - taken <= MaxBuffer
    /\ LET bom == ~opened /\ body[1] = "bom1"
       IN /\ taken' = IF bom /\ n > 1 THEN 2 ELSE taken
          /\ bomSplit' = (bomSplit \/ (bom /\ n = 1))
    /\ received' = n /\ opened' = TRUE
    /\ UNCHANGED <<class, phase, segment, messages, combined, body, event, events, completion,
                   marked, outcome, answers>>

Overflow ==
    /\ Reading /\ ~HasLine
    /\ \E n \in received + 1 .. Len(body) : Len(completion.text) + n - taken > MaxBuffer
    /\ Fail("corrupted")

\* An empty line ends the event.
EndEvent ==
    /\ Reading /\ HasLine
    /\ LET b == Boundary(taken, received)
       IN b[1] = taken + 1 /\ taken' = b[2]
    /\ ~Malformed
    /\ Dispatch
    /\ event' = <<>>
    /\ UNCHANGED <<class, phase, segment, messages, combined, body, received, opened, events,
                   outcome, answers, bomSplit>>

MalformedEvent ==
    /\ Reading /\ HasLine /\ Malformed
    /\ Boundary(taken, received)[1] = taken + 1
    /\ Fail("incomplete")

\* Lines with another start than "data:" are skipped.
TakeLine ==
    /\ Reading /\ HasLine
    /\ LET b == Boundary(taken, received)
           isData == body[taken + 1] \in Data
       IN /\ b[1] > taken + 1
          /\ isData => events < MaxEvents
          /\ event' = IF isData THEN Append(event, taken + 1) ELSE event
          /\ events' = IF isData THEN events + 1 ELSE events
          /\ taken' = b[2]
    /\ UNCHANGED <<class, phase, segment, messages, combined, body, received, opened,
                   completion, marked, outcome, answers, bomSplit>>

TooManyEvents ==
    /\ Reading /\ HasLine /\ body[taken + 1] \in Data /\ events = MaxEvents
    /\ Fail("corrupted")

Breaks == Reading /\ ~HasLine /\ received < Len(body) /\ Fail("network")

\* An event whose empty line never came still counts.
EndOfStream ==
    /\ Reading /\ ~HasLine /\ received = Len(body)
    /\ ~Malformed
    /\ Dispatch
    /\ marked'
    /\ event' = <<>> /\ phase' = "judging"
    /\ UNCHANGED <<class, segment, messages, combined, body, received, taken, opened, events,
                   outcome, answers, bomSplit>>

Incomplete ==
    /\ Reading /\ ~HasLine /\ received = Len(body)
    /\ Malformed \/ ~(marked \/ (event # <<>> /\ body[event[1]] = "done"))
    /\ Fail("incomplete")

Tagged == [i \in DOMAIN completion.text |-> <<segment, completion.text[i]>>]

\* At the last segment, what there is.
JudgementLenient ==
    IF ~completion.cut \/ class = "utility" \/ segment = MaxContinuations THEN "ok"
    ELSE IF completion.text = <<>> THEN "truncated" ELSE "continue"

\* The outcome of an answer; a string other than "ok" is the error.
Judgement ==
    IF ~completion.cut \/ (class = "utility" /\ combined \o Tagged # <<>>) THEN "ok"
    ELSE IF class = "utility" \/ segment = MaxContinuations \/ completion.text = <<>>
    THEN "truncated" ELSE "continue"

Judge ==
    /\ phase = "judging"
    /\ combined' = combined \o Tagged
    /\ answers' = Append(answers, completion)
    /\ LET j == Judgement
       IN IF j = "continue"
          THEN /\ phase' = "sending" /\ segment' = segment + 1
               /\ messages' = Append(messages, Tagged)
               /\ UNCHANGED outcome
          ELSE /\ phase' = "over" /\ outcome' = j
               /\ UNCHANGED <<segment, messages>>
    /\ UNCHANGED <<class, stream, bomSplit>>

\* tokio::time::timeout around all segments.
TimeOut == phase \in {"sending", "reading"} /\ Fail("timeout")

RequestNext ==
    \/ SendFails \/ AnswerWhole \/ AnswerMalformed \/ StartStream
    \/ \E n \in received + 1 .. Len(body) : Receive(n)
    \/ Overflow \/ EndEvent \/ MalformedEvent \/ TakeLine \/ TooManyEvents \/ Breaks
    \/ EndOfStream \/ Incomplete \/ Judge \/ TimeOut

-----------------------------------------------------------------------------
(* The answer as the whole body defines it *)

Terminators ==
    {i \in DOMAIN body :
        \/ body[i] = "LF" /\ (i = 1 \/ body[i - 1] # "CR")
        \/ body[i] = "CR" /\ i < Len(body)}
DataLines ==
    {i \in DOMAIN body : body[i] \in Data /\ \E e \in Terminators : e > i}
\* Two terminators with no text between them.
EmptyLineBetween(i, j) ==
    \E e, f \in Terminators :
        i < e /\ e < f /\ f < j /\ \A x \in e .. f : body[x] \in LineEnds
OneEventEach == \A i, j \in DataLines : i < j => EmptyLineBetween(i, j)
\* The answer of the lines in S: its text is their pieces in order.
IsAnswerOf(c, S) ==
    /\ ToSet(c.text) = {i \in S : body[i] \in Pieces}
    /\ \A x, y \in DOMAIN c.text : x < y => c.text[x] < c.text[y]
    /\ c.cut = \E i \in S : body[i] = "cut"

\* However the network cuts a stream into chunks, between the two characters
\* of a line end, in the middle of an event, without a last empty line, what
\* is read of it is what the whole body says, each piece once and in order;
\* it is only accepted with its end marker.  A byte order mark that comes in
\* two chunks is an exception: the line behind it is skipped.
ChunkingInvisible ==
    (phase = "judging" /\ class = "stream" /\ ~bomSplit) =>
        /\ OneEventEach
        /\ \E i \in DataLines : body[i] = "done"
        /\ IsAnswerOf(completion, DataLines)

\* An answer that is handed out is whole: it is all segments in their order,
\* every one but the last was truncated and had a text, and the last was not
\* truncated, unless the call asked for a few tokens only.  Every continuation
\* was asked for with all earlier segments.
WholeOrRefused ==
    LET tagged == [s \in DOMAIN answers |->
                     [i \in DOMAIN answers[s].text |-> <<s - 1, answers[s].text[i]>>]]
    IN /\ messages = SubSeq(tagged, 1, segment)
       /\ outcome = "ok" =>
            /\ combined = FlattenSeq(tagged)
            /\ \A s \in 1 .. Len(answers) - 1 : answers[s].cut /\ answers[s].text # <<>>
            /\ Last(answers).cut => class = "utility" /\ combined # <<>>
=============================================================================
