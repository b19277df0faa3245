------------------------------ MODULE LaneStream ------------------------------
(***************************************************************************)
(* Streaming answers (omega-core/src/proxy.rs): LaneAnnotatingStream cuts  *)
(* the bytes of a server's answer, in whatever chunks they come, into SSE  *)
(* events and writes the lane into each; GuardedStream reads the tokens    *)
(* off what passes and records the stream when it is over;                 *)
(* CrossServerStream only passes it on.                                    *)
(***************************************************************************)
EXTENDS Integers, SequencesExt, FiniteSetsExt

CONSTANTS Events,  \* the events a server may send: sequences of lines
          MaxEvents

(* A line is a record of its kind and, for usage, a number of tokens.  A    *)
(* chunk may end anywhere, also inside a line: a line is sent as two parts  *)
(* and its end.                                                             *)
Kinds == {"token", "usage", "nullUsage", "done", "garbled", "comment"}
JsonKinds == {"token", "usage", "nullUsage"}   \* the payload is a JSON object
DataKinds == JsonKinds \cup {"done", "garbled"} \* the line begins with "data: "

Line(kind, n) == [kind |-> kind, tokens |-> n]
LineSet == [kind : Kinds, tokens : Nat]

(* Every event has a line.                                                  *)
ASSUME StreamAssumption == /\ MaxEvents \in Nat
                           /\ \A e \in Events : e \in Seq(LineSet) /\ e # <<>>

Part(l, n) == [line |-> l, part |-> n, lane |-> FALSE]
Newline    == Part(Line("newline", 0), 0)

LineBytes(l)  == <<Part(l, 1), Part(l, 2), Newline>>
EventBytes(e) == FlattenSeq([i \in DOMAIN e |-> LineBytes(e[i])]) \o <<Newline>>

VARIABLES sent, tail,     \* history: the events the server sends whole, the rest
          upstream,       \* what has not arrived yet
          buffer,         \* the bytes of an event that is not complete
          out,            \* what was given to the client, poll by poll
          status,         \* of the stream
          remote,         \* is it a CrossServerStream
          tokens, first,  \* GuardedStream: completion_tokens, first_token_ms
          records         \* what the stream wrote to the metrics store

vars == <<sent, tail, upstream, buffer, out, status, remote, tokens, first, records>>

Record(ok, n, f) == [success |-> ok, tokens |-> n, first |-> f]

TypeOK == /\ status \in {"open", "closed", "broken", "left"}
          /\ remote \in BOOLEAN
          /\ tokens \in Nat
          /\ first \in 0..Len(out)
          /\ Len(records) =< 1
          /\ status = "closed" => buffer = <<>> /\ upstream = <<>>

(* The server may stop within an event: what it has sent of it has no end.  *)
Init == /\ sent \in UNION {TupleOf(Events, n) : n \in 0..MaxEvents}
        /\ tail \in {<<>>} \cup UNION {Prefixes(Front(EventBytes(e))) : e \in Events}
        /\ upstream = FlattenSeq([i \in DOMAIN sent |-> EventBytes(sent[i])]) \o tail
        /\ buffer = <<>> /\ out = <<>> /\ status = "open"
        /\ remote \in BOOLEAN
        /\ tokens = 0 /\ first = 0
        /\ records = IF remote THEN <<Record(TRUE, 0, 0)>> ELSE <<>>

-----------------------------------------------------------------------------
(* find_event_boundary.                                                     *)
Boundaries == {i \in 1..(Len(buffer) - 1) : buffer[i] = Newline /\ buffer[i + 1] = Newline}

(* annotate_event: the lane is written into the first data line of the      *)
(* block, if its payload is JSON.                                           *)
Annotated(block) ==
  LET i == SelectInSeq(block, LAMBDA byte : byte.line.kind \in DataKinds)
  IN  IF i = 0 \/ block[i].line.kind \notin JsonKinds THEN block
      ELSE [block EXCEPT ![i].lane = TRUE, ![i + 1].lane = TRUE]

(* update_stream_usage: every data line of the block whose JSON is whole.   *)
IsPayload(byte) == byte.part = 2 /\ byte.line.kind \in JsonKinds
Payloads(block) ==
  FlattenSeq([i \in DOMAIN block |-> IF IsPayload(block[i]) THEN <<block[i].line>> ELSE <<>>])
HasChoices(l) == l.kind \in {"token", "nullUsage"}
HasUsage(l)   == l.kind \in {"usage", "nullUsage"}
Answers(block) == \E i \in DOMAIN block : IsPayload(block[i]) /\ HasChoices(block[i].line)

(* A bug the checks must notice: the usage is taken once and not replaced.  *)
TokensOfFirst(n, lines) == FoldLeft(LAMBDA m, l : IF m = 0 THEN l.tokens ELSE m, n, lines)

TokensAfter(n, lines) == FoldLeft(LAMBDA m, l : IF HasUsage(l) THEN l.tokens ELSE m, n, lines)

(* One answer of poll_next, through the GuardedStream if there is one.      *)
Give(block) ==
  /\ out' = Append(out, block)
  /\ IF remote THEN UNCHANGED <<tokens, first>>
     ELSE /\ tokens' = TokensAfter(tokens, Payloads(block))
          /\ first' = IF first = 0 /\ Answers(block) THEN Len(out) + 1 ELSE first
  /\ UNCHANGED <<status, records>>

(* A bug the checks must notice: every stream records its end, also one     *)
(* that has been recorded when it was opened.                               *)
SettleTwice(how) ==
  /\ status' = how
  /\ records' = IF how = "left" THEN records
                ELSE Append(records, Record(how = "closed", tokens, first))
  /\ UNCHANGED <<out, tokens, first>>

Settle(how) ==
  /\ status' = how
  /\ records' = IF remote \/ how = "left" THEN records
                ELSE Append(records, Record(how = "closed", tokens, first))
  /\ UNCHANGED <<out, tokens, first>>

(* A bug the checks must notice: only one of the two newlines is drained.   *)
GiveEventShort ==
  /\ status = "open" /\ Boundaries # {}
  /\ LET end == Min(Boundaries)
     IN  /\ \E block \in {Annotated(SubSeq(buffer, 1, end))} : Give(block)
         /\ buffer' = SubSeq(buffer, end + 1, Len(buffer))
  /\ UNCHANGED upstream

GiveEvent ==
  /\ status = "open" /\ Boundaries # {}
  /\ LET end == Min(Boundaries) + 1
     IN  /\ \E block \in {Annotated(SubSeq(buffer, 1, end))} : Give(block)
         /\ buffer' = SubSeq(buffer, end + 1, Len(buffer))
  /\ UNCHANGED upstream

(* A bug the checks must notice: the server is asked before the buffer is.  *)
ReadChunkFirst ==
  /\ status = "open"
  /\ \E n \in DOMAIN upstream : /\ buffer' = buffer \o SubSeq(upstream, 1, n)
                               /\ upstream' = SubSeq(upstream, n + 1, Len(upstream))
  /\ UNCHANGED <<out, status, tokens, first, records>>

ReadChunk ==
  /\ status = "open" /\ Boundaries = {}
  /\ \E n \in DOMAIN upstream : /\ buffer' = buffer \o SubSeq(upstream, 1, n)
                               /\ upstream' = SubSeq(upstream, n + 1, Len(upstream))
  /\ UNCHANGED <<out, status, tokens, first, records>>

(* Poll::Ready(None) of the server.                                         *)
AtEnd == status = "open" /\ Boundaries = {} /\ upstream = <<>>

FlushTrailing == /\ AtEnd /\ buffer # <<>>
                 /\ Give(buffer)
                 /\ buffer' = <<>>
                 /\ UNCHANGED upstream

Close == AtEnd /\ buffer = <<>> /\ Settle("closed") /\ UNCHANGED <<upstream, buffer>>

(* An error of the connection, and its timeout, come between two chunks;    *)
(* what is in the buffer is not given.                                      *)
Break == /\ status = "open" /\ Boundaries = {}
         /\ Settle("broken")
         /\ UNCHANGED <<upstream, buffer>>

(* The client disconnects: the stream is dropped.                           *)
Leave == status = "open" /\ Settle("left") /\ UNCHANGED <<upstream, buffer>>

Poll == GiveEvent \/ ReadChunk \/ FlushTrailing \/ Close

Next == (Poll \/ Break \/ Leave) /\ UNCHANGED <<sent, tail, remote>>

(* The client reads on, and the server sends on or its timeout is over.     *)
Spec == Init /\ [][Next]_vars /\ WF_vars(Poll /\ UNCHANGED <<sent, tail, remote>>)

-----------------------------------------------------------------------------
(* The lane belongs into the first data line of an event, if it is JSON.    *)
LaneLine(e) == LET i == SelectInSeq(e, LAMBDA l : l.kind \in DataKinds)
               IN  IF i # 0 /\ e[i].kind \in JsonKinds THEN i ELSE 0
Promised(e) ==
  FlattenSeq([i \in DOMAIN e |->
    [k \in 1..3 |-> [LineBytes(e[i])[k] EXCEPT !.lane = (i = LaneLine(e) /\ k < 3)]]])
    \o <<Newline>>

(* "Buffers raw SSE bytes, splits them on the event terminator and re-emits *)
(* each event with a lane": however the bytes are cut into chunks.          *)
Client == INSTANCE EventStream WITH delivered <- out
ImplementsEventStream == Client!Spec

(* No event that has arrived waits for bytes of the next: the server is     *)
(* read only when the client has all that is whole.                         *)
Arrived == Len(FlattenSeq([i \in DOMAIN sent |-> EventBytes(sent[i])]) \o tail) - Len(upstream)
WholeEvents ==
  Cardinality({n \in DOMAIN sent :
    Len(FlattenSeq([i \in 1..n |-> EventBytes(sent[i])])) =< Arrived})
EventsDoNotWait == [][upstream' # upstream => Len(out) >= WholeEvents]_vars

(* A stream of the local pool leaves one record when it ends by itself,     *)
(* with the tokens of the last usage that passed, whichever chunks it came  *)
(* in; one that its client leaves has none, and one of another server has   *)
(* had its own since it was opened.                                         *)
AllLines  == FlattenSeq(sent) \o Payloads(tail)
Usages(lines)    == {i \in DOMAIN lines : HasUsage(lines[i])}
LastUsage(lines) == IF Usages(lines) = {} THEN 0 ELSE lines[Max(Usages(lines))].tokens
AnswersAt == {n \in DOMAIN out : Answers(out[n])}
Saw(ok, lines) == Record(ok, LastUsage(lines), IF AnswersAt = {} THEN 0 ELSE Min(AnswersAt))
RecordMatchesStream ==
  CASE remote             -> records = <<Record(TRUE, 0, 0)>>
    [] ~remote /\ status = "closed" -> records = <<Saw(TRUE, AllLines)>>
    [] ~remote /\ status = "broken" -> records = <<Saw(FALSE, Payloads(FlattenSeq(out)))>>
    [] OTHER              -> records = <<>>
=============================================================================
