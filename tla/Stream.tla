-------------------------------- MODULE Stream --------------------------------
(* One request of the agent to its provider: the HTTP client's reads, framing   *)
(* by framing, the SSE parser, and the merger that makes a message of the       *)
(* events; or the whole body when streaming is off.  The service sends at its   *)
(* own pace, in chunks of its choice, and the connection may break at any time; *)
(* the user may press Ctrl-C at any time.  Its timeout_ms is never read.      *)
EXTENDS Providers

CONSTANTS
  Requests,       \* the cases: [provider, answer, status, framing, tls, streaming,
                  \* unasked]: unasked when the service streams although it was not to
  MaxCalls,       \* the slots of the merger (16)
  BlockSize,      \* how much a read with a Content-Length asks for at once (4096)
  ChunkSizes,     \* bound: the sizes of chunks the service uses
  Window,         \* bound: what may be under way
  MaxInterrupts   \* bound: how often the user presses Ctrl-C

VARIABLES
  req,      \* the case
  stage, sent, left, open,   \* the service: what comes next, body sent, chunk left, not broken
  wire,     \* what was sent and not yet read
  phase,    \* where the client is
  framing,  \* what the headers said: "chunked", "length", or "close" for neither
  need,     \* the size of the chunk to read, or the length that remains
  line, data,    \* sse_parser_t: the unfinished line and the data of the event
  rx, events,    \* stream_rx_t, and the events it took in
  body,          \* the body of a request that does not stream
  flag, woken, presses,   \* interrupt flag, the read it ended, presses so far
  outcome,  \* "none", "failed", "interrupted" or "accepted"
  message   \* the accepted message

service == <<stage, sent, left, open>>
parser == <<line, data, rx, events, body>>
user == <<flag, woken, presses>>
result == <<outcome, message>>
vars == <<req, service, wire, phase, framing, need, parser, user, result>>

-----------------------------------------------------------------------------
(* The service (external)                                                      *)

\* The pieces of a body: two for the data line of each event, an empty line
\* behind it, and a comment line to keep the connection alive in front.
NL == [kind |-> "newline"]
Half(e, h) == [kind |-> "half", event |-> e, half |-> h]
Comment == [kind |-> "comment"]
EventsOf == [r \in Requests |-> Events(r.provider, r.answer)]
PiecesOfEvent(e) == <<Half(e, 1), Half(e, 2), NL, NL>>
PiecesOf ==
  [r \in Requests |->
     IF ~r.streaming /\ ~r.unasked THEN <<Half(0, 1), Half(0, 2)>>
     ELSE (IF r.unasked THEN <<>> ELSE <<Comment, NL>>)
          \o [i \in 1 .. 4 * Len(EventsOf[r]) |-> PiecesOfEvent((i + 3) \div 4)[1 + ((i - 1) % 4)]]]
Pieces == PiecesOf[req]
AllSent == sent = Len(Pieces)

Push(tokens) == Len(wire) + Len(tokens) <= Window /\ wire' = wire \o tokens

ServeHead ==
  /\ stage \in {"status", "header", "blank"}
  /\ Push(<<[kind |-> stage]>>)
  /\ stage' = (CASE stage = "status" -> "header" [] stage = "header" -> "blank" [] OTHER -> "body")
  /\ UNCHANGED <<sent, left, open>>

\* A chunk is announced, then sent; the pieces of a body without chunks just come.
ServeBody ==
  /\ stage = "body" /\ ~AllSent
  /\ IF req.framing = "chunked" /\ left = 0
       THEN \E n \in ChunkSizes :
              LET size == IF n <= Len(Pieces) - sent THEN n ELSE Len(Pieces) - sent
              IN  Push(<<[kind |-> "size", size |-> size]>>) /\ left' = size /\ sent' = sent
       ELSE /\ Push(<<Pieces[sent + 1]>> \o IF left = 1 THEN <<NL>> ELSE <<>>)
            /\ left' = (IF left > 0 THEN left - 1 ELSE 0) /\ sent' = sent + 1
  /\ UNCHANGED <<stage, open>>

ServeEnd ==
  /\ stage = "body" /\ AllSent
  /\ Push(IF req.framing = "chunked" THEN <<[kind |-> "size", size |-> 0], NL>> ELSE <<>>)
  /\ stage' = "over" /\ open' = FALSE
  /\ UNCHANGED <<sent, left>>

\* The connection breaks; what is under way still arrives.
Break == open /\ open' = FALSE /\ stage' = "broken" /\ UNCHANGED <<sent, left, wire>>

Serve ==
  /\ open /\ phase # "connect" /\ phase # "over"
  /\ ServeHead \/ ServeBody \/ ServeEnd \/ Break
  /\ UNCHANGED <<req, phase, framing, need, parser, user, result>>

-----------------------------------------------------------------------------
(* SSE parser                                                                  *)

\* Slip: the data of a dispatched event stays in the accumulator.
dispatch_event_Slip(s) ==
  IF s.data = <<>> THEN s
  ELSE [s EXCEPT !.events = Append(@, s.data[1].event),
                 !.rx = Receive(@, req.provider, EventsOf[req][s.data[1].event], MaxCalls)]

\* An empty line hands the data collected so far to the merger.
dispatch_event(s) ==
  IF s.data = <<>> THEN s
  ELSE LET e == s.data[1].event
       IN  [s EXCEPT !.data = <<>>, !.events = Append(@, e),
                     !.rx = Receive(@, req.provider, EventsOf[req][e], MaxCalls)]

process_line(s) ==
  IF s.line = <<>> THEN dispatch_event(s)
  ELSE IF Head(s.line).kind = "comment" THEN [s EXCEPT !.line = <<>>]
  ELSE [s EXCEPT !.data = @ \o s.line, !.line = <<>>]

sse_parser_feed(s, piece) ==
  IF piece = NL THEN process_line(s) ELSE [s EXCEPT !.line = Append(@, piece)]

\* What the read data does: into the parser, or to the end of the body.
Deliver(pieces) ==
  IF req.streaming
    THEN LET s == FoldLeft(sse_parser_feed,
                           [line |-> line, data |-> data, rx |-> rx, events |-> events], pieces)
         IN  /\ line' = s.line /\ data' = s.data /\ rx' = s.rx /\ events' = s.events
             /\ body' = body
    ELSE body' = body \o pieces /\ UNCHANGED <<line, data, rx, events>>

-----------------------------------------------------------------------------
(* The client                                                                  *)

Init ==
  /\ req \in Requests
  /\ stage = "status" /\ sent = 0 /\ left = 0 /\ open = TRUE /\ wire = <<>>
  /\ phase = "connect" /\ framing = "close" /\ need = 0
  /\ line = <<>> /\ data = <<>> /\ rx = NothingYet /\ events = <<>> /\ body = <<>>
  /\ flag = FALSE /\ woken = FALSE /\ presses = 0
  /\ outcome = "none" /\ message = <<>>

\* A read gets n tokens; or fails, on a broken connection or on a signal.
Has(n) == Len(wire) >= n
Fails(n) == ~Has(n) /\ (woken \/ ~open)
Take(n) == wire' = SubSeq(wire, n + 1, Len(wire))

To(p) == phase' = p
Over(how, m) == phase' = "over" /\ outcome' = how /\ message' = m

\* The flag is looked at between reads only, and only by a request that streams.
Cancelled == req.streaming /\ flag

tls_connect ==
  /\ phase = "connect"
  /\ \/ Over("failed", <<>>)
     \/ flag /\ Over("interrupted", <<>>)
     \/ ~flag /\ To("status") /\ UNCHANGED result
  /\ UNCHANGED <<wire, framing, need, parser>>

ReadStatus ==
  /\ phase = "status"
  /\ \/ Has(1) /\ Take(1) /\ To("headers") /\ UNCHANGED result
     \/ Fails(1) /\ wire' = wire /\ Over("failed", <<>>)
  /\ UNCHANGED <<framing, need, parser>>

BodyPhase(f) == CASE f = "chunked" -> "size" [] f = "length" -> "block" [] OTHER -> "rest"

\* Headers that end early leave the framing at what was seen of them.
ReadHeader ==
  /\ phase = "headers"
  /\ \/ /\ ~Cancelled /\ Has(1) /\ Take(1)
        /\ IF Head(wire).kind = "header"
             THEN framing' = req.framing /\ need' = Len(Pieces) /\ To("headers")
             ELSE To(BodyPhase(framing)) /\ UNCHANGED <<framing, need>>
     \/ (Cancelled \/ Fails(1)) /\ To(BodyPhase(framing)) /\ UNCHANGED <<wire, framing, need>>
  /\ UNCHANGED <<parser, result>>

\* A line that is no chunk size counts as the last chunk.
ReadSize ==
  /\ phase = "size"
  /\ \/ /\ ~Cancelled /\ Has(1) /\ Take(1)
        /\ LET n == IF Head(wire).kind = "size" THEN Head(wire).size ELSE 0
           IN  need' = n /\ To(IF n = 0 THEN "trailer" ELSE "chunk")
     \/ (Cancelled \/ Fails(1)) /\ To("trailer") /\ need' = 0 /\ UNCHANGED wire
  /\ UNCHANGED <<framing, parser, result>>

\* A chunk is delivered whole; one that is cut is dropped.
ReadChunk ==
  /\ phase = "chunk"
  /\ \/ Has(need) /\ Take(need) /\ Deliver(SubSeq(wire, 1, need))
     \/ Fails(need) /\ wire' = <<>> /\ UNCHANGED parser
  /\ To("chunk end")
  /\ UNCHANGED <<framing, need, result>>

ReadChunkEnd ==
  /\ phase = "chunk end"
  /\ (Has(1) /\ Take(1)) \/ (Fails(1) /\ wire' = wire)
  /\ To("size")
  /\ UNCHANGED <<framing, need, parser, result>>

\* Slip: the end of the connection does not end the trailer.
ReadTrailer_Slip ==
  /\ phase = "trailer"
  /\ Has(1) /\ Take(1) /\ To(IF wire[1] = NL THEN "close" ELSE "trailer")
  /\ UNCHANGED <<framing, need, parser, result>>

\* Lines up to an empty one are discarded, also when the body was left half-way:
\* the loop does not look at the flag.  need is 1 in the middle of a line.
ReadTrailer ==
  /\ phase = "trailer"
  /\ \/ /\ Has(1) /\ Take(1)
        /\ IF wire[1] = NL
             THEN need' = 0 /\ To(IF need = 1 THEN "trailer" ELSE "close")
             ELSE need' = (IF wire[1].kind \in {"half", "comment"} THEN 1 ELSE 0) /\ To("trailer")
     \/ Fails(1) /\ To("close") /\ UNCHANGED <<wire, need>>
  /\ UNCHANGED <<framing, parser, result>>

\* Content-Length: blocks while streaming, else everything; a cut block is lost.
ReadBlock ==
  /\ phase = "block"
  /\ LET n == IF req.streaming /\ BlockSize < need THEN BlockSize ELSE need
     IN  \/ Cancelled /\ To("close") /\ UNCHANGED <<wire, need, parser>>
         \/ /\ ~Cancelled /\ Has(n) /\ Take(n) /\ Deliver(SubSeq(wire, 1, n))
            /\ need' = need - n /\ To(IF need = n THEN "close" ELSE "block")
         \/ ~Cancelled /\ Fails(n) /\ To("close") /\ wire' = <<>> /\ UNCHANGED <<need, parser>>
  /\ UNCHANGED <<framing, result>>

\* No length: until the end of the connection, with SSL_read even on plain http.
ReadRest ==
  /\ phase = "rest"
  /\ \/ /\ ~Cancelled /\ req.tls /\ Has(1)
        /\ Take(Len(wire)) /\ Deliver(wire) /\ To("rest")
     \/ /\ Cancelled \/ ~req.tls \/ Fails(1)
        /\ To("close") /\ UNCHANGED <<wire, parser>>
  /\ UNCHANGED <<framing, need, result>>

\* The events of which the body has the whole data line; a line that was cut does
\* not parse.
Parsed ==
  LET whole(piece) == piece.kind = "half" /\ piece.half = 2
      seen[n \in 0 .. Len(body)] ==
        IF n = 0 THEN <<>>
        ELSE IF whole(body[n]) THEN Append(seen[n - 1], EventsOf[req][body[n].event])
        ELSE seen[n - 1]
  IN  seen[Len(body)]

\* What a request that does not stream makes of its body, <<>> for nothing.
Answered ==
  IF req.unasked
    THEN IF body = <<>> THEN <<>>
         ELSE <<agent_parse_response_body(req.provider, Parsed, MaxCalls)>>
    ELSE parse_response(req.provider, req.answer, body # Pieces)

\* Only the status decides whether a stream is accepted, not how it ended; the
\* unfinished event at its end is dropped.  A whole body has to parse.
Verdict ==
  /\ phase = "close"
  /\ IF flag THEN Over("interrupted", <<>>)
     ELSE IF req.status # 200 THEN Over("failed", <<>>)
     ELSE IF req.streaming THEN Over("accepted", <<Collected(rx)>>)
     ELSE IF Answered = <<>> THEN Over("failed", <<>>)
     ELSE Over("accepted", Answered)
  /\ UNCHANGED <<wire, framing, need, parser>>

Client ==
  /\ \/ tls_connect \/ ReadStatus \/ ReadHeader \/ ReadSize \/ ReadChunk \/ ReadChunkEnd
     \/ ReadTrailer \/ ReadBlock \/ ReadRest \/ Verdict
  /\ woken' = FALSE
  /\ UNCHANGED <<req, service, flag, presses>>

\* Ctrl-C sets the flag; it ends a read that is waiting just then.
Press ==
  /\ presses < MaxInterrupts /\ phase # "over"
  /\ flag' = TRUE /\ presses' = presses + 1
  /\ woken' = (phase \notin {"connect", "close"} /\ wire = <<>>)
  /\ UNCHANGED <<req, service, wire, phase, framing, need, parser, result>>

Next == Serve \/ Client \/ Press

Spec == Init /\ [][Next]_vars
FairSpec == Spec /\ WF_vars(Client) /\ WF_vars(Serve)

-----------------------------------------------------------------------------
(* The reference                                                               *)

\* The message an answer amounts to, by the answer itself: all of it, with the
\* calls the merger has room for when it streams.  A service that streams
\* unasked loses its reasoning and its usage besides.
Room(calls) == SubSeq(calls, 1, IF Len(calls) < MaxCalls THEN Len(calls) ELSE MaxCalls)
Expected(r) ==
  LET a == r.answer
  IN  IF r.streaming THEN Message(a.content, a.reasoning, Room(a.calls), a.usage)
      ELSE IF r.unasked THEN Message(a.content, <<>>, Room(a.calls), NoUsage)
      ELSE Message(a.content, a.reasoning, a.calls, a.usage)

\* The cases are answers as services give them: every call has an id, and its
\* arguments are not cut between a } and a {, where the merger takes the second
\* piece for a repetition of the first.
Seamless(args) == \A i \in 1 .. Len(args) - 1 : ~(args[i] = "}" /\ args[i + 1] = "{")
Calling == {c \in [id : STRING \ {""}, name : STRING, args : Seq(STRING)] : Seamless(c.args)}
ASSUME RequestAssumption ==
  /\ \A r \in Requests :
       /\ r.streaming \in BOOLEAN /\ r.unasked \in BOOLEAN /\ (r.unasked => ~r.streaming)
       /\ r.answer \in [kind : {"answer", "error", "empty"}, content : Seq(STRING),
                        reasoning : Seq(STRING), calls : Seq(Calling),
                        usage : [prompt : Nat, completion : Nat]]
       /\ r.answer.kind = "empty" =>
            /\ r.answer.content = <<>> /\ r.answer.reasoning = <<>> /\ r.answer.calls = <<>>
            /\ r.answer.usage = NoUsage
  /\ MaxCalls \in Nat /\ ChunkSizes \subseteq Nat \ {0} /\ BlockSize \in Nat \ {0}

-----------------------------------------------------------------------------
(* Properties                                                                  *)

\* A message accepted from a connection that did not break is the whole answer,
\* however the service framed it and cut it into chunks, and whichever protocol
\* it speaks; it is the message the same answer gives without streaming, but for
\* the calls beyond MaxCalls.
StreamedEqualsWhole ==
  (outcome = "accepted" /\ stage = "over" /\ req.tls) => message = <<Expected(req)>>

\* From a connection that broke a stream is still accepted (the code cannot tell),
\* but then the message is made of whole events from the start of the answer, in
\* order and each once; a body that is no stream is accepted entire or not at all.
CutIsPrefix ==
  outcome = "accepted" =>
    CASE req.streaming -> events = [i \in 1 .. Len(events) |-> i]
      [] req.unasked -> \E n \in 0 .. Len(EventsOf[req]) : Parsed = SubSeq(EventsOf[req], 1, n)
      [] OTHER -> message = <<Expected(req)>>

\* The request ends when the service goes on sending or closes; Ctrl-C alone does
\* not end it: behind an interrupted chunk the client waits for an empty line.
StreamEnds == <>(phase = "over")
=============================================================================
