------------------------------ MODULE AcuRelay ------------------------------
(***************************************************************************)
(* How acugw brings an upstream answer to its client, once chat has        *)
(* succeeded (acugw/src/api.rs, acugw/src/sse.rs): the parser task sends   *)
(* events through a bounded channel to aggregate_response (a plain         *)
(* request) or to the task of stream_response, which offers chunks to a    *)
(* second bounded channel, the response's body.  The handler returns the   *)
(* response, and the client can read it, when the parser has ended.        *)
(*                                                                         *)
(* One request, from that point on.  The parser reads the upstream's       *)
(* patches (PatchParser) and sends what they come to: a piece of the       *)
(* answer ("text"), something that is not relayed ("other": Ready, a       *)
(* thought, an unknown event), Finished or Hint.  The hint's effect on the *)
(* account is in AccountPool (TaskMuted, TaskCools); calls that delete or  *)
(* stop the session are left out.                                          *)
(*                                                                         *)
(* The upstream is not in the repository.  It is taken to write one        *)
(* document, a sequence of fragments and texts, in the patches the parser  *)
(* has branches for, leaving out a path or an op that has not changed.     *)
(***************************************************************************)
EXTENDS PatchParser

CONSTANTS CHAN_CAP,    \* capacity of the event channel
          BODY_CAP,    \* capacity of the body channel
          MAX_EVENTS   \* bound of the model on the upstream's events

ASSUME RelayConstants ==
    /\ CHAN_CAP \in Nat \ {0} /\ BODY_CAP \in Nat \ {0} /\ MAX_EVENTS \in Nat

Event == {"text", "other", "finished", "hint"}
Chunk == {"role", "text", "stop", "done"}

VARIABLES is_stream,
          parser,     \* "run" | "done"
          st,         \* its PatchState
          evs,        \* the events it has still to send
          emitted,    \* events the upstream has sent
          wire,       \* the path and the op it sent last
          document,   \* kinds of the fragments the upstream has written
          answers,    \* pieces of the answer among what it has written ...
          over,       \* ... before it ended the answer
          chan,       \* events on their way
          reader,     \* stream task or aggregate_response:
                      \* "start" | "run" | "closed" | "done"
          sent_any, finished,   \* their locals
          body,       \* chunks on their way
          handler,    \* "await" | "returned"
          client,     \* "there" | "gone"
          offered,    \* chunks try_send was called with
          got         \* chunks the client has read

relayVars == <<is_stream, parser, st, evs, emitted, wire, document, answers, over, chan,
          reader, sent_any, finished, body, handler, client, offered, got>>
upstream == <<emitted, wire, document, answers, over>>
flow == <<parser, st, evs, upstream, chan>>
relay == <<reader, sent_any, finished, body, offered>>
outside == <<is_stream, handler, client, got>>

-----------------------------------------------------------------------------
(* parse                                                                   *)

(* Mutation: the stream task leaves its receiver behind.                   *)
ReceiverKept == client = "gone" /\ ~is_stream

(* The task of a stream drops its receiver when it ends; the receiver of   *)
(* aggregate_response belongs to the handler, which keeps it.              *)
ReceiverGone == IF is_stream THEN reader = "done" ELSE client = "gone"

(* Every encoding of a patch: p and o may stay away if they have not       *)
(* changed since the last event, which the parser's state has kept.        *)
Encodings(p, o, v) ==
    LET full == [p |-> p, o |-> o, v |-> v]
        May == {f \in {"p", "o"} : full[f] = wire[f]}
    IN  {[f \in DOMAIN full \ omitted |-> full[f]] : omitted \in SUBSET May}

Fragment == [kind : Kind, text : {"words", "blank"}]

(* The upstream writes on: one of the encodings of a patch, what the       *)
(* document becomes, the pieces of the answer in it, and is it the end?    *)
Wrote(p, o, v, doc, pieces, ends) ==
    /\ \E json \in Encodings(p, o, v) :
          LET result == FlushEvent(st, "none", json)
          IN  st' = result.st /\ evs' = result.evs
    /\ wire' = [p |-> p, o |-> o]
    /\ document' = doc
    /\ answers' = IF over THEN answers ELSE answers + pieces
    /\ over' = (over \/ ends)

Counted(kind, text) == IF kind = "RESPONSE" /\ text = "words" THEN 1 ELSE 0

(* The first snapshot; texts before any path.                              *)
WritesSnapshot(f) ==
    /\ wire.p = <<>>
    /\ Wrote(<<>>, wire.o, [response |-> <<f>>], <<f.kind>>, Counted(f.kind, f.text), FALSE)

WritesPlain(text) ==
    /\ wire.p = <<>>
    /\ Wrote(<<>>, wire.o, [text |-> text], document, Counted("RESPONSE", text), FALSE)

WritesContent(text) ==
    Wrote(<<"response", "content">>, "APPEND", [text |-> text],
          document, Counted("RESPONSE", text), FALSE)

WritesFragment(f) ==
    Wrote(<<"response", "fragments">>, "APPEND", [items |-> <<f>>],
          Append(document, f.kind), Counted(f.kind, f.text), FALSE)

WritesMore(index, text) ==
    /\ document # <<>>
    /\ Wrote(<<"response", "fragments", index, "content">>, "APPEND", [text |-> text], document,
             Counted(document[IF index = "-1" THEN Len(document) ELSE 1], text), FALSE)

WritesStatus(text) == Wrote(<<"response", "status">>, "SET", [text |-> text], document, 0, TRUE)

WritesMetadata ==
    Wrote(<<"response", "accumulated_token_usage">>, "SET", [text |-> "words"],
          document, 0, FALSE)

(* A last fragment and the status in one event.                            *)
WritesBatch(f) ==
    Wrote(<<"response">>, "BATCH",
          [items |-> <<[p |-> <<"fragments">>, o |-> "APPEND", v |-> [items |-> <<f>>]],
                       [p |-> <<"response", "status">>, v |-> [text |-> "FINISHED"]]>>],
          Append(document, f.kind), Counted(f.kind, f.text), TRUE)

Writes ==
    \/ \E f \in Fragment : WritesSnapshot(f) \/ WritesFragment(f) \/ WritesBatch(f)
    \/ \E text \in {"words", "blank"} :
          \/ WritesPlain(text) \/ WritesContent(text)
          \/ \E index \in {"-1", "0"} : WritesMore(index, text)
    \/ \E text \in {"FINISHED", "INCOMPLETE"} : WritesStatus(text)
    \/ WritesMetadata

(* An event with a name, and one that is cut short.                        *)
Names ==
    \E event \in {"ready", "hint", "close", "unknown", "none"} :
        LET result == FlushEvent(st, event, <<>>)
        IN  /\ st' = result.st /\ evs' = result.evs
            /\ over' = (over \/ event = "hint")
            /\ UNCHANGED <<wire, document, answers>>

(* The parser takes the next event when it has sent what the last one      *)
(* came to.                                                                *)
Parse ==
    /\ parser = "run" /\ evs = <<>> /\ emitted < MAX_EVENTS
    /\ Writes \/ Names
    /\ emitted' = emitted + 1
    /\ UNCHANGED <<parser, chan, relay, outside>>

(* tx.send(ev).await waits for room; it fails when the receiver is gone.   *)
Sent ==
    /\ parser = "run" /\ evs # <<>>
    /\ \/ ReceiverGone /\ parser' = "done" /\ UNCHANGED <<chan, evs>>
       \/ /\ ~ReceiverGone /\ Len(chan) < CHAN_CAP
          /\ chan' = Append(chan, Head(evs)) /\ evs' = Tail(evs) /\ UNCHANGED parser
    /\ UNCHANGED <<st, upstream, relay, outside>>

(* End of file or a read error.                                            *)
ParseEnds ==
    /\ parser = "run" /\ evs = <<>>
    /\ parser' = "done"
    /\ UNCHANGED <<st, evs, upstream, chan, relay, outside>>

-----------------------------------------------------------------------------
(* stream_response                                                         *)

Offer(chunks) ==
    LET room == IF client = "there" THEN BODY_CAP - Len(body) ELSE 0
    IN  /\ body' = body \o SubSeq(chunks, 1, IF room < Len(chunks) THEN room ELSE Len(chunks))
        /\ offered' = offered + Len(chunks)

StreamStarts ==
    /\ is_stream /\ reader = "start"
    /\ Offer(<<"role">>)
    /\ reader' = "run"
    /\ UNCHANGED <<flow, sent_any, finished, outside>>

(* Finished leaves the loop, a hint ends the task.                         *)
Relay(e) ==
    /\ Offer(CASE e = "text" -> <<"text">>
               [] e = "other" -> <<>>
               [] e \in {"finished", "hint"} -> <<"stop", "done">>)
    /\ reader' = CASE e = "finished" -> "closed" [] e = "hint" -> "done" [] OTHER -> "run"
    /\ sent_any' = (sent_any \/ e = "text")
    /\ finished' = (finished \/ e = "finished")

StreamRelays ==
    /\ is_stream /\ reader = "run" /\ chan # <<>>
    /\ Relay(Head(chan))
    /\ chan' = Tail(chan)
    /\ UNCHANGED <<parser, st, evs, upstream, outside>>

(* recv returns None.                                                      *)
ChannelCloses ==
    /\ reader = "run" /\ chan = <<>> /\ parser = "done"
    /\ reader' = IF is_stream THEN "closed" ELSE "done"
    /\ UNCHANGED <<flow, sent_any, finished, body, offered, outside>>

(* Mutation: the fallback does not look at finished_sent.                  *)
StreamClosedTwice ==
    /\ is_stream /\ reader = "closed"
    /\ Offer(IF sent_any THEN <<"stop", "done">> ELSE <<>>)
    /\ reader' = "done"
    /\ UNCHANGED <<flow, sent_any, finished, outside>>

(* After the loop: an answer that was cut short is ended properly.         *)
StreamClosed ==
    /\ is_stream /\ reader = "closed"
    /\ Offer(IF ~finished /\ sent_any THEN <<"stop", "done">> ELSE <<>>)
    /\ reader' = "done"
    /\ UNCHANGED <<flow, sent_any, finished, outside>>

-----------------------------------------------------------------------------
(* aggregate_response: reads up to Finished or a hint.                     *)

Aggregate ==
    /\ ~is_stream /\ reader = "run" /\ chan # <<>>
    /\ LET e == Head(chan)
       IN  /\ reader' = IF e \in {"finished", "hint"} THEN "done" ELSE "run"
           /\ sent_any' = (sent_any \/ e = "text")
           /\ finished' = (finished \/ e = "finished")
    /\ chan' = Tail(chan)
    /\ UNCHANGED <<parser, st, evs, upstream, body, offered, outside>>

-----------------------------------------------------------------------------
(* The handler waits for the parser, in a plain request after the          *)
(* aggregation.                                                            *)

Returns ==
    /\ handler = "await" /\ client = "there" /\ parser = "done"
    /\ is_stream \/ reader = "done"
    /\ handler' = "returned"
    /\ UNCHANGED <<is_stream, client, got, flow, relay>>

ClientReads ==
    /\ handler = "returned" /\ client = "there" /\ body # <<>>
    /\ got' = Append(got, Head(body))
    /\ body' = Tail(body)
    /\ UNCHANGED <<is_stream, handler, client, flow, reader, sent_any, finished, offered>>

(* The receiving end of the body is dropped, and of a plain request, whose *)
(* handler is dropped, the whole exchange.                                 *)
ClientLeaves ==
    /\ client = "there"
    /\ client' = "gone" /\ body' = <<>>
    /\ reader' = IF is_stream THEN reader ELSE "done"
    /\ UNCHANGED <<is_stream, handler, got, flow, sent_any, finished, offered>>

-----------------------------------------------------------------------------
RelayInit ==
    /\ is_stream \in BOOLEAN
    /\ parser = "run" /\ st = NewState /\ evs = <<>> /\ chan = <<>>
    /\ emitted = 0 /\ wire = [p |-> <<>>, o |-> ""] /\ document = <<>>
    /\ answers = 0 /\ over = FALSE
    /\ reader = IF is_stream THEN "start" ELSE "run"
    /\ sent_any = FALSE /\ finished = FALSE
    /\ body = <<>> /\ offered = 0
    /\ handler = "await" /\ client = "there" /\ got = <<>>

Parser == Parse \/ Sent \/ ParseEnds
Reader == StreamStarts \/ StreamRelays \/ ChannelCloses \/ StreamClosed \/ Aggregate

RelayNext == Parser \/ Reader \/ Returns \/ ClientReads \/ ClientLeaves

RelaySpec == RelayInit /\ [][RelayNext]_relayVars

(* tokio runs the tasks; the upstream goes on sending or closes.           *)
RelayFairSpec ==
    /\ RelaySpec
    /\ WF_relayVars(Parser) /\ WF_relayVars(Reader)
    /\ WF_relayVars(Returns) /\ WF_relayVars(ClientReads)

-----------------------------------------------------------------------------
(* Properties.                                                             *)

RelayTypeOK ==
    /\ is_stream \in BOOLEAN /\ sent_any \in BOOLEAN /\ finished \in BOOLEAN
    /\ parser \in {"run", "done"} /\ emitted \in 0 .. MAX_EVENTS
    /\ st.fragments \in Seq(Kind) /\ evs \in Seq(Event) /\ document \in Seq(Kind)
    /\ answers \in 0 .. MAX_EVENTS /\ over \in BOOLEAN
    /\ chan \in Seq(Event) /\ Len(chan) <= CHAN_CAP
    /\ reader \in {"start", "run", "closed", "done"}
    /\ body \in Seq(Chunk) /\ Len(body) <= BODY_CAP
    /\ handler \in {"await", "returned"} /\ client \in {"there", "gone"}
    /\ offered \in Nat /\ got \in Seq(Chunk)

(* The client sees one [DONE] at most and nothing after it, whichever of   *)
(* Finished, a hint or the fallback at the end of the stream produced it.  *)
DoneOnceAndLast ==
    LET s == got \o body IN \A i \in 1 .. Len(s) - 1 : s[i] # "done"

(* The client has read all there will be.                                  *)
ReadToTheEnd ==
    is_stream /\ client = "there" /\ handler = "returned" /\ reader = "done" /\ body = <<>>

Texts(chunks) == Cardinality({i \in 1 .. Len(chunks) : chunks[i] = "text"})

(* A stream that has carried text and fits the body channel reaches the    *)
(* client whole and ends with [DONE], also when the upstream broke off     *)
(* (the fallback of stream_response): it holds as many pieces as the       *)
(* upstream has written of its answer before it ended, whichever patches   *)
(* it wrote them in, and none of its thoughts.                             *)
ShortStreamsComplete ==
    (ReadToTheEnd /\ offered <= BODY_CAP) =>
        /\ Len(got) = offered
        /\ Texts(got) > 0 => got[Len(got)] = "done"
        /\ Texts(got) = answers

(* The parser of a plain request waits for room in a channel that nobody   *)
(* reads any more, and the handler for the parser.                         *)
Jammed == ~is_stream /\ reader = "done" /\ evs # <<>> /\ Len(chan) = CHAN_CAP

(* The handler gets its parser's end and returns, unless the client leaves *)
(* or, in a plain request, more events than the channel holds follow the   *)
(* one that ended the aggregation.                                         *)
HandlerReturns ==
    (handler = "await") ~> (handler = "returned" \/ client = "gone" \/ Jammed)
=============================================================================
