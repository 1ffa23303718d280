--------------------------- MODULE RemoteChannel ---------------------------
(***************************************************************************)
(* The message channel between the editor ("client") and the headless      *)
(* development server ("server"): ChannelClient of                         *)
(* crates/remote/src/remote_client.rs at both ends, the byte pump of       *)
(* crates/remote/src/transport.rs and the accept loop of                   *)
(* crates/remote_server/src/server.rs between them.                        *)
(*                                                                         *)
(* Both ends number their envelopes, keep the ones that are not yet        *)
(* acknowledged in `buffer`, piggyback `max_received` as the ack of every  *)
(* message they send, and after a reconnection exchange                    *)
(* FlushBufferedMessages / Ack and send the whole buffer again.            *)
(*                                                                         *)
(* The ends differ in one respect.  The client gets new queues on every    *)
(* connection (whatever was in the old ones is gone), the server keeps one *)
(* outgoing queue for its whole life and only the bytes already written to *)
(* a dead socket are gone.                                                 *)
(***************************************************************************)
EXTENDS Integers, Sequences, SequencesExt, FiniteSets, Bags

CONSTANTS
    MaxSends,        \* how many messages of its own an end sends (a bound)
    MaxRequests,     \* how many requests of its own an end sends (a bound)
    MaxStreams,      \* how many streams the client asks for (a bound)
    StreamLength,    \* how many items a stream has (a bound)
    MaxDisconnects,  \* how many times the connection drops (a bound)
    Threads,         \* background threads that send through the channel
    ThreadEnd        \* the end a background thread belongs to

Ends == {"client", "server"}
Peer(e) == IF e = "client" THEN "server" ELSE "client"

ASSUME BoundsAssumption ==
    /\ MaxSends \in [Ends -> Nat]
    /\ MaxRequests \in [Ends -> Nat]
    /\ MaxDisconnects \in Nat
    /\ MaxStreams \in Nat
    /\ StreamLength \in Nat
    /\ ThreadEnd \in [Threads -> Ends]

VARIABLES
    phase,        \* where the client's connection stands
    link,         \* link[e]: envelopes on their way to the reader of e
    outgoing,     \* the server's outgoing queue, which outlives connections
    started,      \* started[e]: the reader of e has announced itself
    nextId,       \* next_message_id
    buffer,       \* sent and not yet acknowledged
    maxReceived,  \* max_received
    responses,    \* response_channels: <<id, kind>> of each open request
    streams,      \* stream_response_channels of the client: ids of open streams
    handlers,     \* bag of the peer's requests whose handlers are running
    sending,      \* sending[t]: how far thread t is in send_dynamic
    disconnects,  \* number of connections lost so far
    sent,         \* history: ids that were ever put in the buffer
    received,     \* history: the peer's ids that this reader observed
    background,   \* history: ids that background threads sent
    own,          \* history: how many messages and requests were started
    taken,        \* history: <<id, item>> handed to the consumer of a stream
    ended,        \* history: streams whose consumer was told that they end
    misanswered   \* history: requests completed by somebody else's Ack

netVars == <<phase, link, outgoing, started, disconnects>>
endVars == <<nextId, buffer, maxReceived, responses, streams, handlers>>
histVars == <<sent, received, background, own, taken, ended, misanswered>>
vars == <<netVars, endVars, sending, histVars>>

-----------------------------------------------------------------------------
(* Envelopes.  The kinds tell apart what the reader loop tells apart: a     *)
(* message or a request goes to a handler, a response or a stream's item or *)
(* end to the request it answers, the other three are the channel's own.    *)

NoId == -1      \* None, for ack_id and responding_to
Idle == "idle"  \* a thread that is not inside send_dynamic

Envelope(id, kind, ack, to, item) ==
    [id |-> id, kind |-> kind, ack |-> ack, to |-> to, item |-> item]

Control(id, kind, ack, to) == Envelope(id, kind, ack, to, 0)

Handled == {"msg", "req", "streamreq"}
Answers == {"resp", "item", "end"}
Buffered == Handled \union Answers   \* what goes through send_buffered

Ids(s) == {s[i].id : i \in DOMAIN s}
BufferedIds(s) == {s[i].id : i \in {j \in DOMAIN s : s[j].kind \in Buffered}}

(* Handing envelopes to outgoing_tx.  The server's go to the queue its      *)
(* accept loop drains; the client's travel until the connection drops, and  *)
(* go nowhere while there is none: the error of the send is ignored.        *)
Transmit(e, links, envelopes) ==
    IF e = "server"
    THEN /\ outgoing' = outgoing \o envelopes
         /\ link' = links
    ELSE /\ link' = [links EXCEPT !["server"] =
                        IF phase = "lost" THEN @ ELSE @ \o envelopes]
         /\ UNCHANGED outgoing

(* Mutant: the ack removes one message too many.                            *)
AcknowledgedOffByOne(e, envelope) ==
    SelectSeq(buffer[e], LAMBDA m : m.id > envelope.ack + 1)

(* The reader's first act: the front of the buffer up to the ack is dropped. *)
Acknowledged(e, envelope) ==
    IF envelope.ack = NoId
    THEN buffer[e]
    ELSE LET keep == {i \in DOMAIN buffer[e] : buffer[e][i].id > envelope.ack}
         IN  IF keep = {} THEN <<>>
             ELSE SubSeq(buffer[e],
                         CHOOSE i \in keep : \A j \in keep : i <= j,
                         Len(buffer[e]))

-----------------------------------------------------------------------------
Init ==
    /\ phase = "connecting"
    /\ link = [e \in Ends |-> <<>>]
    /\ outgoing = <<>>
    /\ started = [e \in Ends |-> FALSE]
    /\ nextId = [e \in Ends |-> 0]
    /\ buffer = [e \in Ends |-> <<>>]
    /\ maxReceived = [e \in Ends |-> 0]
    /\ responses = [e \in Ends |-> {}]
    /\ streams = {}
    /\ handlers = [e \in Ends |-> EmptyBag]
    /\ sending = [t \in Threads |-> [at |-> Idle, id |-> NoId, ack |-> NoId]]
    /\ disconnects = 0
    /\ sent = [e \in Ends |-> {}]
    /\ received = [e \in Ends |-> {}]
    /\ background = {}
    /\ own = [e \in Ends |-> [msg |-> 0, req |-> 0, streamreq |-> 0]]
    /\ taken = {}
    /\ ended = {}
    /\ misanswered = {}

(* ChannelClient::reconnect and the first half of resync have no await      *)
(* between them: nothing else runs on the client's foreground thread.       *)
ForegroundFree(e) == e = "client" => phase /= "flushing"

(* start_handling_messages: a reader that starts says RemoteStarted, an     *)
(* envelope with id 0 whatever ids are in use, unbuffered and without ack.  *)
StartReader(e) ==
    /\ ~started[e]
    /\ ForegroundFree(e)
    /\ started' = [started EXCEPT ![e] = TRUE]
    /\ Transmit(e, link, <<Control(0, "started", NoId, NoId)>>)
    /\ UNCHANGED <<phase, disconnects, endVars, sending, histVars>>

(* The client's application has no channel before RemoteClient::new has     *)
(* returned; the server's has it from the start, and answers or asks only   *)
(* what a client started.                                                   *)
MaySend(e, kind) ==
    IF e = "client" THEN phase \notin {"connecting", "started", "pinging"}
    ELSE kind = "msg" \/ received["server"] /= {}

(* send_dynamic / request_dynamic / request_stream_dynamic on the foreground *)
(* thread, which runs the reader too: no await, so one step for the id, the  *)
(* channel of the answer, the ack, the buffer and the queue.  `to` is the    *)
(* request that a response, or an item or the end of a stream, answers.      *)
SendBuffered(e, kind, to, item) ==
    LET envelope == Envelope(nextId[e], kind, maxReceived[e], to, item) IN
    /\ nextId' = [nextId EXCEPT ![e] = @ + 1]
    /\ buffer' = [buffer EXCEPT ![e] = Append(@, envelope)]
    /\ responses' = IF kind = "req"
                    THEN [responses EXCEPT ![e] = @ \union {<<nextId[e], kind>>}]
                    ELSE responses
    /\ streams' = IF kind = "streamreq" THEN streams \union {nextId[e]} ELSE streams
    /\ sent' = [sent EXCEPT ![e] = @ \union {nextId[e]}]
    /\ Transmit(e, link, <<envelope>>)

Count(e, kind) == own' = [own EXCEPT ![e][kind] = @ + 1]

Bound(e, kind) ==
    CASE kind = "msg" -> MaxSends[e]
      [] kind = "req" -> MaxRequests[e]
      [] kind = "streamreq" -> IF e = "client" THEN MaxStreams ELSE 0

(* send, request and request_stream.                                        *)
Send(e, kind) ==
    /\ own[e][kind] < Bound(e, kind)
    /\ MaySend(e, kind)
    /\ ForegroundFree(e)
    /\ SendBuffered(e, kind, NoId, 0)
    /\ Count(e, kind)
    /\ UNCHANGED <<phase, started, maxReceived, handlers, sending, disconnects,
                   received, background, taken, ended, misanswered>>

(* A handler of a request answers once (the error "no handler registered"   *)
(* is an answer too); a handler of a stream sends one item after the other  *)
(* and then the end.                                                        *)
Respond(e) ==
    \E h \in BagToSet(handlers[e]) :
        LET answer == CASE h.kind = "req" -> "resp"
                        [] h.kind = "streamreq" /\ h.done < StreamLength -> "item"
                        [] OTHER -> "end"
            rest == IF answer = "item" THEN SetToBag({[h EXCEPT !.done = @ + 1]})
                    ELSE EmptyBag
        IN  /\ ForegroundFree(e)
            /\ SendBuffered(e, answer, h.id, IF answer = "item" THEN h.done + 1 ELSE 0)
            /\ handlers' = [handlers EXCEPT ![e] = (@ (-) SetToBag({h})) (+) rest]
            /\ UNCHANGED <<phase, started, maxReceived, sending, disconnects,
                           received, background, own, taken, ended, misanswered>>

(* The same send_dynamic on a background thread, where every atomic and     *)
(* every lock it takes is a step of its own: fetch_add, ...                 *)
AllocateId(t) ==
    LET e == ThreadEnd[t] IN
    /\ sending[t].at = Idle
    /\ own[e].msg < MaxSends[e]
    /\ MaySend(e, "msg")
    /\ sending' = [sending EXCEPT ![t] = [at |-> "numbered", id |-> nextId[e],
                                          ack |-> NoId]]
    /\ nextId' = [nextId EXCEPT ![e] = @ + 1]
    /\ Count(e, "msg")
    /\ background' = background \union {<<e, nextId[e]>>}
    /\ UNCHANGED <<netVars, buffer, maxReceived, responses, streams, handlers,
                   sent, received, taken, ended, misanswered>>

(* ... the load of max_received and the push to the buffer, ...             *)
PushBuffer(t) ==
    LET e == ThreadEnd[t] IN
    /\ sending[t].at = "numbered"
    /\ sending' = [sending EXCEPT ![t].at = "buffered", ![t].ack = maxReceived[e]]
    /\ buffer' = [buffer EXCEPT ![e] =
            Append(@, Control(sending[t].id, "msg", maxReceived[e], NoId))]
    /\ sent' = [sent EXCEPT ![e] = @ \union {sending[t].id}]
    /\ UNCHANGED <<netVars, nextId, maxReceived, responses, streams, handlers,
                   received, background, own, taken, ended, misanswered>>

(* ... and the send to the queue that outgoing_tx is by then.               *)
PushQueue(t) ==
    LET e == ThreadEnd[t] IN
    /\ sending[t].at = "buffered"
    /\ Transmit(e, link, <<Control(sending[t].id, "msg", sending[t].ack, NoId)>>)
    /\ sending' = [sending EXCEPT ![t] = [at |-> Idle, id |-> NoId, ack |-> NoId]]
    /\ UNCHANGED <<phase, started, disconnects, endVars, histVars>>

(* The server's accept loop writes the next queued envelope to the socket.  *)
(* It does so whenever a connection stands on its side.                     *)
ServerWrite ==
    /\ phase /= "lost"
    /\ outgoing /= <<>>
    /\ link' = [link EXCEPT !["client"] = Append(@, Head(outgoing))]
    /\ outgoing' = Tail(outgoing)
    /\ UNCHANGED <<phase, started, disconnects, endVars, sending, histVars>>

-----------------------------------------------------------------------------
(* The reader loop of start_handling_messages, one action per way through. *)

(* While resync has its answer but has not run yet the reader waits on the  *)
(* barrier handed over with that answer.                                    *)
CanRead(e) ==
    /\ link[e] /= <<>>
    /\ started[e]
    /\ e = "client" => phase /= "flushed"

Rest(e) == [link EXCEPT ![e] = Tail(@)]

(* Mutant: the id of an Ack is one ahead of the counter.                    *)
AckOfAhead(e, envelope) == Control(nextId[e] + 1, "ack", NoId, envelope.id)

(* An Ack has an id of its own and no ack, and is not buffered.             *)
AckOf(e, envelope) == Control(nextId[e], "ack", NoId, envelope.id)

(* Mutant: the flush is acknowledged, nothing is sent again.                *)
ReceiveFlushNoResend(e) ==
    /\ CanRead(e)
    /\ LET incoming == Head(link[e])
       IN  /\ incoming.kind = "flush"
           /\ buffer' = [buffer EXCEPT ![e] = Acknowledged(e, incoming)]
           /\ Transmit(e, Rest(e), <<AckOf(e, incoming)>>)
    /\ nextId' = [nextId EXCEPT ![e] = @ + 1]
    /\ UNCHANGED <<phase, started, disconnects, maxReceived, responses, streams,
                   handlers, sending, histVars>>

(* FlushBufferedMessages: everything unacknowledged again, then an Ack.     *)
(* max_received stays.                                                      *)
ReceiveFlush(e) ==
    /\ CanRead(e)
    /\ LET incoming == Head(link[e])
           kept == Acknowledged(e, incoming)
       IN  /\ incoming.kind = "flush"
           /\ buffer' = [buffer EXCEPT ![e] = kept]
           /\ Transmit(e, Rest(e), Append(kept, AckOf(e, incoming)))
    /\ nextId' = [nextId EXCEPT ![e] = @ + 1]
    /\ UNCHANGED <<phase, started, disconnects, maxReceived, responses, streams,
                   handlers, sending, histVars>>

(* Mutant: the Ack of RemoteStarted keeps the id 0 it was built with.       *)
ReceiveStartedIdZero(e) ==
    /\ CanRead(e)
    /\ LET incoming == Head(link[e])
       IN  /\ incoming.kind = "started"
           /\ buffer' = [buffer EXCEPT ![e] = Acknowledged(e, incoming)]
           /\ Transmit(e, Rest(e), <<Control(0, "ack", NoId, incoming.id)>>)
    /\ phase' = IF e = "client" /\ phase = "connecting" THEN "started" ELSE phase
    /\ UNCHANGED <<started, disconnects, nextId, maxReceived, responses, streams,
                   handlers, sending, histVars>>

(* RemoteStarted: wake RemoteClient::new, which sends its first ping, and   *)
(* answer with an Ack.  max_received stays.  The ping is sent by the task   *)
(* the signal wakes: see Ping.                                              *)
ReceiveStarted(e) ==
    /\ CanRead(e)
    /\ LET incoming == Head(link[e])
       IN  /\ incoming.kind = "started"
           /\ buffer' = [buffer EXCEPT ![e] = Acknowledged(e, incoming)]
           /\ Transmit(e, Rest(e), <<AckOf(e, incoming)>>)
    /\ nextId' = [nextId EXCEPT ![e] = @ + 1]
    /\ phase' = IF e = "client" /\ phase = "connecting" THEN "started" ELSE phase
    /\ UNCHANGED <<started, disconnects, maxReceived, responses, streams, handlers,
                   sending, histVars>>

(* Mutant: max_received counts what arrives, duplicates included.            *)
ObserveCounting(e, incoming) ==
    /\ buffer' = [buffer EXCEPT ![e] = Acknowledged(e, incoming)]
    /\ maxReceived' = [maxReceived EXCEPT ![e] = @ + 1]
    /\ received' = [received EXCEPT ![e] = @ \union {incoming.id}]

(* Every message but the channel's own is counted as received.               *)
Observe(e, incoming) ==
    /\ buffer' = [buffer EXCEPT ![e] = Acknowledged(e, incoming)]
    /\ maxReceived' = [maxReceived EXCEPT ![e] = incoming.id]
    /\ received' = [received EXCEPT ![e] = @ \union {incoming.id}]

(* A message or a request goes to its handler; a request's answers later.    *)
(* Nothing recognises a request that was sent again: it gets a handler again. *)
ReceiveMessage(e) ==
    /\ CanRead(e)
    /\ LET incoming == Head(link[e])
           handler == [id |-> incoming.id, kind |-> incoming.kind, done |-> 0]
       IN  /\ incoming.kind \in Handled
           /\ Observe(e, incoming)
           /\ handlers' = IF incoming.kind = "msg" THEN handlers
                          ELSE [handlers EXCEPT ![e] = @ (+) SetToBag({handler})]
    /\ link' = Rest(e)
    /\ UNCHANGED <<phase, outgoing, started, disconnects, nextId, responses,
                   streams, sending, sent, background, own, taken, ended,
                   misanswered>>

(* Flushes whose resync timed out stay in response_channels; the one that   *)
(* is waited for is the last.                                               *)
CurrentFlush ==
    CHOOSE id \in 0 .. nextId["client"] :
        /\ <<id, "flush">> \in responses["client"]
        /\ \A r \in responses["client"] : r[2] = "flush" => r[1] <= id

(* A response or an Ack completes the open request with that id, if there   *)
(* is one.  Completing the first ping makes the client connected, and       *)
(* completing a flush lets resync go on.                                    *)
ReceiveResponse(e) ==
    /\ CanRead(e)
    /\ LET incoming == Head(link[e])
           open == {r \in responses[e] : r[1] = incoming.to}
       IN  /\ incoming.kind \in {"resp", "ack"}
           /\ Observe(e, incoming)
           /\ responses' = [responses EXCEPT ![e] = @ \ open]
           /\ misanswered' = misanswered \union
                  {<<e, r[1]>> : r \in {q \in open : (q[2] = "flush") /= (incoming.kind = "ack")}}
           /\ phase' = CASE e = "client" /\ phase = "pinging" /\ open /= {} -> "connected"
                         [] e = "client" /\ phase = "resyncing"
                              /\ <<CurrentFlush, "flush">> \in open -> "flushed"
                         [] OTHER -> phase
    /\ link' = Rest(e)
    /\ UNCHANGED <<outgoing, started, disconnects, nextId, streams, handlers,
                   sending, sent, background, own, taken, ended>>

(* An item goes to the consumer of its stream and the reader waits until it *)
(* was taken; the end removes the channel, which is how the consumer sees   *)
(* it.  Both are dropped when no stream with that id is open.               *)
ReceiveStream(e) ==
    /\ CanRead(e)
    /\ LET incoming == Head(link[e])
           open == e = "client" /\ incoming.to \in streams
       IN  /\ incoming.kind \in {"item", "end"}
           /\ Observe(e, incoming)
           /\ streams' = IF incoming.kind = "end" /\ open
                         THEN streams \ {incoming.to} ELSE streams
           /\ taken' = IF incoming.kind = "item" /\ open
                       THEN taken \union {<<incoming.to, incoming.item>>} ELSE taken
           /\ ended' = IF incoming.kind = "end" /\ open
                       THEN ended \union {incoming.to} ELSE ended
    /\ link' = Rest(e)
    /\ UNCHANGED <<phase, outgoing, started, disconnects, nextId, responses,
                   handlers, sending, sent, background, own, misanswered>>

(* The consumer drops the stream: its guard removes the channel.            *)
DropStream ==
    \E id \in streams :
        /\ ForegroundFree("client")
        /\ streams' = streams \ {id}
        /\ UNCHANGED <<netVars, nextId, buffer, maxReceived, responses, handlers,
                       sending, histVars>>

-----------------------------------------------------------------------------
(* The client's connection. *)

(* RemoteClient::new, woken by RemoteStarted, pings before anything else.   *)
Ping ==
    /\ phase = "started"
    /\ phase' = "pinging"
    /\ SendBuffered("client", "req", NoId, 0)
    /\ UNCHANGED <<started, maxReceived, handlers, sending, disconnects,
                   received, background, own, taken, ended, misanswered>>

(* The connection drops, or the client gives it up (missed heartbeats, or   *)
(* resync timed out).  What was under way in either direction and the       *)
(* client's old queues are gone; what the server's reader had already taken *)
(* over counts as read before.  The server's queue survives.  A connection  *)
(* that drops before the first ping is answered ends this client for good   *)
(* and is not modelled here.                                                *)
Disconnect ==
    /\ phase \in {"connected", "resyncing"}
    /\ disconnects < MaxDisconnects
    /\ disconnects' = disconnects + 1
    /\ phase' = "lost"
    /\ link' = [e \in Ends |-> <<>>]
    /\ UNCHANGED <<outgoing, started, endVars, sending, histVars>>

(* ChannelClient::reconnect: new queues and a new reader.                   *)
Reconnect ==
    /\ phase = "lost"
    /\ phase' = "flushing"
    /\ started' = [started EXCEPT !["client"] = FALSE]
    /\ UNCHANGED <<link, outgoing, disconnects, endVars, sending, histVars>>

(* resync, up to its await: FlushBufferedMessages, not buffered itself.     *)
Resync ==
    /\ phase = "flushing"
    /\ phase' = "resyncing"
    /\ Transmit("client", link,
                <<Control(nextId["client"], "flush", maxReceived["client"], NoId)>>)
    /\ responses' = [responses EXCEPT !["client"] =
                        @ \union {<<nextId["client"], "flush">>}]
    /\ nextId' = [nextId EXCEPT !["client"] = @ + 1]
    /\ UNCHANGED <<started, disconnects, buffer, maxReceived, streams, handlers,
                   sending, histVars>>

(* resync, after its await: the whole buffer again.                         *)
Resend ==
    /\ phase = "flushed"
    /\ phase' = "connected"
    /\ Transmit("client", link, buffer["client"])
    /\ UNCHANGED <<started, disconnects, endVars, sending, histVars>>

-----------------------------------------------------------------------------
Receive(e) ==
    \/ ReceiveFlush(e)
    \/ ReceiveStarted(e)
    \/ ReceiveMessage(e)
    \/ ReceiveResponse(e)
    \/ ReceiveStream(e)

Next ==
    \/ \E e \in Ends :
          \/ StartReader(e) \/ Respond(e)
          \/ \E kind \in Handled : Send(e, kind)
          \/ ReceiveFlush(e) \/ ReceiveStarted(e)
          \/ ReceiveMessage(e) \/ ReceiveResponse(e) \/ ReceiveStream(e)
    \/ \E t \in Threads : AllocateId(t) \/ PushBuffer(t) \/ PushQueue(t)
    \/ ServerWrite
    \/ DropStream
    \/ Ping \/ Disconnect \/ Reconnect \/ Resync \/ Resend

Spec == Init /\ [][Next]_vars

(* What the executors and the operating system keep doing: tasks that can   *)
(* run are polled, bytes arrive while a connection stands, a handler ends,  *)
(* and a lost connection is tried again.  Nobody is made to send, and       *)
(* nothing is made to disconnect.                                           *)
Fairness ==
    /\ \A e \in Ends : /\ WF_vars(StartReader(e))
                        /\ WF_vars(Receive(e))
                        /\ WF_vars(Respond(e))
    /\ \A t \in Threads : WF_vars(PushBuffer(t) \/ PushQueue(t))
    /\ WF_vars(ServerWrite)
    /\ WF_vars(Ping) /\ WF_vars(Reconnect) /\ WF_vars(Resync) /\ WF_vars(Resend)

FairSpec == Spec /\ Fairness

-----------------------------------------------------------------------------
EnvelopeOK(envelope) ==
    /\ envelope.id \in Nat
    /\ envelope.kind \in Buffered \union {"flush", "ack", "started"}
    /\ envelope.ack \in Nat \union {NoId}
    /\ envelope.to \in Nat \union {NoId}
    /\ envelope.item \in 0 .. StreamLength

(* Types of the state of both ends and of the connection between them.      *)
TypeOK ==
    /\ phase \in {"connecting", "started", "pinging", "connected", "lost",
                  "flushing", "resyncing", "flushed"}
    /\ \A e \in Ends :
          /\ \A i \in DOMAIN link[e] : EnvelopeOK(link[e][i])
          /\ \A i \in DOMAIN buffer[e] : EnvelopeOK(buffer[e][i])
          /\ \A r \in responses[e] : r[1] < nextId[e]
          /\ sent[e] \subseteq 0 .. nextId[e] - 1
          /\ received[e] \subseteq 0 .. nextId[Peer(e)] - 1
          /\ started[e] \in BOOLEAN
    /\ \A i \in DOMAIN outgoing : EnvelopeOK(outgoing[i])
    /\ streams \subseteq 0 .. nextId["client"] - 1
    /\ disconnects \in 0 .. MaxDisconnects

(* Ids in flight to the reader of Peer(e), in whatever queue they are. *)
InFlight(e) ==
    BufferedIds(link[Peer(e)])
        \union (IF e = "server" THEN BufferedIds(outgoing) ELSE {})
        \union {sending[t].id : t \in {u \in Threads : ThreadEnd[u] = e}}

Accounted(e, id) ==
    id \in received[Peer(e)] \union Ids(buffer[e]) \union InFlight(e)

(* A message that send_buffered accepted is never lost: until the peer's    *)
(* reader has had it, it is on its way there or still in the buffer that a  *)
(* reconnection sends again, so the ack that removed it from the buffer     *)
(* covered nothing that could still disappear.                              *)
NoMessageLost == \A e \in Ends : \A id \in sent[e] : Accounted(e, id)

(* The same for what the foreground thread sends, whatever ids the         *)
(* server's background threads take, buffer and queue in between: it has    *)
(* its place in all three at once, so no later id can overtake it on one    *)
(* connection.  It holds through one dropped connection: after a second one *)
(* what was sent again may be gone, and a background thread of the client   *)
(* may get ahead of the flush that has the server send again.               *)
ForegroundNotLost ==
    \A e \in Ends : \A id \in sent[e] :
        <<e, id>> \notin background => Accounted(e, id)

(* Acks are cumulative: one ack removes everything up to its id.  Whatever  *)
(* the number of senders and of dropped connections, a message has left the *)
(* buffer only when the peer had observed that id or a later one; id 0 is   *)
(* the exception, because max_received is 0 before anything is received.    *)
AckIsEarned ==
    \A e \in Ends : \A id \in (sent[e] \ Ids(buffer[e])) \ {0} :
        \E r \in received[Peer(e)] : r >= id

(* RemoteStarted always has id 0, an id that a real request may have too.   *)
(* No open request is ever completed by the Ack of RemoteStarted, and no    *)
(* flush by an ordinary response: the ids of requests start above 0 because *)
(* the Ack to the peer's RemoteStarted takes it.                            *)
AnswersMatchRequests == misanswered = {}

(* A stream that its consumer was told has ended was handed over whole.     *)
StreamsComplete ==
    \A id \in ended : \A item \in 1 .. StreamLength : <<id, item>> \in taken

(* In the end every message that the foreground sent is handled by the peer, *)
(* every request has its answer and every stream its end: the message, the   *)
(* request, or the answer that was already on its way, survives a dropped    *)
(* connection (resync, and the flush it asks for).                           *)
EverythingArrives ==
    <>[](/\ streams = {}
         /\ \A e \in Ends :
               /\ \A r \in responses[e] : r[2] /= "req"
               /\ \A id \in sent[e] :
                     <<e, id>> \notin background => id \in received[Peer(e)])
=============================================================================
