------------------------------ MODULE RpcPeer ------------------------------
(***************************************************************************)
(* One connection of the Peer of crates/rpc/src/peer.rs, seen from the end *)
(* that makes requests: the callers, which may be on any thread, the       *)
(* future handle_io, which moves envelopes between the queues and the      *)
(* socket, and the filter over the incoming queue, which matches responses *)
(* with their requests.  The other end answers what it is asked and sends  *)
(* messages of its own.                                                    *)
(*                                                                         *)
(* Unlike the channel of RemoteChannel nothing is ever sent again: a lost  *)
(* connection must fail everything that waits on it.                       *)
(*                                                                         *)
(* A message id is the name of its request (fetch_add makes ids unique).   *)
(***************************************************************************)
EXTENDS Naturals, Sequences

CONSTANTS
    Requests,      \* calls of request, at most one each
    Streams,       \* calls of request_stream
    StreamLength,  \* items in the answer to a stream request (a bound)
    MaxMessages,   \* messages of the other end's own (a bound)
    BufferSize     \* INCOMING_BUFFER_SIZE

ASSUME CallsAssumption ==
    /\ Requests \intersect Streams = {}
    /\ "none" \notin Requests \union Streams
ASSUME BoundsAssumption ==
    /\ StreamLength \in Nat /\ MaxMessages \in Nat
    /\ BufferSize \in Nat \ {0}

Calls == Requests \union Streams

VARIABLES
    (* Shared with every thread. *)
    entry,       \* the connection is in Peer::connections
    responses,   \* response_channels: calls with a sender in the map
    streams,     \* stream_response_channels
    taken,       \* which of the two maps the end of handle_io has taken
    outgoing,    \* the unbounded queue of envelopes to write
    incoming,    \* the bounded queue of envelopes read
    (* handle_io, the filter and the callers. *)
    io,          \* "running", "parked" on a full queue, "ending" or "ended"
    filter,      \* what the filter is doing, and with which envelope
    pc,          \* pc[c]: where call c is
    inbox,       \* inbox[c]: what was sent to the receiver that c awaits
    errored,     \* errored[c]: the stream has yielded an error
    got,         \* got[c]: items the stream has yielded
    latest,      \* history: place on the wire of what the application got last
    (* The socket and the other end. *)
    link,        \* "up" or "dead"
    wireIn,      \* envelopes under way from the other end
    sent,        \* how many envelopes the other end has sent
    messages,    \* how many of them were its own
    asked,       \* calls whose request has arrived there
    served       \* served[c]: answers sent, the end of a stream included

sharedVars == <<entry, responses, streams, taken, outgoing, incoming>>
callVars == <<pc, inbox, errored, got, latest>>
wireVars == <<link, wireIn, sent, messages, asked, served>>
vars == <<sharedVars, io, filter, callVars, wireVars>>

None == "none"
Closed == "closed"     \* Err(anyhow!("connection closed"))
Terminal == {"end", "error"}

(* The place on the wire, and which of the answers to its request it is,    *)
(* are history.                                                             *)
Envelope(to, body, place, nth) == [to |-> to, body |-> body, place |-> place, nth |-> nth]
Doing(at, env, held) == [at |-> at, env |-> env, held |-> held]
Idle == Doing("idle", Envelope(None, "message", 0, 0), None)

(* add_connection.  Its caller polls handle_io, or has dropped it before    *)
(* the first poll (as send_initial_client_update's failure does in the      *)
(* collaboration server): then _end_connection never runs.                  *)
Init ==
    /\ entry = TRUE
    /\ responses = {} /\ streams = {} /\ taken = {}
    /\ outgoing = <<>> /\ incoming = <<>>
    /\ io \in {"running", "ended"}
    /\ filter = Idle
    /\ pc = [c \in Calls |-> "new"]
    /\ inbox = [c \in Calls |-> <<>>]
    /\ errored = [c \in Calls |-> FALSE]
    /\ got = [c \in Calls |-> 0]
    /\ latest = 0
    /\ link = "up"
    /\ wireIn = <<>>
    /\ sent = 0 /\ messages = 0
    /\ asked = {}
    /\ served = [c \in Calls |-> 0]

-----------------------------------------------------------------------------
(* The callers. *)

Goto(c, to) == pc' = [pc EXCEPT ![c] = to]

(* connection_state(): a clone of the entry, with a sender of the queue.    *)
Lookup(c) ==
    /\ pc[c] = "new"
    /\ Goto(c, IF entry THEN "found" ELSE "failed")
    /\ UNCHANGED <<sharedVars, io, filter, inbox, errored, got, latest, wireVars>>

(* Under the lock of the map: insert the sender, unless the map was taken.  *)
Insert(c) ==
    /\ pc[c] = "found"
    /\ IF c \in Requests
         THEN /\ responses' = IF "responses" \in taken THEN responses ELSE responses \union {c}
              /\ Goto(c, IF "responses" \in taken THEN "failed" ELSE "inserted")
              /\ UNCHANGED streams
         ELSE /\ streams' = IF "streams" \in taken THEN streams ELSE streams \union {c}
              /\ Goto(c, IF "streams" \in taken THEN "failed" ELSE "inserted")
              /\ UNCHANGED responses
    /\ UNCHANGED <<entry, taken, outgoing, incoming, io, filter>>
    /\ UNCHANGED <<inbox, errored, got, latest, wireVars>>

(* unbounded_send, which fails once handle_io is gone; a stream then takes  *)
(* back what it has inserted.                                               *)
Enqueue(c) ==
    /\ pc[c] = "inserted"
    /\ IF io /= "ended"
         THEN /\ outgoing' = Append(outgoing, c)
              /\ Goto(c, "sent")
              /\ UNCHANGED streams
         ELSE /\ streams' = streams \ {c}
              /\ Goto(c, "failed")
              /\ UNCHANGED outgoing
    /\ UNCHANGED <<entry, responses, taken, incoming, io, filter>>
    /\ UNCHANGED <<inbox, errored, got, latest, wireVars>>

(* The receiver of c still has a sender somewhere: the filter keeps that of *)
(* a stream until it is resumed.                                            *)
SenderAlive(c) ==
    \/ c \in responses \union streams
    \/ /\ filter.env.to = c
       /\ \/ filter.at \in {"matching", "sending"} /\ filter.held /= None
          \/ filter.at = "waiting" /\ filter.held = "stream"

(* request_dynamic, polled: the answer, which releases the filter, or the   *)
(* news that its sender is gone.                                            *)
PollRequest(c) ==
    /\ c \in Requests
    /\ pc[c] = "sent"
    /\ \/ /\ inbox[c] /= <<>>
          /\ Goto(c, "answered")
          /\ latest' = Head(inbox[c]).place
          /\ inbox' = [inbox EXCEPT ![c] = <<>>]
       \/ /\ inbox[c] = <<>>
          /\ ~SenderAlive(c)
          /\ Goto(c, "failed")
          /\ UNCHANGED <<latest, inbox>>
    /\ UNCHANGED <<sharedVars, io, filter, errored, got, wireVars>>

(* The future is dropped; its entry stays in the map.                       *)
DropRequest(c) ==
    /\ c \in Requests
    /\ pc[c] = "sent"
    /\ Goto(c, "abandoned")
    /\ inbox' = [inbox EXCEPT ![c] = <<>>]
    /\ UNCHANGED <<sharedVars, io, filter, errored, got, latest, wireVars>>

(* request_stream_dynamic, polled for the first time: from here on a guard  *)
(* removes the entry when the stream is dropped.                            *)
OpenStream(c) ==
    /\ c \in Streams
    /\ pc[c] = "sent"
    /\ Goto(c, "open")
    /\ UNCHANGED <<sharedVars, io, filter, inbox, errored, got, latest, wireVars>>

AbandonStream(c) ==
    /\ c \in Streams
    /\ pc[c] = "sent"
    /\ Goto(c, "abandoned")
    /\ inbox' = [inbox EXCEPT ![c] = <<>>]
    /\ UNCHANGED <<sharedVars, io, filter, errored, got, latest, wireVars>>

(* The stream, polled: the next item, an error, or, at the end frame, the   *)
(* next thing after it.  Error and end frames remove the entry once more.   *)
PollStream(c) ==
    /\ pc[c] = "open"
    /\ inbox[c] /= <<>>
    /\ LET e == Head(inbox[c])
       IN  /\ inbox' = [inbox EXCEPT ![c] = Tail(@)]
           /\ streams' = IF e.body \in Terminal THEN streams \ {c} ELSE streams
           /\ got' = IF e.body = "item" THEN [got EXCEPT ![c] = @ + 1] ELSE got
           /\ errored' = IF e.body \in {"error", Closed} THEN [errored EXCEPT ![c] = TRUE]
                                                         ELSE errored
           /\ latest' = IF e.body = Closed THEN latest ELSE e.place
    /\ UNCHANGED <<entry, responses, taken, outgoing, incoming, io, filter, pc, wireVars>>

StreamEnds(c) ==
    /\ pc[c] = "open"
    /\ inbox[c] = <<>>
    /\ ~SenderAlive(c)
    /\ Goto(c, "ended")
    /\ UNCHANGED <<sharedVars, io, filter, inbox, errored, got, latest, wireVars>>

(* Mutant: the consumer goes away and leaves its entry.                     *)
DropStreamUnguarded(c) ==
    /\ pc[c] = "open"
    /\ Goto(c, "dropped")
    /\ inbox' = [inbox EXCEPT ![c] = <<>>]
    /\ UNCHANGED <<sharedVars, io, filter, errored, got, latest, wireVars>>

(* The consumer drops the stream: its receiver, then the guard.             *)
DropStream(c) ==
    /\ pc[c] = "open"
    /\ Goto(c, "dropped")
    /\ inbox' = [inbox EXCEPT ![c] = <<>>]
    /\ streams' = streams \ {c}
    /\ UNCHANGED <<entry, responses, taken, outgoing, incoming, io, filter>>
    /\ UNCHANGED <<errored, got, latest, wireVars>>

(* disconnect() and teardown(): the entry goes, nothing else.               *)
Disconnect ==
    /\ entry
    /\ entry' = FALSE
    /\ UNCHANGED <<responses, streams, taken, outgoing, incoming, io, filter>>
    /\ UNCHANGED <<callVars, wireVars>>

-----------------------------------------------------------------------------
(* handle_io. *)

(* Every sender of the outgoing queue is gone: the entry's and the clones   *)
(* of the calls that are under way.                                         *)
NoSenders == ~entry /\ \A c \in Calls : pc[c] \notin {"found", "inserted"}

(* The next envelope goes to the socket, and on to the other end or nowhere.*)
WriteOutgoing ==
    /\ io = "running"
    /\ outgoing /= <<>>
    /\ outgoing' = Tail(outgoing)
    /\ asked' = IF link = "up" THEN asked \union {Head(outgoing)} ELSE asked
    /\ UNCHANGED <<entry, responses, streams, taken, incoming, io, filter, callVars>>
    /\ UNCHANGED <<link, wireIn, sent, messages, served>>

(* A read or a write fails or times out, or too long nothing was received.  *)
(* None of this is looked at while parked.                                  *)
IoError ==
    /\ io = "running"
    /\ link = "dead"
    /\ io' = "ending"
    /\ UNCHANGED <<sharedVars, filter, callVars, wireVars>>

(* outgoing_rx.next() is None: the loop returns.                            *)
IoClosed ==
    /\ io = "running"
    /\ outgoing = <<>>
    /\ NoSenders
    /\ io' = "ending"
    /\ UNCHANGED <<sharedVars, filter, callVars, wireVars>>

(* Mutant: the reader does not wait for room in the queue.                  *)
ReadMessageUnbounded ==
    /\ io = "running"
    /\ outgoing = <<>>
    /\ wireIn /= <<>>
    /\ wireIn' = Tail(wireIn)
    /\ incoming' = Append(incoming, Head(wireIn))
    /\ UNCHANGED <<entry, responses, streams, taken, outgoing, io, filter, callVars>>
    /\ UNCHANGED <<link, sent, messages, asked, served>>

(* The outgoing queue comes first in the select.  The queue takes the       *)
(* envelope at once, but send() returns only when there is room again.      *)
ReadMessage ==
    /\ io = "running"
    /\ outgoing = <<>>
    /\ wireIn /= <<>>
    /\ wireIn' = Tail(wireIn)
    /\ incoming' = Append(incoming, Head(wireIn))
    /\ io' = IF Len(incoming) >= BufferSize THEN "parked" ELSE "running"
    /\ UNCHANGED <<entry, responses, streams, taken, outgoing, filter, callVars>>
    /\ UNCHANGED <<link, sent, messages, asked, served>>

(* WRITE_TIMEOUT while parked: "timed out processing incoming message".     *)
ParkedTimeout ==
    /\ io = "parked"
    /\ io' = "ending"
    /\ UNCHANGED <<sharedVars, filter, callVars, wireVars>>

(* Mutant: the pending responses are not failed.                            *)
EndResponsesKept ==
    /\ io = "ending" /\ taken = {}
    /\ taken' = {"responses"}
    /\ UNCHANGED <<entry, responses, streams, outgoing, incoming, io, filter, callVars, wireVars>>

(* _end_connection, first: response_channels.lock().take().                 *)
EndResponses ==
    /\ io = "ending" /\ taken = {}
    /\ taken' = {"responses"}
    /\ responses' = {}
    /\ UNCHANGED <<entry, streams, outgoing, incoming, io, filter, callVars, wireVars>>

(* Mutant: the streams are not told.                                        *)
EndStreamsSilently ==
    /\ io = "ending" /\ taken = {"responses"}
    /\ taken' = {"responses", "streams"}
    /\ streams' = {}
    /\ UNCHANGED <<entry, responses, outgoing, incoming, io, filter, callVars, wireVars>>

(* Then the streams, each of which is told, under the lock.                 *)
EndStreams ==
    /\ io = "ending" /\ taken = {"responses"}
    /\ taken' = {"responses", "streams"}
    /\ streams' = {}
    /\ inbox' = [c \in Calls |->
                    IF c \in streams /\ pc[c] /= "abandoned"
                      THEN Append(inbox[c], Envelope(c, Closed, 0, 0)) ELSE inbox[c]]
    /\ UNCHANGED <<entry, responses, outgoing, incoming, io, filter>>
    /\ UNCHANGED <<pc, errored, got, latest, wireVars>>

(* Then the entry; the queues go with the future.                           *)
EndEntry ==
    /\ io = "ending" /\ taken = {"responses", "streams"}
    /\ entry
    /\ entry' = FALSE
    /\ UNCHANGED <<responses, streams, taken, outgoing, incoming, io, filter, callVars, wireVars>>

EndQueues ==
    /\ io = "ending" /\ taken = {"responses", "streams"}
    /\ ~entry
    /\ io' = "ended"
    /\ outgoing' = <<>>
    /\ wireIn' = <<>>
    /\ UNCHANGED <<entry, responses, streams, taken, incoming, filter, callVars>>
    /\ UNCHANGED <<link, sent, messages, asked, served>>

-----------------------------------------------------------------------------
(* The filter over the incoming queue.  handle_io runs on another thread:   *)
(* its end may fall between any two of the filter's locks.                  *)

Unpark == IF io = "parked" THEN "running" ELSE io

(* A message that is no response goes to its handler.                       *)
HandOut ==
    /\ filter.at = "idle"
    /\ incoming /= <<>>
    /\ Head(incoming).to = None
    /\ incoming' = Tail(incoming)
    /\ io' = Unpark
    /\ latest' = Head(incoming).place
    /\ UNCHANGED <<entry, responses, streams, taken, outgoing, filter>>
    /\ UNCHANGED <<pc, inbox, errored, got, wireVars>>

(* A response: first the sender of a request, under the lock of that map.   *)
TakeResponse ==
    /\ filter.at = "idle"
    /\ incoming /= <<>>
    /\ incoming' = Tail(incoming)
    /\ io' = Unpark
    /\ LET e == Head(incoming)
       IN  /\ e.to /= None
           /\ filter' = IF "responses" \in taken THEN Idle
                        ELSE Doing("matching", e, IF e.to \in responses THEN "response" ELSE None)
           /\ responses' = responses \ {e.to}
    /\ UNCHANGED <<entry, streams, taken, outgoing, callVars, wireVars>>

(* Then the sender of a stream, which a last frame removes and any other    *)
(* clones.  When that map was taken the sender of a request is dropped too. *)
MatchStream ==
    /\ filter.at = "matching"
    /\ LET c == filter.env.to
           found == IF filter.held = "response" THEN "response"
                    ELSE IF c \in streams THEN "stream" ELSE None
       IN  /\ streams' = IF filter.env.body \in Terminal THEN streams \ {c} ELSE streams
           /\ filter' = IF "streams" \in taken \/ found = None THEN Idle
                        ELSE Doing("sending", filter.env, found)
    /\ UNCHANGED <<entry, responses, taken, outgoing, incoming, io, callVars, wireVars>>

(* The response goes to its receiver and the filter waits for it to be      *)
(* taken.  When the receiver is gone there is nothing to wait for, and a    *)
(* stream is forgotten.                                                     *)
Deliver ==
    /\ filter.at = "sending"
    /\ LET c == filter.env.to
       IN  IF pc[c] \in {"abandoned", "dropped", "ended"}
             THEN /\ filter' = Idle
                  /\ streams' = IF filter.held = "stream" THEN streams \ {c} ELSE streams
                  /\ UNCHANGED inbox
             ELSE /\ filter' = Doing("waiting", filter.env, filter.held)
                  /\ inbox' = [inbox EXCEPT ![c] = Append(@, filter.env)]
                  /\ UNCHANGED streams
    /\ UNCHANGED <<entry, responses, taken, outgoing, incoming, io>>
    /\ UNCHANGED <<pc, errored, got, latest, wireVars>>

(* Mutant: the filter does not wait for the requester.                      *)
BarrierIgnored(c) == TRUE

(* requester_resumed: the other half of the barrier was dropped, with what  *)
(* it came with or by whoever took that.                                    *)
BarrierDropped(c) == \A i \in 1 .. Len(inbox[c]) : inbox[c][i].body = Closed

Resume ==
    /\ filter.at = "waiting"
    /\ BarrierDropped(filter.env.to)
    /\ filter' = Idle
    /\ UNCHANGED <<sharedVars, io, callVars, wireVars>>

-----------------------------------------------------------------------------
(* The other end and the socket. *)

Put(to, body, nth) ==
    /\ link = "up"
    /\ io /= "ended"
    /\ sent' = sent + 1
    /\ wireIn' = Append(wireIn, Envelope(to, body, sent + 1, nth))

(* send(): a message of its own.                                            *)
OtherSends ==
    /\ messages < MaxMessages
    /\ Put(None, "message", 0)
    /\ messages' = messages + 1
    /\ UNCHANGED <<sharedVars, io, filter, callVars, link, asked, served>>

(* respond() or respond_with_error() to a request.                          *)
OtherResponds(c) ==
    /\ c \in asked \intersect Requests
    /\ served[c] = 0
    /\ Put(c, "answer", 1)
    /\ served' = [served EXCEPT ![c] = 1]
    /\ UNCHANGED <<sharedVars, io, filter, callVars, link, messages, asked>>

(* respond() for each item, then end_stream(); or respond_with_error().     *)
OtherStreams(c) ==
    /\ c \in asked \intersect Streams
    /\ served[c] <= StreamLength
    /\ \/ /\ Put(c, IF served[c] < StreamLength THEN "item" ELSE "end", served[c] + 1)
          /\ served' = [served EXCEPT ![c] = @ + 1]
       \/ /\ Put(c, "error", served[c] + 1)
          /\ served' = [served EXCEPT ![c] = StreamLength + 1]
    /\ UNCHANGED <<sharedVars, io, filter, callVars, link, messages, asked>>

(* The connection breaks: what is under way is lost.                        *)
LinkBreaks ==
    /\ link = "up"
    /\ link' = "dead"
    /\ wireIn' = <<>>
    /\ UNCHANGED <<sharedVars, io, filter, callVars, sent, messages, asked, served>>

-----------------------------------------------------------------------------
Poll(c) == PollRequest(c) \/ OpenStream(c) \/ PollStream(c) \/ StreamEnds(c)

Io ==
    \/ WriteOutgoing \/ IoError \/ IoClosed \/ ReadMessage
    \/ EndResponses \/ EndStreams \/ EndEntry \/ EndQueues

Filter == HandOut \/ TakeResponse \/ MatchStream \/ Deliver \/ Resume

Next ==
    \/ \E c \in Calls :
          \/ Lookup(c) \/ Insert(c) \/ Enqueue(c)
          \/ PollRequest(c) \/ OpenStream(c) \/ PollStream(c) \/ StreamEnds(c)
          \/ DropRequest(c) \/ AbandonStream(c) \/ DropStream(c)
          \/ OtherResponds(c) \/ OtherStreams(c)
    \/ WriteOutgoing \/ IoError \/ IoClosed \/ ReadMessage \/ ParkedTimeout
    \/ EndResponses \/ EndStreams \/ EndEntry \/ EndQueues
    \/ HandOut \/ TakeResponse \/ MatchStream \/ Deliver \/ Resume
    \/ Disconnect \/ OtherSends \/ LinkBreaks

Spec == Init /\ [][Next]_vars

(* A call that has begun runs on, handle_io and the filter are polled, the  *)
(* futures and streams that are not dropped are polled, and the other end   *)
(* answers while the connection is up.  Nobody has to call or to break      *)
(* anything.                                                                *)
Fairness ==
    /\ WF_vars(Io)
    /\ WF_vars(Filter)
    /\ \A c \in Calls : /\ WF_vars(Insert(c) \/ Enqueue(c))
                         /\ WF_vars(Poll(c))
                         /\ WF_vars(OtherResponds(c) \/ OtherStreams(c))

FairSpec == Spec /\ Fairness

-----------------------------------------------------------------------------
(* Types, and the capacity of the incoming queue, which is one more than    *)
(* its buffer.                                                              *)
TypeOK ==
    /\ entry \in BOOLEAN
    /\ responses \subseteq Requests
    /\ streams \subseteq Streams
    /\ taken \in {{}, {"responses"}, {"responses", "streams"}}
    /\ io \in {"running", "parked", "ending", "ended"}
    /\ filter.at \in {"idle", "matching", "sending", "waiting"}
    /\ filter.held \in {None, "response", "stream"}
    /\ pc \in [Calls -> {"new", "found", "inserted", "sent", "open", "answered",
                         "ended", "failed", "abandoned", "dropped"}]
    /\ link \in {"up", "dead"}
    /\ Len(incoming) <= BufferSize + 1
    /\ \A c \in Calls : Len(inbox[c]) <= 2 /\ got[c] <= StreamLength

(* The application gets responses, stream items and messages in the order   *)
(* in which the other end has sent them, although they reach different      *)
(* tasks, and whoever else drops its request meanwhile.                     *)
OrderIsKept == [][latest' >= latest]_vars

(* What a caller is told is true, whatever became of the connection         *)
(* meanwhile: a stream that ends without having yielded an error has        *)
(* yielded all that the other end had to say, and a call fails only when    *)
(* its connection is over (_end_connection, and the filter's two locks).    *)
OutcomesAreTrue ==
    \A c \in Calls :
        /\ pc[c] = "ended" /\ ~errored[c] => got[c] = StreamLength
        /\ pc[c] = "failed" => ~entry \/ io \in {"ending", "ended"}

(* A stream whose consumer has seen its end or has dropped it leaves no     *)
(* sender behind in the map.                                                *)
NoStreamLeaks ==
    \A c \in Streams : pc[c] \in {"ended", "dropped", "failed"} => c \notin streams

Pending == \E c \in Calls : pc[c] \in {"found", "inserted", "sent", "open"}

(* Every request and every stream comes to an end: with its answer, or with *)
(* the end of the connection, however that comes about.  Taking the entry   *)
(* away ends the connection, even though handle_io learns of it only when   *)
(* the last sender of its queue is dropped.                                 *)
EverythingEnds ==
    /\ Pending ~> ~Pending
    /\ ~entry ~> io = "ended"
=============================================================================
