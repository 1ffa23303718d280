--------------------------- MODULE RpcPeerProofs ---------------------------
(***************************************************************************)
(* Proofs about RpcPeer, for any calls, any length of a stream and any     *)
(* size of the incoming queue.                                             *)
(*                                                                         *)
(* What the other end sends passes through one queue (read or not), then   *)
(* the filter, then the receiver of its call.  The inductive invariant     *)
(* follows the envelopes along that way: their places never go back, and   *)
(* of a stream that is still in the map none is missing.                   *)
(***************************************************************************)
EXTENDS RpcPeer, SequenceTheorems, TLAPS

Over == io \in {"ending", "ended"}
Queue == incoming \o wireIn

-----------------------------------------------------------------------------
(* Types, more of them than TypeOK tells.                                   *)

Bodies == {"message", "answer", "item", "end", "error", Closed}
Frames == [to : Calls \union {None}, body : Bodies, place : Nat, nth : Nat]

Filters == [at : {"idle", "matching", "sending", "waiting"}, env : Frames,
            held : {None, "response", "stream"}]

Typed ==
    /\ entry \in BOOLEAN
    /\ responses \subseteq Requests
    /\ streams \subseteq Streams
    /\ taken \in {{}, {"responses"}, {"responses", "streams"}}
    /\ outgoing \in Seq(Calls)
    /\ incoming \in Seq(Frames)
    /\ io \in {"running", "parked", "ending", "ended"}
    /\ filter \in Filters
    /\ pc \in [Calls -> {"new", "found", "inserted", "sent", "open", "answered",
                         "ended", "failed", "abandoned", "dropped"}]
    /\ inbox \in [Calls -> Seq(Frames)]
    /\ errored \in [Calls -> BOOLEAN]
    /\ got \in [Calls -> Nat]
    /\ latest \in Nat
    /\ link \in {"up", "dead"}
    /\ wireIn \in Seq(Frames)
    /\ sent \in Nat
    /\ messages \in Nat
    /\ asked \subseteq Calls
    /\ served \in [Calls -> Nat]

(* The maps are taken at the end only and stay empty, and a reader that is  *)
(* not parked has left room for one more envelope.                          *)
EndInv ==
    /\ taken /= {} => Over
    /\ "streams" \in taken => streams = {}
    /\ io = "running" => Len(incoming) <= BufferSize
    /\ Len(incoming) <= BufferSize + 1

(* What an envelope from the wire may be, when the calls in a were asked.    *)
Sound(e, a) ==
    /\ e.to = None => e.body = "message"
    /\ e.to \in Requests => e.body = "answer"
    /\ e.to \in Streams => \/ e.body = "item" /\ e.nth <= StreamLength
                           \/ e.body = "end" /\ e.nth = StreamLength + 1
                           \/ e.body = "error"
    /\ e.to /= None => e.to \in a

FrameInv ==
    /\ \A i \in 1 .. Len(Queue) : Sound(Queue[i], asked)
    /\ filter.at /= "idle" => Sound(filter.env, asked) /\ filter.env.to /= None
    /\ filter.at \in {"idle", "matching"} => filter.held /= "stream"
    /\ filter.at = "sending" => filter.held /= None
    /\ filter.held = "response" => filter.env.to \in Requests
    /\ filter.held = "stream" => filter.env.to \in Streams

(* Places never go back along the way.                                      *)
PlaceInv ==
    /\ latest <= sent
    /\ \A i \in 1 .. Len(Queue) : latest <= Queue[i].place /\ Queue[i].place <= sent
    /\ \A i, j \in 1 .. Len(Queue) : i <= j => Queue[i].place <= Queue[j].place
    /\ filter.at /= "idle" =>
          /\ latest <= filter.env.place /\ filter.env.place <= sent
          /\ \A i \in 1 .. Len(Queue) : filter.env.place <= Queue[i].place

(* A receiver has at most the news of the end and the envelope that the     *)
(* filter waits for.                                                        *)
InboxInv ==
    \A c \in Calls :
        /\ \A i \in 1 .. Len(inbox[c]) :
              \/ inbox[c][i].body = Closed /\ c \in Streams /\ "streams" \in taken
              \/ inbox[c][i] = filter.env /\ filter.at = "waiting" /\ filter.env.to = c
        /\ \A i, j \in 1 .. Len(inbox[c]) :
              i /= j => (inbox[c][i].body = Closed) /= (inbox[c][j].body = Closed)

(* A request that waits has a sender, or its answer, or the connection is   *)
(* over; and a call fails only then.                                        *)
RequestInv ==
    /\ \A c \in Requests : pc[c] \in {"inserted", "sent"} =>
          \/ c \in responses
          \/ filter.at \in {"matching", "sending"} /\ filter.env.to = c
                /\ filter.held = "response"
          \/ inbox[c] /= <<>>
          \/ Over
    /\ \A c \in Calls : pc[c] = "failed" => ~entry \/ Over

(* Before its request is queued a stream has nothing to expect.             *)
EarlyInv ==
    \A c \in Streams :
        /\ pc[c] \in {"new", "found", "ended", "dropped", "failed"} => c \notin streams
        /\ pc[c] \in {"new", "found", "inserted", "failed"} =>
              c \notin asked /\ \A i \in 1 .. Len(outgoing) : outgoing[i] /= c
        /\ c \notin asked => served[c] = 0 /\ got[c] = 0

(* The filter has an envelope of c that its consumer is still to take.      *)
Holds(c) ==
    /\ filter.env.to = c
    /\ \/ filter.at = "matching" /\ c \in streams
       \/ filter.at = "sending"
       \/ filter.at = "waiting" /\ \E i \in 1 .. Len(inbox[c]) : inbox[c][i].body /= Closed

Listening(c) == c \in Streams /\ pc[c] \in {"sent", "open"}

(* How many answers to c have left the queue.                               *)
Left(c) == IF Holds(c) THEN got[c] + 1 ELSE got[c]

(* What the filter holds is the next thing that the stream has to yield.    *)
HeldInv ==
    \A c \in Streams : Listening(c) =>
        /\ Holds(c) => filter.env.nth = got[c] + 1
        /\ got[c] <= StreamLength

(* The queue q has the answers to c after the n-th, in order and all of     *)
(* them.                                                                    *)
Follows(q, c, n) ==
    \A i \in 1 .. Len(q) : q[i].to = c =>
        /\ q[i].nth > n
        /\ q[i].nth = n + 1 \/ \E j \in 1 .. i - 1 : q[j].to = c /\ q[j].nth = q[i].nth - 1
        /\ \A j \in 1 .. i - 1 : q[j].to = c => q[j].nth < q[i].nth

(* The queue q ends, for c, with the m-th answer.                           *)
UpTo(q, c, n, m) ==
    /\ n <= m
    /\ \A i \in 1 .. Len(q) : q[i].to = c => q[i].nth <= m
    /\ n = m \/ \E i \in 1 .. Len(q) : q[i].to = c /\ q[i].nth = m

(* Of a stream that is in the map nothing is missing.                       *)
FlowInv ==
    \A c \in Streams : Listening(c) /\ c \in streams /\ "responses" \notin taken =>
        /\ Follows(Queue, c, Left(c))
        /\ link = "up" /\ io /= "ended" /\ served[c] <= StreamLength =>
              UpTo(Queue, c, Left(c), served[c])

(* A stream that is no longer in the map has been told why, or is about to  *)
(* be, or has it all.                                                       *)
ToldInv ==
    \A c \in Streams : pc[c] \in {"inserted", "sent", "open"} /\ c \notin streams =>
        \/ errored[c]
        \/ got[c] = StreamLength
        \/ \E i \in 1 .. Len(inbox[c]) : inbox[c][i].body \in Terminal \union {Closed}
        \/ filter.at = "sending" /\ filter.env.to = c /\ filter.env.body \in Terminal

(* And one that has seen its end without an error has it all.               *)
DoneInv ==
    \A c \in Calls :
        /\ pc[c] = "ended" => c \in Streams /\ (errored[c] \/ got[c] = StreamLength)
        /\ pc[c] = "open" => c \in Streams
        /\ got[c] <= StreamLength

IInv ==
    /\ Typed /\ EndInv /\ FrameInv /\ PlaceInv /\ InboxInv /\ RequestInv
    /\ EarlyInv /\ HeldInv /\ FlowInv /\ ToldInv /\ DoneInv

-----------------------------------------------------------------------------
(* What reading, taking and putting do to the whole queue.                  *)

(* Reading an envelope moves it within the queue.                           *)
LEMMA QueueRead ==
    ASSUME NEW S, NEW p \in Seq(S), NEW q \in Seq(S), q /= <<>>
    PROVE  Append(p, Head(q)) \o Tail(q) = p \o q
<1>1. Head(q) \in S /\ Tail(q) \in Seq(S) /\ Len(q) \in Nat \ {0} /\ Len(p) \in Nat
  BY HeadTailProperties, EmptySeq, LenProperties
<1>2. Append(p, Head(q)) \in Seq(S)
  BY <1>1, AppendProperties
<1>3. Len(Append(p, Head(q)) \o Tail(q)) = Len(p) + Len(q)
  BY <1>1, <1>2, AppendProperties, ConcatProperties, HeadTailProperties
<1>4. ASSUME NEW i \in 1 .. Len(p) + Len(q)
      PROVE  (Append(p, Head(q)) \o Tail(q))[i] = (p \o q)[i]
  <2>1. CASE i <= Len(p) + 1
    BY <2>1, <1>1, <1>2, AppendProperties, ConcatProperties
  <2>2. CASE i > Len(p) + 1
    <3>1. i - (Len(p) + 1) \in 1 .. Len(Tail(q))
      BY <2>2, <1>1, HeadTailProperties
    <3>2. Tail(q)[i - (Len(p) + 1)] = q[i - Len(p)]
      BY <3>1, <1>1, HeadTailProperties
    <3> QED
      BY <2>2, <3>1, <3>2, <1>1, <1>2, AppendProperties, ConcatProperties
  <2> QED
    BY <2>1, <2>2, <1>1
<1> QED
  BY <1>1, <1>2, <1>3, <1>4, ConcatProperties, SeqEqual

(* Taking the first of what was read takes the first of the queue.          *)
LEMMA QueueTake ==
    ASSUME NEW S, NEW p \in Seq(S), NEW q \in Seq(S), p /= <<>>
    PROVE  /\ p \o q /= <<>>
           /\ Tail(p) \o q = Tail(p \o q)
           /\ Head(p \o q) = Head(p)
<1>1. Tail(p) \in Seq(S) /\ Len(p) \in Nat \ {0} /\ Len(q) \in Nat
      /\ p \o q \in Seq(S) /\ Len(p \o q) = Len(p) + Len(q)
  BY HeadTailProperties, EmptySeq, LenProperties, ConcatProperties
<1>2. p \o q /= <<>>
  BY <1>1, EmptySeq
<1>3. Tail(p \o q) \in Seq(S) /\ Len(Tail(p \o q)) = Len(p) + Len(q) - 1
      /\ \A i \in 1 .. Len(p) + Len(q) - 1 : Tail(p \o q)[i] = (p \o q)[i + 1]
  BY <1>1, <1>2, HeadTailProperties
<1>4. Tail(p) \o q \in Seq(S) /\ Len(Tail(p) \o q) = Len(p) + Len(q) - 1
  BY <1>1, HeadTailProperties, ConcatProperties
<1>5. ASSUME NEW i \in 1 .. Len(p) + Len(q) - 1
      PROVE  (Tail(p) \o q)[i] = (p \o q)[i + 1]
  <2>1. CASE i <= Len(p) - 1
    BY <2>1, <1>1, HeadTailProperties, ConcatProperties
  <2>2. CASE i > Len(p) - 1
    BY <2>2, <1>1, HeadTailProperties, ConcatProperties
  <2> QED
    BY <2>1, <2>2, <1>1
<1>6. Head(p \o q) = Head(p)
  BY <1>1, <1>2, ConcatProperties
<1> QED
  BY <1>2, <1>3, <1>4, <1>5, <1>6, SeqEqual

(* What arrives on the wire goes to the end of the queue.                   *)
LEMMA QueuePut ==
    ASSUME NEW S, NEW p \in Seq(S), NEW q \in Seq(S), NEW e \in S
    PROVE  p \o Append(q, e) = Append(p \o q, e)
<1>1. Len(p) \in Nat /\ Len(q) \in Nat /\ p \o q \in Seq(S)
      /\ Len(p \o q) = Len(p) + Len(q) /\ Append(q, e) \in Seq(S)
  BY LenProperties, ConcatProperties, AppendProperties
<1>2. p \o Append(q, e) \in Seq(S) /\ Len(p \o Append(q, e)) = Len(p) + Len(q) + 1
  BY <1>1, ConcatProperties, AppendProperties
<1>3. Append(p \o q, e) \in Seq(S) /\ Len(Append(p \o q, e)) = Len(p) + Len(q) + 1
  BY <1>1, AppendProperties
<1>4. ASSUME NEW i \in 1 .. Len(p) + Len(q) + 1
      PROVE  (p \o Append(q, e))[i] = Append(p \o q, e)[i]
  <2>1. CASE i <= Len(p)
    BY <2>1, <1>1, ConcatProperties, AppendProperties
  <2>2. CASE i > Len(p) /\ i <= Len(p) + Len(q)
    BY <2>2, <1>1, ConcatProperties, AppendProperties
  <2>3. CASE i = Len(p) + Len(q) + 1
    BY <2>3, <1>1, ConcatProperties, AppendProperties
  <2> QED
    BY <2>1, <2>2, <2>3, <1>1
<1> QED
  BY <1>2, <1>3, <1>4, SeqEqual

(* When the wire is lost the queue is what was read.                        *)
LEMMA QueueCut ==
    ASSUME NEW S, NEW p \in Seq(S), NEW q \in Seq(S)
    PROVE  /\ p \o <<>> = p
           /\ Len(p) \in Nat /\ Len(p) <= Len(p \o q)
           /\ \A i \in 1 .. Len(p) : (p \o q)[i] = p[i]
<1>1. Len(p) \in Nat /\ Len(q) \in Nat
  BY LenProperties
<1> QED
  BY <1>1, ConcatProperties, ConcatEmptySeq

-----------------------------------------------------------------------------
(* The answers to one stream, as the queue changes.                         *)

(* Envelopes, sequences of them, and what the filter is doing.              *)
LEMMA FrameFacts ==
    /\ \A e \in Frames : /\ e.to \in Calls \union {None} /\ e.body \in Bodies
                          /\ e.place \in Nat /\ e.nth \in Nat
    /\ \A t \in Calls \union {None}, b \in Bodies, p \in Nat, n \in Nat :
          Envelope(t, b, p, n) \in Frames
  BY DEF Frames, Envelope

(* What is in a queue of envelopes.                                         *)
LEMMA InQueue ==
    ASSUME NEW q \in Seq(Frames)
    PROVE  /\ Len(q) \in Nat
           /\ \A i \in 1 .. Len(q) : /\ q[i] \in Frames /\ q[i].nth \in Nat
                                       /\ q[i].place \in Nat /\ q[i].to \in Calls \union {None}
           /\ q /= <<>> => Head(q) \in Frames /\ Tail(q) \in Seq(Frames)
           /\ \A e \in Frames : Append(q, e) \in Seq(Frames)
<1>1. Len(q) \in Nat
  BY LenProperties
<1>2. \A i \in 1 .. Len(q) : q[i] \in Frames
  BY ElementOfSeq
<1>3. q /= <<>> => Head(q) \in Frames /\ Tail(q) \in Seq(Frames)
  BY HeadTailProperties
<1>4. \A e \in Frames : Append(q, e) \in Seq(Frames)
  BY AppendProperties
<1> QED
  BY <1>1, <1>2, <1>3, <1>4, FrameFacts

(* What the filter may be doing.                                            *)
LEMMA FilterFacts ==
    /\ \A f \in Filters : /\ f.at \in {"idle", "matching", "sending", "waiting"}
                           /\ f.env \in Frames /\ f.held \in {None, "response", "stream"}
    /\ Idle \in Filters
    /\ \A a \in {"idle", "matching", "sending", "waiting"}, e \in Frames,
          h \in {None, "response", "stream"} : Doing(a, e, h) \in Filters
<1>1. Envelope(None, "message", 0, 0) \in Frames
  BY FrameFacts DEF Bodies
<1>2. Idle \in Filters
  BY <1>1 DEF Idle, Doing, Filters
<1>3. \A f \in Filters : /\ f.at \in {"idle", "matching", "sending", "waiting"}
                         /\ f.env \in Frames /\ f.held \in {None, "response", "stream"}
  BY DEF Filters
<1>4. \A a \in {"idle", "matching", "sending", "waiting"}, e \in Frames,
        h \in {None, "response", "stream"} : Doing(a, e, h) \in Filters
  BY DEF Filters, Doing
<1> QED
  BY <1>2, <1>3, <1>4

(* The first answer to c in the queue is the next one, and when it is taken *)
(* the rest follows it.                                                     *)
LEMMA FollowsTail ==
    ASSUME NEW q \in Seq(Frames), q /= <<>>, NEW c \in Calls, NEW n \in Nat,
           Follows(q, c, n)
    PROVE  /\ Head(q).to /= c => Follows(Tail(q), c, n)
           /\ Head(q).to = c => Head(q).nth = n + 1 /\ Follows(Tail(q), c, n + 1)
<1>1. Len(q) \in Nat \ {0} /\ Head(q) = q[1] /\ Len(Tail(q)) = Len(q) - 1
      /\ \A i \in 1 .. Len(q) - 1 : Tail(q)[i] = q[i + 1]
  BY EmptySeq, LenProperties, HeadTailProperties
<1>2. \A i \in 1 .. Len(q) : q[i] \in Frames /\ q[i].nth \in Nat
  BY InQueue
<1>3. ASSUME Head(q).to /= c PROVE Follows(Tail(q), c, n)
  <2> SUFFICES ASSUME NEW i \in 1 .. Len(q) - 1, q[i + 1].to = c
               PROVE  /\ q[i + 1].nth > n
                      /\ \/ q[i + 1].nth = n + 1
                         \/ \E j \in 1 .. i - 1 : q[j + 1].to = c /\ q[j + 1].nth = q[i + 1].nth - 1
                      /\ \A j \in 1 .. i - 1 : q[j + 1].to = c => q[j + 1].nth < q[i + 1].nth
    BY <1>1 DEF Follows
  <2>1. i + 1 \in 1 .. Len(q)
    BY <1>1
  <2>2. q[i + 1].nth > n
    BY <2>1 DEF Follows
  <2>3. \A j \in 1 .. i - 1 : q[j + 1].to = c => q[j + 1].nth < q[i + 1].nth
    BY <2>1 DEF Follows
  <2>4. ASSUME q[i + 1].nth /= n + 1
        PROVE  \E j \in 1 .. i - 1 : q[j + 1].to = c /\ q[j + 1].nth = q[i + 1].nth - 1
    <3>1. PICK j \in 1 .. (i + 1) - 1 : q[j].to = c /\ q[j].nth = q[i + 1].nth - 1
      BY <2>1, <2>4 DEF Follows
    <3>2. j - 1 \in 1 .. i - 1 /\ (j - 1) + 1 = j
      BY <3>1, <1>1, <1>3
    <3> QED
      BY <3>1, <3>2
  <2> QED
    BY <2>2, <2>3, <2>4
<1>4. ASSUME Head(q).to = c PROVE Head(q).nth = n + 1 /\ Follows(Tail(q), c, n + 1)
  <2>1. q[1].to = c /\ 1 \in 1 .. Len(q)
    BY <1>1, <1>4
  <2>2. q[1].nth = n + 1
    BY <2>1 DEF Follows
  <2> SUFFICES ASSUME NEW i \in 1 .. Len(q) - 1, q[i + 1].to = c
               PROVE  /\ q[i + 1].nth > n + 1
                      /\ \/ q[i + 1].nth = n + 1 + 1
                         \/ \E j \in 1 .. i - 1 : q[j + 1].to = c /\ q[j + 1].nth = q[i + 1].nth - 1
                      /\ \A j \in 1 .. i - 1 : q[j + 1].to = c => q[j + 1].nth < q[i + 1].nth
    BY <1>1, <2>2 DEF Follows
  <2>3. i + 1 \in 1 .. Len(q) /\ 1 \in 1 .. (i + 1) - 1
    BY <1>1
  <2>4. q[i + 1].nth > n + 1
    BY <2>1, <2>2, <2>3 DEF Follows
  <2>5. \A j \in 1 .. i - 1 : q[j + 1].to = c => q[j + 1].nth < q[i + 1].nth
    BY <2>3 DEF Follows
  <2>6. ASSUME q[i + 1].nth /= n + 1 + 1
        PROVE  \E j \in 1 .. i - 1 : q[j + 1].to = c /\ q[j + 1].nth = q[i + 1].nth - 1
    <3>1. PICK j \in 1 .. (i + 1) - 1 : q[j].to = c /\ q[j].nth = q[i + 1].nth - 1
      BY <2>3, <2>4 DEF Follows
    <3>2. j /= 1
      BY <3>1, <2>2, <2>6, <2>3, <1>2
    <3>3. j - 1 \in 1 .. i - 1 /\ (j - 1) + 1 = j
      BY <3>1, <3>2, <1>1
    <3> QED
      BY <3>1, <3>3
  <2> QED
    BY <2>4, <2>5, <2>6
<1> QED
  BY <1>3, <1>4

(* The queue still ends with the m-th answer when its first is taken.       *)
LEMMA UpToTail ==
    ASSUME NEW q \in Seq(Frames), q /= <<>>, NEW c \in Calls, NEW n \in Nat, NEW m \in Nat,
           Follows(q, c, n), UpTo(q, c, n, m)
    PROVE  /\ Head(q).to /= c => UpTo(Tail(q), c, n, m)
           /\ Head(q).to = c => UpTo(Tail(q), c, n + 1, m)
<1>1. Len(q) \in Nat \ {0} /\ Head(q) = q[1] /\ Len(Tail(q)) = Len(q) - 1
      /\ \A i \in 1 .. Len(q) - 1 : Tail(q)[i] = q[i + 1]
  BY EmptySeq, LenProperties, HeadTailProperties
<1>2. \A i \in 1 .. Len(q) - 1 : Tail(q)[i].to = c => Tail(q)[i].nth <= m
  BY <1>1 DEF UpTo
<1>3. ASSUME NEW i \in 1 .. Len(q), i /= 1, q[i].to = c, q[i].nth = m
      PROVE  \E j \in 1 .. Len(Tail(q)) : Tail(q)[j].to = c /\ Tail(q)[j].nth = m
  <2>1. i - 1 \in 1 .. Len(q) - 1 /\ Tail(q)[i - 1] = q[i]
    BY <1>1, <1>3
  <2> QED
    BY <2>1, <1>1, <1>3
<1>4. ASSUME Head(q).to /= c PROVE UpTo(Tail(q), c, n, m)
  <2>1. \A i \in 1 .. Len(q) : q[i].to = c => i /= 1
    BY <1>1, <1>4
  <2> QED
    BY <1>1, <1>2, <1>3, <2>1 DEF UpTo
<1>5. ASSUME Head(q).to = c PROVE UpTo(Tail(q), c, n + 1, m)
  <2>1. q[1].nth = n + 1 /\ 1 \in 1 .. Len(q) /\ q[1].to = c
    BY <1>1, <1>5, FollowsTail
  <2>2. n + 1 <= m
    BY <2>1 DEF UpTo
  <2>3. ASSUME n + 1 /= m
        PROVE  \E j \in 1 .. Len(Tail(q)) : Tail(q)[j].to = c /\ Tail(q)[j].nth = m
    <3>1. PICK i \in 1 .. Len(q) : q[i].to = c /\ q[i].nth = m
      BY <2>2 DEF UpTo
    <3> QED
      BY <3>1, <2>1, <2>3, <1>3
  <2> QED
    BY <1>1, <1>2, <2>2, <2>3 DEF UpTo
<1> QED
  BY <1>4, <1>5

(* An answer that is put at the end is the next one.                        *)
LEMMA FollowsAppend ==
    ASSUME NEW q \in Seq(Frames), NEW e \in Frames, NEW c \in Calls, NEW n \in Nat, NEW m \in Nat,
           Follows(q, c, n), e.to = c => UpTo(q, c, n, m) /\ e.nth = m + 1
    PROVE  /\ Follows(Append(q, e), c, n)
           /\ e.to = c => UpTo(Append(q, e), c, n, m + 1)
<1> DEFINE p == Append(q, e)
<1>1. Len(q) \in Nat /\ Len(p) = Len(q) + 1 /\ p[Len(q) + 1] = e
      /\ \A i \in 1 .. Len(q) : p[i] = q[i]
  BY LenProperties, AppendProperties
<1> HIDE DEF p
<1>2. ASSUME NEW i \in 1 .. Len(q), p[i].to = c
      PROVE  /\ p[i].nth > n
             /\ p[i].nth = n + 1 \/ \E j \in 1 .. i - 1 : p[j].to = c /\ p[j].nth = p[i].nth - 1
             /\ \A j \in 1 .. i - 1 : p[j].to = c => p[j].nth < p[i].nth
  <2>1. \A j \in 1 .. i : p[j] = q[j]
    BY <1>1
  <2> QED
    BY <1>1, <1>2, <2>1 DEF Follows
<1>3. ASSUME e.to = c
      PROVE  /\ e.nth > n
             /\ e.nth = n + 1 \/ \E j \in 1 .. Len(q) : p[j].to = c /\ p[j].nth = e.nth - 1
             /\ \A j \in 1 .. Len(q) : p[j].to = c => p[j].nth < e.nth
  <2>1. UpTo(q, c, n, m) /\ e.nth = m + 1
    BY <1>3
  <2>2. \A j \in 1 .. Len(q) : q[j].to = c => q[j].nth <= m /\ q[j].nth \in Nat
    BY <2>1, InQueue DEF UpTo
  <2>3. n <= m /\ (n = m \/ \E j \in 1 .. Len(q) : q[j].to = c /\ q[j].nth = m)
    BY <2>1 DEF UpTo
  <2> QED
    BY <2>1, <2>2, <2>3, <1>1
<1>4. Follows(p, c, n)
  <2> SUFFICES ASSUME NEW i \in 1 .. Len(p), p[i].to = c
      PROVE  /\ p[i].nth > n
             /\ p[i].nth = n + 1 \/ \E j \in 1 .. i - 1 : p[j].to = c /\ p[j].nth = p[i].nth - 1
             /\ \A j \in 1 .. i - 1 : p[j].to = c => p[j].nth < p[i].nth
    BY DEF Follows
  <2>1. CASE i \in 1 .. Len(q)
    BY <2>1, <1>2
  <2>2. CASE i = Len(q) + 1
    BY <2>2, <1>1, <1>3
  <2> QED
    BY <2>1, <2>2, <1>1
<1>5. ASSUME e.to = c PROVE UpTo(p, c, n, m + 1)
  <2>1. n <= m + 1
    BY <1>5 DEF UpTo
  <2>2. \A i \in 1 .. Len(q) : q[i].to = c => q[i].nth <= m + 1
    BY <1>5, InQueue DEF UpTo
  <2>3. Len(q) + 1 \in 1 .. Len(p)
    BY <1>1
  <2> QED
    BY <2>1, <2>2, <2>3, <1>1, <1>5 DEF UpTo
<1> QED
  BY <1>4, <1>5 DEF p

(* An answer to somebody else changes nothing for c.                        *)
LEMMA UpToAppendOther ==
    ASSUME NEW q \in Seq(Frames), NEW e \in Frames, NEW c \in Calls, NEW n \in Nat, NEW m \in Nat,
           UpTo(q, c, n, m), e.to /= c
    PROVE  UpTo(Append(q, e), c, n, m)
<1> DEFINE p == Append(q, e)
<1>1. Len(q) \in Nat /\ Len(p) = Len(q) + 1 /\ p[Len(q) + 1] = e
      /\ \A i \in 1 .. Len(q) : p[i] = q[i]
  BY LenProperties, AppendProperties
<1> HIDE DEF p
<1>2. \A i \in 1 .. Len(p) : p[i].to = c => i \in 1 .. Len(q)
  BY <1>1
<1>3. UpTo(p, c, n, m)
  BY <1>1, <1>2 DEF UpTo
<1> QED
  BY <1>3 DEF p

(* What is left of the queue when the wire is lost still follows.           *)
LEMMA FollowsPrefix ==
    ASSUME NEW q, NEW p, NEW c, NEW n, Len(p) \in Nat, Len(q) \in Nat, Len(p) <= Len(q),
           \A i \in 1 .. Len(p) : q[i] = p[i], Follows(q, c, n)
    PROVE  Follows(p, c, n)
<1> SUFFICES ASSUME NEW i \in 1 .. Len(p), p[i].to = c
             PROVE  /\ p[i].nth > n
                    /\ p[i].nth = n + 1
                       \/ \E j \in 1 .. i - 1 : p[j].to = c /\ p[j].nth = p[i].nth - 1
                    /\ \A j \in 1 .. i - 1 : p[j].to = c => p[j].nth < p[i].nth
  BY DEF Follows
<1>1. i \in 1 .. Len(q) /\ q[i] = p[i] /\ \A j \in 1 .. i - 1 : q[j] = p[j]
  OBVIOUS
<1>2. /\ q[i].nth > n
      /\ q[i].nth = n + 1 \/ \E j \in 1 .. i - 1 : q[j].to = c /\ q[j].nth = q[i].nth - 1
      /\ \A j \in 1 .. i - 1 : q[j].to = c => q[j].nth < q[i].nth
  BY <1>1 DEF Follows
<1> QED
  BY <1>1, <1>2

-----------------------------------------------------------------------------
(* The types.                                                               *)

(* The invariant holds at the start.                                        *)
LEMMA Initially == Init => IInv
<1> SUFFICES ASSUME Init PROVE IInv
  OBVIOUS
<1> USE DEF Init
<1>1. Envelope(None, "message", 0, 0) \in Frames
  BY DEF Envelope, Frames, Bodies, None
<1>2. Typed
  <2>1. errored \in [Calls -> BOOLEAN]
    BY Zenon
  <2>2. filter \in Filters
    BY FilterFacts
  <2>3. /\ outgoing \in Seq(Calls) /\ incoming \in Seq(Frames) /\ wireIn \in Seq(Frames)
        /\ inbox \in [Calls -> Seq(Frames)]
    BY EmptySeq
  <2> QED
    BY <2>1, <2>2, <2>3 DEF Typed
<1>3. Len(incoming) = 0 /\ Queue = <<>> /\ Len(Queue) = 0 /\ filter.at = "idle" /\ filter.held = None
  BY DEF Queue, Idle, Doing
<1>4. EndInv
  BY <1>3, BoundsAssumption DEF EndInv, Over
<1>5. FrameInv /\ PlaceInv
  BY <1>3 DEF FrameInv, PlaceInv, None
<1>6. InboxInv /\ RequestInv
  BY CallsAssumption DEF InboxInv, RequestInv, Calls
<1>7. EarlyInv
  BY DEF EarlyInv, Calls
<1>8. HeldInv /\ FlowInv /\ ToldInv
  BY DEF HeldInv, FlowInv, ToldInv, Listening, Calls
<1>9. DoneInv
  BY BoundsAssumption DEF DoneInv
<1> QED
  BY <1>2, <1>4, <1>5, <1>6, <1>7, <1>8, <1>9 DEF IInv

(* Every step keeps the types.                                              *)
LEMMA TypedStep == Typed /\ [Next]_vars => Typed'
<1> SUFFICES ASSUME Typed, [Next]_vars PROVE Typed'
  OBVIOUS
<1> USE DEF Typed, sharedVars, callVars, wireVars
<1>1. CASE UNCHANGED vars
  BY <1>1 DEF vars
<1>2. ASSUME NEW c \in Calls, Lookup(c) PROVE Typed'
  BY <1>2 DEF Lookup, Goto
<1>3. ASSUME NEW c \in Calls, Insert(c) PROVE Typed'
  <2>1. CASE c \in Requests
    BY <1>3, <2>1 DEF Insert, Goto
  <2>2. CASE c \notin Requests
    <3>1. c \in Streams
      BY <2>2 DEF Calls
    <3> QED
      BY <1>3, <2>2, <3>1 DEF Insert, Goto
  <2> QED
    BY <2>1, <2>2
<1>4. ASSUME NEW c \in Calls, Enqueue(c) PROVE Typed'
  <2>1. Append(outgoing, c) \in Seq(Calls)
    BY AppendProperties
  <2>2. CASE io /= "ended"
    BY <1>4, <2>1, <2>2 DEF Enqueue, Goto
  <2>3. CASE io = "ended"
    BY <1>4, <2>3 DEF Enqueue, Goto
  <2> QED
    BY <2>2, <2>3
<1>5. ASSUME NEW c \in Calls, PollRequest(c) PROVE Typed'
  <2>1. <<>> \in Seq(Frames) /\ (inbox[c] /= <<>> => Head(inbox[c]).place \in Nat)
    BY InQueue, FrameFacts, EmptySeq
  <2> QED
    BY <1>5, <2>1 DEF PollRequest, Goto
<1>6. ASSUME NEW c \in Calls, OpenStream(c) \/ StreamEnds(c) PROVE Typed'
  BY <1>6 DEF OpenStream, StreamEnds, Goto
<1>7. ASSUME NEW c \in Calls, PollStream(c) PROVE Typed'
  <2>1. inbox[c] /= <<>>
    BY <1>7 DEF PollStream
  <2>2. Tail(inbox[c]) \in Seq(Frames) /\ Head(inbox[c]).place \in Nat
    BY <2>1, InQueue, FrameFacts
  <2>3. inbox' \in [Calls -> Seq(Frames)] /\ latest' \in Nat /\ got' \in [Calls -> Nat]
    BY <1>7, <2>2 DEF PollStream
  <2>4. streams' \subseteq Streams
    BY <1>7 DEF PollStream
  <2>5. errored' \in [Calls -> BOOLEAN]
    BY <1>7 DEF PollStream
  <2> QED
    BY <1>7, <2>3, <2>4, <2>5 DEF PollStream
<1>8. ASSUME NEW c \in Calls, DropRequest(c) \/ AbandonStream(c) \/ DropStream(c) PROVE Typed'
  <2>1. <<>> \in Seq(Frames)
    BY EmptySeq
  <2>2. CASE DropRequest(c) \/ AbandonStream(c)
    BY <2>1, <2>2 DEF DropRequest, AbandonStream, Goto
  <2>3. CASE DropStream(c)
    BY <2>1, <2>3 DEF DropStream, Goto
  <2> QED
    BY <1>8, <2>2, <2>3
<1>9. ASSUME NEW t \in Calls \union {None}, NEW b \in Bodies, NEW n \in Nat, Put(t, b, n)
      PROVE  sent' \in Nat /\ wireIn' \in Seq(Frames)
  <2>1. sent + 1 \in Nat
    OBVIOUS
  <2>2. Envelope(t, b, sent + 1, n) \in Frames
    BY <2>1, FrameFacts
  <2>3. Append(wireIn, Envelope(t, b, sent + 1, n)) \in Seq(Frames)
    BY <2>2, InQueue
  <2> QED
    BY <1>9, <2>1, <2>3 DEF Put
<1>10. ASSUME NEW c \in Calls, OtherResponds(c) PROVE Typed'
  <2>1. Put(c, "answer", 1)
    BY <1>10 DEF OtherResponds
  <2>2. sent' \in Nat /\ wireIn' \in Seq(Frames)
    BY <1>9, <2>1 DEF Bodies
  <2> QED
    BY <1>10, <2>2 DEF OtherResponds
<1>11. ASSUME NEW c \in Calls, OtherStreams(c) PROVE Typed'
  <2>1. PICK b \in Bodies : Put(c, b, served[c] + 1)
    BY <1>11 DEF OtherStreams, Bodies
  <2>2. sent' \in Nat /\ wireIn' \in Seq(Frames)
    BY <1>9, <2>1
  <2>3. served' \in [Calls -> Nat]
    <3>1. served[c] + 1 \in Nat /\ StreamLength + 1 \in Nat
      BY BoundsAssumption
    <3>2. \E n \in Nat : served' = [served EXCEPT ![c] = n]
      BY <1>11, <3>1 DEF OtherStreams
    <3> QED
      BY <3>2
  <2> QED
    BY <1>11, <2>2, <2>3 DEF OtherStreams
<1>12. CASE OtherSends
  <2>1. sent' \in Nat /\ wireIn' \in Seq(Frames)
    BY <1>9, <1>12 DEF OtherSends, Bodies
  <2> QED
    BY <1>12, <2>1 DEF OtherSends
<1>13. CASE WriteOutgoing
  BY <1>13 DEF WriteOutgoing
<1>14. CASE IoError \/ IoClosed \/ ParkedTimeout
  BY <1>14 DEF IoError, IoClosed, ParkedTimeout
<1>15. CASE ReadMessage
  BY <1>15 DEF ReadMessage
<1>16. CASE EndResponses \/ EndEntry \/ Disconnect
  BY <1>16 DEF EndResponses, EndEntry, Disconnect
<1>17. CASE EndStreams
  <2>1. \A c \in Calls : Append(inbox[c], Envelope(c, Closed, 0, 0)) \in Seq(Frames)
    BY FrameFacts, InQueue DEF Bodies
  <2> QED
    BY <1>17, <2>1 DEF EndStreams
<1>18. CASE EndQueues \/ LinkBreaks
  BY <1>18, EmptySeq DEF EndQueues, LinkBreaks
<1>19. CASE HandOut
  <2>1. Head(incoming).place \in Nat /\ Tail(incoming) \in Seq(Frames)
    BY <1>19, InQueue, FrameFacts DEF HandOut
  <2> QED
    BY <1>19, <2>1 DEF HandOut, Unpark
<1>20. CASE TakeResponse
  <2>1. Head(incoming) \in Frames /\ Tail(incoming) \in Seq(Frames)
    BY <1>20, InQueue DEF TakeResponse
  <2>2. filter' \in Filters
    BY <1>20, <2>1, FilterFacts DEF TakeResponse
  <2> QED
    BY <1>20, <2>1, <2>2 DEF TakeResponse, Unpark
<1>21. CASE MatchStream
  <2>1. filter' \in Filters
    <3>1. /\ Idle \in Filters
          /\ \A h \in {None, "response", "stream"} :
                Doing("sending", filter.env, h) \in Filters
      BY FilterFacts
    <3> QED
      BY <1>21, <3>1 DEF MatchStream
  <2> QED
    BY <1>21, <2>1 DEF MatchStream
<1>22. CASE Deliver
  <2>1. filter' \in Filters
    <3>1. Idle \in Filters /\ Doing("waiting", filter.env, filter.held) \in Filters
      BY FilterFacts
    <3>2. filter' = Idle \/ filter' = Doing("waiting", filter.env, filter.held)
      BY <1>22 DEF Deliver
    <3> QED
      BY <3>1, <3>2
  <2>2. inbox' \in [Calls -> Seq(Frames)]
    <3>1. \A c \in Calls : Append(inbox[c], filter.env) \in Seq(Frames)
      BY FilterFacts, InQueue
    <3>2. inbox' = inbox \/ inbox' = [inbox EXCEPT ![filter.env.to] = Append(@, filter.env)]
      BY <1>22 DEF Deliver
    <3>3. CASE filter.env.to \in Calls
      BY <3>1, <3>2, <3>3
    <3>4. CASE filter.env.to \notin Calls
      BY <3>2, <3>4
    <3> QED
      BY <3>3, <3>4
  <2> QED
    BY <1>22, <2>1, <2>2 DEF Deliver
<1>23. CASE Resume
  BY <1>23, FilterFacts DEF Resume
<1> QED
  BY <1>1, <1>2, <1>3, <1>4, <1>5, <1>6, <1>7, <1>8, <1>10, <1>11, <1>12, <1>13, <1>14,
     <1>15, <1>16, <1>17, <1>18, <1>19, <1>20, <1>21, <1>22, <1>23 DEF Next

-----------------------------------------------------------------------------
(* The queue from the socket to the filter.                                 *)

(* Taking the first envelope of a queue moves the others up.                *)
LEMMA TakeFacts ==
    ASSUME NEW q \in Seq(Frames), q /= <<>>
    PROVE  /\ Len(q) \in Nat \ {0} /\ Len(Tail(q)) = Len(q) - 1
           /\ 1 \in 1 .. Len(q) /\ Head(q) = q[1]
           /\ \A i \in 1 .. Len(Tail(q)) : i + 1 \in 2 .. Len(q) /\ Tail(q)[i] = q[i + 1]
<1>1. Len(q) \in Nat \ {0} /\ Head(q) = q[1] /\ Len(Tail(q)) = Len(q) - 1
      /\ \A i \in 1 .. Len(q) - 1 : Tail(q)[i] = q[i + 1]
  BY EmptySeq, LenProperties, HeadTailProperties
<1> QED
  BY <1>1

(* Putting an envelope in a queue leaves the others in place.               *)
LEMMA PutFacts ==
    ASSUME NEW q \in Seq(Frames), NEW e \in Frames
    PROVE  /\ Len(q) \in Nat /\ Len(Append(q, e)) = Len(q) + 1
           /\ Append(q, e)[Len(q) + 1] = e
           /\ \A i \in 1 .. Len(q) : Append(q, e)[i] = q[i]
  BY LenProperties, AppendProperties

(* What an action of handle_io, of the filter or of the other end does to   *)
(* the queue.                                                               *)
LEMMA QueueSteps ==
    ASSUME Typed
    PROVE  /\ Queue \in Seq(Frames)
           /\ ReadMessage => Queue' = Queue
           /\ HandOut \/ TakeResponse =>
                 Queue /= <<>> /\ Head(incoming) = Head(Queue) /\ Queue' = Tail(Queue)
           /\ \A t \in Calls \union {None}, b \in Bodies, n \in Nat :
                 Put(t, b, n) /\ UNCHANGED incoming =>
                    /\ Envelope(t, b, sent + 1, n) \in Frames
                    /\ Queue' = Append(Queue, Envelope(t, b, sent + 1, n))
           /\ LinkBreaks \/ EndQueues =>
                 /\ Len(Queue') \in Nat /\ Len(Queue') <= Len(Queue)
                 /\ \A i \in 1 .. Len(Queue') : Queue[i] = Queue'[i]
<1>1. incoming \in Seq(Frames) /\ wireIn \in Seq(Frames) /\ sent + 1 \in Nat
  BY DEF Typed
<1>2. Queue \in Seq(Frames)
  BY <1>1, ConcatProperties DEF Queue
<1>3. ASSUME ReadMessage PROVE Queue' = Queue
  <2>1. wireIn /= <<>> /\ wireIn' = Tail(wireIn) /\ incoming' = Append(incoming, Head(wireIn))
    BY <1>3 DEF ReadMessage
  <2> QED
    BY <2>1, <1>1, QueueRead DEF Queue
<1>4. ASSUME HandOut \/ TakeResponse
      PROVE  Queue /= <<>> /\ Head(incoming) = Head(Queue) /\ Queue' = Tail(Queue)
  <2>1. incoming /= <<>> /\ incoming' = Tail(incoming) /\ wireIn' = wireIn
    BY <1>4 DEF HandOut, TakeResponse, wireVars
  <2> QED
    BY <2>1, <1>1, QueueTake DEF Queue
<1>5. ASSUME NEW t \in Calls \union {None}, NEW b \in Bodies, NEW n \in Nat,
             Put(t, b, n), UNCHANGED incoming
      PROVE  /\ Envelope(t, b, sent + 1, n) \in Frames
             /\ Queue' = Append(Queue, Envelope(t, b, sent + 1, n))
  <2>1. Envelope(t, b, sent + 1, n) \in Frames
    BY <1>1, FrameFacts
  <2>2. wireIn' = Append(wireIn, Envelope(t, b, sent + 1, n)) /\ incoming' = incoming
    BY <1>5 DEF Put
  <2> QED
    BY <2>1, <2>2, <1>1, QueuePut DEF Queue
<1>6. ASSUME LinkBreaks \/ EndQueues
      PROVE  /\ Len(Queue') \in Nat /\ Len(Queue') <= Len(Queue)
             /\ \A i \in 1 .. Len(Queue') : Queue[i] = Queue'[i]
  <2>1. wireIn' = <<>> /\ incoming' = incoming
    BY <1>6 DEF LinkBreaks, EndQueues, sharedVars
  <2>2. Queue' = incoming
    BY <2>1, <1>1, QueueCut DEF Queue
  <2> QED
    BY <2>2, <1>1, QueueCut DEF Queue
<1> QED
  BY <1>2, <1>3, <1>4, <1>5, <1>6

(* The maps and the capacity of the queue.                                  *)
LEMMA EndStep == Typed /\ EndInv /\ [Next]_vars => EndInv'
<1> SUFFICES ASSUME Typed, EndInv, [Next]_vars PROVE EndInv'
  OBVIOUS
<1> USE DEF EndInv, Over, sharedVars
<1>1. Len(incoming) \in Nat
  BY InQueue DEF Typed
<1>2. CASE UNCHANGED <<taken, io, incoming>> /\ ("streams" \in taken => streams' \subseteq streams)
  BY <1>2
<1>3. CASE IoError \/ IoClosed \/ ParkedTimeout
  BY <1>3 DEF IoError, IoClosed, ParkedTimeout
<1>4. CASE ReadMessage
  <2>1. Len(incoming') = Len(incoming) + 1
    BY <1>4, InQueue, PutFacts DEF ReadMessage, Typed
  <2> QED
    BY <1>1, <1>4, <2>1, BoundsAssumption DEF ReadMessage
<1>5. CASE EndResponses \/ EndStreams
  BY <1>5 DEF EndResponses, EndStreams
<1>6. CASE EndQueues
  BY <1>6 DEF EndQueues
<1>7. CASE HandOut \/ TakeResponse
  <2>1. Len(incoming') = Len(incoming) - 1
    BY <1>7, TakeFacts DEF HandOut, TakeResponse, Typed
  <2>2. io' = Unpark /\ UNCHANGED <<taken, streams>>
    BY <1>7 DEF HandOut, TakeResponse
  <2> QED
    BY <1>1, <2>1, <2>2, BoundsAssumption DEF Unpark
<1> QED
  BY <1>2, <1>3, <1>4, <1>5, <1>6, <1>7
  DEF Next, vars, Lookup, Insert, Enqueue, PollRequest, OpenStream, PollStream, StreamEnds,
      DropRequest, AbandonStream, DropStream, OtherResponds, OtherStreams, WriteOutgoing,
      EndEntry, MatchStream, Deliver, Resume, Disconnect, OtherSends, LinkBreaks

-----------------------------------------------------------------------------
(* What is on the way is sound and in order.                                *)

(* An idle filter holds nothing.                                            *)
LEMMA IdleFacts == Idle.at = "idle" /\ Idle.held = None
  BY DEF Idle, Doing

(* What the filter is doing, with which envelope and which sender.          *)
LEMMA DoingFacts ==
    ASSUME NEW a, NEW e, NEW h
    PROVE  Doing(a, e, h).at = a /\ Doing(a, e, h).env = e /\ Doing(a, e, h).held = h
  BY DEF Doing

(* The fields of an envelope.                                               *)
LEMMA EnvelopeFacts ==
    ASSUME NEW t, NEW b, NEW p, NEW n
    PROVE  /\ Envelope(t, b, p, n).to = t /\ Envelope(t, b, p, n).body = b
           /\ Envelope(t, b, p, n).place = p /\ Envelope(t, b, p, n).nth = n
  BY DEF Envelope

(* What never comes back.                                                   *)
LEMMA Monotone ==
    ASSUME Typed, [Next]_vars
    PROVE  /\ asked \subseteq asked'
           /\ taken \subseteq taken'
           /\ Over => Over'
           /\ entry' => entry
           /\ link' = "up" => link = "up"
           /\ io' /= "ended" => io /= "ended"
<1> DEFINE goal == /\ asked \subseteq asked' /\ taken \subseteq taken' /\ (Over => Over')
                   /\ (entry' => entry) /\ (link' = "up" => link = "up")
                   /\ (io' /= "ended" => io /= "ended")
<1> USE DEF sharedVars, wireVars
<1>1. CASE UNCHANGED <<asked, taken, io, entry, link>>
  BY <1>1 DEF Over
<1>2. CASE WriteOutgoing
  BY <1>2 DEF WriteOutgoing, Over
<1>3. CASE IoError \/ IoClosed \/ ParkedTimeout \/ ReadMessage
  BY <1>3 DEF IoError, IoClosed, ParkedTimeout, ReadMessage, Over
<1>4. CASE EndResponses \/ EndStreams \/ EndEntry \/ EndQueues
  BY <1>4 DEF EndResponses, EndStreams, EndEntry, EndQueues, Over
<1>5. CASE HandOut \/ TakeResponse
  BY <1>5 DEF HandOut, TakeResponse, Unpark, Over
<1>6. CASE Disconnect \/ LinkBreaks
  BY <1>6 DEF Disconnect, LinkBreaks, Over
<1>7. CASE OtherSends \/ \E c \in Calls : OtherResponds(c) \/ OtherStreams(c)
  BY <1>1, <1>7 DEF OtherSends, OtherResponds, OtherStreams
<1>8. CASE MatchStream \/ Deliver \/ Resume
  BY <1>1, <1>8 DEF MatchStream, Deliver, Resume
<1>9. ASSUME NEW c \in Calls,
             \/ Lookup(c) \/ Insert(c) \/ Enqueue(c) \/ PollRequest(c) \/ OpenStream(c)
             \/ PollStream(c) \/ StreamEnds(c) \/ DropRequest(c) \/ AbandonStream(c) \/ DropStream(c)
      PROVE  goal
  BY <1>1, <1>9 DEF Lookup, Insert, Enqueue, PollRequest, OpenStream, PollStream, StreamEnds,
                    DropRequest, AbandonStream, DropStream
<1>10. CASE UNCHANGED vars
  BY <1>1, <1>10 DEF vars
<1> QED
  BY <1>2, <1>3, <1>4, <1>5, <1>6, <1>7, <1>8, <1>9, <1>10 DEF Next

(* Only a call itself moves on, by one of these actions.                    *)
Moves(c) ==
    \/ Lookup(c) \/ Insert(c) \/ Enqueue(c) \/ PollRequest(c) \/ OpenStream(c)
    \/ StreamEnds(c) \/ DropRequest(c) \/ AbandonStream(c) \/ DropStream(c)

(* A call goes on only by a step of its own.                                *)
LEMMA OnlyMoves ==
    ASSUME Typed, [Next]_vars, NEW c \in Calls, pc'[c] /= pc[c]
    PROVE  Moves(c)
<1>1. ASSUME NEW d \in Calls, Moves(d) PROVE Moves(c)
  <2>1. \E to : pc' = [pc EXCEPT ![d] = to]
    BY <1>1 DEF Moves, Lookup, Insert, Enqueue, PollRequest, OpenStream, StreamEnds,
                DropRequest, AbandonStream, DropStream, Goto
  <2>2. d = c
    BY <2>1 DEF Typed
  <2> QED
    BY <1>1, <2>2
<1>2. pc' = pc \/ \E d \in Calls : Moves(d)
  BY DEF Moves, Next, vars, callVars, PollStream, OtherResponds, OtherStreams, WriteOutgoing,
         IoError, IoClosed, ReadMessage, ParkedTimeout, EndResponses, EndStreams, EndEntry,
         EndQueues, HandOut, TakeResponse, MatchStream, Deliver, Resume, Disconnect,
         OtherSends, LinkBreaks
<1> QED
  BY <1>1, <1>2

(* What the other end puts on the wire, by whichever of its actions.        *)
LEMMA PutSteps ==
    ASSUME Typed, [Next]_vars, OtherSends \/ \E c \in Calls : OtherResponds(c) \/ OtherStreams(c)
    PROVE  \E t \in Calls \union {None}, b \in Bodies, n \in Nat :
              /\ Put(t, b, n) /\ UNCHANGED <<incoming, filter, asked>>
              /\ Queue' = Append(Queue, Envelope(t, b, sent + 1, n))
              /\ Envelope(t, b, sent + 1, n) \in Frames
              /\ Sound(Envelope(t, b, sent + 1, n), asked)
              /\ t \in Streams => /\ n = served[t] + 1 /\ served[t] <= StreamLength
                                  /\ served'[t] = n \/ served'[t] > StreamLength
              /\ \A c \in Streams : c /= t => served'[c] = served[c]
<1> USE EnvelopeFacts
<1>1. CASE OtherSends
  <2>1. Put(None, "message", 0) /\ UNCHANGED <<incoming, filter, asked, served>>
    BY <1>1 DEF OtherSends, sharedVars
  <2>2. Sound(Envelope(None, "message", sent + 1, 0), asked)
    BY CallsAssumption DEF Sound, None
  <2> QED
    BY <2>1, <2>2, QueueSteps, CallsAssumption DEF Bodies, None
<1>2. ASSUME NEW c \in Calls, OtherResponds(c)
      PROVE  /\ Put(c, "answer", 1) /\ UNCHANGED <<incoming, filter, asked>>
             /\ Queue' = Append(Queue, Envelope(c, "answer", sent + 1, 1))
             /\ Envelope(c, "answer", sent + 1, 1) \in Frames
             /\ Sound(Envelope(c, "answer", sent + 1, 1), asked)
             /\ c \notin Streams
             /\ \A d \in Streams : served'[d] = served[d]
  <2>1. Put(c, "answer", 1) /\ UNCHANGED <<incoming, filter, asked>> /\ c \in asked
        /\ c \in Requests
    BY <1>2 DEF OtherResponds, sharedVars
  <2>2. c \notin Streams /\ c /= None
    BY <2>1, CallsAssumption DEF None
  <2>3. \A d \in Streams : served'[d] = served[d]
    BY <1>2, <2>2 DEF OtherResponds, Typed, Calls
  <2>4. Sound(Envelope(c, "answer", sent + 1, 1), asked)
    BY <2>1, <2>2 DEF Sound
  <2> QED
    BY <2>1, <2>2, <2>3, <2>4, QueueSteps DEF Bodies
<1>3. ASSUME NEW c \in Calls, OtherStreams(c)
      PROVE  \E b \in Bodies, n \in Nat :
               /\ Put(c, b, n) /\ UNCHANGED <<incoming, filter, asked>>
               /\ Queue' = Append(Queue, Envelope(c, b, sent + 1, n))
               /\ Envelope(c, b, sent + 1, n) \in Frames
               /\ Sound(Envelope(c, b, sent + 1, n), asked)
               /\ n = served[c] + 1 /\ served[c] <= StreamLength
               /\ served'[c] = n \/ served'[c] > StreamLength
               /\ \A d \in Streams : d /= c => served'[d] = served[d]
  <2>1. UNCHANGED <<incoming, filter, asked>> /\ c \in asked /\ c \in Streams
        /\ served[c] <= StreamLength /\ served[c] \in Nat
    BY <1>3 DEF OtherStreams, sharedVars, Typed
  <2>2. c \notin Requests /\ c /= None
    BY <2>1, CallsAssumption DEF None
  <2>3. PICK b \in Bodies : /\ Put(c, b, served[c] + 1)
                            /\ \/ b = "item" /\ served[c] < StreamLength
                               \/ b = "end" /\ served[c] = StreamLength
                               \/ b = "error"
    BY <1>3, <2>1, BoundsAssumption DEF OtherStreams, Bodies
  <2>4. Sound(Envelope(c, b, sent + 1, served[c] + 1), asked)
    BY <2>1, <2>2, <2>3, BoundsAssumption DEF Sound
  <2>5. served'[c] = served[c] + 1 \/ served'[c] > StreamLength
    BY <1>3, BoundsAssumption DEF OtherStreams, Typed
  <2>6. \A d \in Streams : d /= c => served'[d] = served[d]
    BY <1>3 DEF OtherStreams, Typed, Calls
  <2>7. served[c] + 1 \in Nat
    BY <2>1
  <2> QED
    BY <2>1, <2>3, <2>4, <2>5, <2>6, <2>7, QueueSteps
<1>4. ASSUME NEW c \in Calls, OtherResponds(c)
      PROVE  1 \in Nat /\ "answer" \in Bodies
  BY DEF Bodies
<1> QED
  BY <1>1, <1>2, <1>3, <1>4

(* What the filter holds came from the queue, and it was put there sound.   *)
LEMMA FrameStep == Typed /\ FrameInv /\ [Next]_vars => FrameInv'
<1> SUFFICES ASSUME Typed, FrameInv, [Next]_vars PROVE FrameInv'
  OBVIOUS
<1> USE DEF sharedVars
<1>1. asked \subseteq asked'
  BY Monotone
<1>2. \A e : Sound(e, asked) => Sound(e, asked')
  BY <1>1 DEF Sound
<1>3. Queue \in Seq(Frames) /\ Len(Queue) \in Nat
  BY QueueSteps, InQueue
<1>4. ASSUME UNCHANGED Queue PROVE \A i \in 1 .. Len(Queue') : Sound(Queue'[i], asked')
  BY <1>2, <1>4 DEF FrameInv
<1>5. CASE UNCHANGED <<incoming, wireIn, filter>>
  <2>1. UNCHANGED Queue
    BY <1>5 DEF Queue
  <2> QED
    BY <1>2, <1>4, <1>5, <2>1 DEF FrameInv
<1>6. CASE ReadMessage
  <2>1. UNCHANGED Queue /\ UNCHANGED filter
    BY <1>6, QueueSteps DEF ReadMessage
  <2> QED
    BY <1>2, <1>4, <2>1 DEF FrameInv
<1>7. ASSUME HandOut \/ TakeResponse
      PROVE  \A i \in 1 .. Len(Queue') : Sound(Queue'[i], asked')
  <2>1. Queue /= <<>> /\ Queue' = Tail(Queue)
    BY <1>7, QueueSteps
  <2> QED
    BY <2>1, <1>2, <1>3, TakeFacts DEF FrameInv
<1>8. CASE HandOut
  <2>1. UNCHANGED filter
    BY <1>8 DEF HandOut
  <2> QED
    BY <2>1, <1>2, <1>7, <1>8 DEF FrameInv
<1>9. CASE TakeResponse
  <2>1. Queue /= <<>> /\ Head(incoming) = Head(Queue)
    BY <1>9, QueueSteps
  <2>2. Sound(Head(Queue), asked')
    BY <2>1, <1>2, <1>3, TakeFacts DEF FrameInv
  <2>3. CASE filter' = Idle
    BY <2>3, <1>7, <1>9, IdleFacts DEF FrameInv, None
  <2>4. CASE filter' /= Idle
    <3>1. /\ filter' = Doing("matching", Head(Queue),
                             IF Head(Queue).to \in responses THEN "response" ELSE None)
          /\ Head(Queue).to /= None
      BY <1>9, <2>1, <2>4 DEF TakeResponse
    <3>2. /\ filter'.at = "matching" /\ filter'.env = Head(Queue)
          /\ filter'.held = IF Head(Queue).to \in responses THEN "response" ELSE None
      BY <3>1, DoingFacts
    <3> QED
      BY <3>1, <3>2, <2>2, <1>7, <1>9 DEF FrameInv, None, Typed
  <2> QED
    BY <2>3, <2>4
<1>10. CASE MatchStream
  <2>1. UNCHANGED Queue /\ filter.at = "matching"
    BY <1>10 DEF MatchStream, Queue, wireVars
  <2>2. CASE filter' = Idle
    BY <2>1, <2>2, <1>4, IdleFacts DEF FrameInv, None
  <2>3. CASE filter' /= Idle
    <3>1. PICK h : /\ filter' = Doing("sending", filter.env, h)
                   /\ \/ h = "response" /\ filter.held = "response"
                      \/ h = "stream" /\ filter.env.to \in streams
      BY <1>10, <2>3 DEF MatchStream
    <3>2. filter'.at = "sending" /\ filter'.env = filter.env /\ filter'.held = h
      BY <3>1, DoingFacts
    <3> QED
      BY <3>1, <3>2, <2>1, <1>2, <1>4 DEF FrameInv, None, Typed
  <2> QED
    BY <2>2, <2>3
<1>11. CASE Deliver
  <2>1. UNCHANGED Queue /\ filter.at = "sending"
    BY <1>11 DEF Deliver, Queue, wireVars
  <2>2. filter' = Idle \/ filter' = Doing("waiting", filter.env, filter.held)
    BY <1>11 DEF Deliver
  <2>3. CASE filter' = Idle
    BY <2>1, <2>3, <1>4, IdleFacts DEF FrameInv, None
  <2>4. CASE filter' = Doing("waiting", filter.env, filter.held)
    <3>1. filter'.at = "waiting" /\ filter'.env = filter.env /\ filter'.held = filter.held
      BY <2>4, DoingFacts
    <3> QED
      BY <3>1, <2>1, <1>2, <1>4 DEF FrameInv
  <2> QED
    BY <2>2, <2>3, <2>4
<1>12. CASE Resume
  <2>1. UNCHANGED Queue /\ filter' = Idle
    BY <1>12 DEF Resume, Queue, wireVars
  <2> QED
    BY <2>1, <1>4, IdleFacts DEF FrameInv, None
<1>13. CASE OtherSends \/ \E c \in Calls : OtherResponds(c) \/ OtherStreams(c)
  <2>1. PICK e \in Frames : UNCHANGED filter /\ Queue' = Append(Queue, e) /\ Sound(e, asked)
    BY <1>13, PutSteps
  <2>2. Len(Queue') = Len(Queue) + 1 /\ Queue'[Len(Queue) + 1] = e
        /\ \A i \in 1 .. Len(Queue) : Queue'[i] = Queue[i]
    BY <2>1, <1>3, PutFacts
  <2>3. \A i \in 1 .. Len(Queue') : Sound(Queue'[i], asked)
    BY <2>1, <2>2, <1>3 DEF FrameInv
  <2> QED
    BY <2>1, <2>3, <1>2 DEF FrameInv
<1>14. CASE LinkBreaks \/ EndQueues
  <2>1. UNCHANGED filter
    BY <1>14 DEF LinkBreaks, EndQueues
  <2>2. \A i \in 1 .. Len(Queue') : i \in 1 .. Len(Queue) /\ Queue'[i] = Queue[i]
    BY <1>3, <1>14, QueueSteps
  <2> QED
    BY <2>1, <2>2, <1>2 DEF FrameInv
<1> QED
  BY <1>5, <1>6, <1>8, <1>9, <1>10, <1>11, <1>12, <1>13, <1>14
  DEF Next, vars, wireVars, Lookup, Insert, Enqueue, PollRequest, OpenStream, PollStream,
      StreamEnds, DropRequest, AbandonStream, DropStream, WriteOutgoing, IoError, IoClosed,
      ParkedTimeout, EndResponses, EndStreams, EndEntry, Disconnect

(* Places never go back, and so neither does what the application gets.     *)
LEMMA PlaceStep ==
    Typed /\ FrameInv /\ PlaceInv /\ InboxInv /\ [Next]_vars => PlaceInv' /\ latest <= latest'
<1> SUFFICES ASSUME Typed, FrameInv, PlaceInv, InboxInv, [Next]_vars
             PROVE  PlaceInv' /\ latest <= latest'
  OBVIOUS
<1> USE DEF sharedVars
<1>1. Queue \in Seq(Frames) /\ Len(Queue) \in Nat /\ latest \in Nat /\ sent \in Nat
      /\ filter.env.place \in Nat /\ \A i \in 1 .. Len(Queue) : Queue[i].place \in Nat
  BY QueueSteps, InQueue, FilterFacts, FrameFacts DEF Typed
<1>2. CASE UNCHANGED <<incoming, wireIn, filter, latest, sent>>
  <2>1. UNCHANGED Queue
    BY <1>2 DEF Queue
  <2> QED
    BY <1>1, <1>2, <2>1 DEF PlaceInv
<1>3. ASSUME UNCHANGED <<incoming, wireIn, filter, sent>>, filter.at /= "idle",
             latest' = filter.env.place \/ latest' = latest
      PROVE  PlaceInv' /\ latest <= latest'
  <2>1. UNCHANGED Queue
    BY <1>3 DEF Queue
  <2> QED
    BY <1>1, <1>3, <2>1 DEF PlaceInv
<1>4. ASSUME NEW c \in Calls, inbox[c] /= <<>>, Head(inbox[c]).body /= Closed \/ c \in Requests
      PROVE  Head(inbox[c]) = filter.env /\ filter.at = "waiting"
  <2>1. 1 \in 1 .. Len(inbox[c]) /\ Head(inbox[c]) = inbox[c][1]
    BY <1>4, TakeFacts DEF Typed
  <2>2. c \in Requests => c \notin Streams
    BY CallsAssumption
  <2> QED
    BY <1>4, <2>1, <2>2 DEF InboxInv
<1>5. ASSUME NEW c \in Calls, PollRequest(c) PROVE PlaceInv' /\ latest <= latest'
  <2>1. UNCHANGED <<incoming, wireIn, filter, sent>> /\ c \in Requests
    BY <1>5 DEF PollRequest, wireVars
  <2>2. CASE inbox[c] = <<>>
    BY <1>2, <1>5, <2>1, <2>2, <1>1 DEF PollRequest
  <2>3. CASE inbox[c] /= <<>>
    <3>1. latest' = Head(inbox[c]).place
      BY <1>5, <2>3 DEF PollRequest
    <3> QED
      BY <1>3, <1>4, <2>1, <2>3, <3>1
  <2> QED
    BY <2>2, <2>3
<1>6. ASSUME NEW c \in Calls, PollStream(c) PROVE PlaceInv' /\ latest <= latest'
  <2>1. UNCHANGED <<incoming, wireIn, filter, sent>> /\ inbox[c] /= <<>>
    BY <1>6 DEF PollStream, wireVars
  <2>2. latest' = IF Head(inbox[c]).body = Closed THEN latest ELSE Head(inbox[c]).place
    BY <1>6 DEF PollStream
  <2>3. CASE Head(inbox[c]).body = Closed
    BY <1>1, <1>2, <2>1, <2>2, <2>3
  <2>4. CASE Head(inbox[c]).body /= Closed
    BY <1>3, <1>4, <2>1, <2>2, <2>4
  <2> QED
    BY <2>3, <2>4
<1>7. CASE ReadMessage
  <2>1. UNCHANGED <<Queue, filter, latest, sent>>
    BY <1>7, QueueSteps DEF ReadMessage, callVars
  <2> QED
    BY <1>1, <2>1 DEF PlaceInv
<1>8. ASSUME HandOut \/ TakeResponse
      PROVE  /\ 1 \in 1 .. Len(Queue) /\ Head(incoming) = Queue[1]
             /\ Len(Queue') = Len(Queue) - 1
             /\ \A i \in 1 .. Len(Queue') : i + 1 \in 2 .. Len(Queue) /\ Queue'[i] = Queue[i + 1]
  <2>1. Queue /= <<>> /\ Head(incoming) = Head(Queue) /\ Queue' = Tail(Queue)
    BY <1>8, QueueSteps
  <2> QED
    BY <2>1, <1>1, TakeFacts
<1>9. CASE HandOut
  <2>1. UNCHANGED <<filter, sent>> /\ filter.at = "idle" /\ latest' = Queue[1].place
    BY <1>8, <1>9 DEF HandOut, wireVars
  <2>2. latest <= latest' /\ latest' <= sent'
    BY <1>1, <1>8, <1>9, <2>1 DEF PlaceInv
  <2>3. \A i \in 1 .. Len(Queue') : latest' <= Queue'[i].place /\ Queue'[i].place <= sent'
    BY <1>1, <1>8, <1>9, <2>1 DEF PlaceInv
  <2>4. \A i, j \in 1 .. Len(Queue') : i <= j => Queue'[i].place <= Queue'[j].place
    BY <1>1, <1>8, <1>9 DEF PlaceInv
  <2> QED
    BY <2>1, <2>2, <2>3, <2>4 DEF PlaceInv
<1>10. CASE TakeResponse
  <2>1. UNCHANGED <<latest, sent>>
    BY <1>10 DEF TakeResponse, wireVars, callVars
  <2>2. \A i \in 1 .. Len(Queue') : latest' <= Queue'[i].place /\ Queue'[i].place <= sent'
    BY <1>1, <1>8, <1>10, <2>1 DEF PlaceInv
  <2>3. \A i, j \in 1 .. Len(Queue') : i <= j => Queue'[i].place <= Queue'[j].place
    BY <1>1, <1>8, <1>10 DEF PlaceInv
  <2>4. CASE filter' = Idle
    BY <1>1, <2>1, <2>2, <2>3, <2>4, IdleFacts DEF PlaceInv
  <2>5. CASE filter' /= Idle
    <3>1. filter'.env = Queue[1]
      BY <1>8, <1>10, <2>5, DoingFacts DEF TakeResponse
    <3>2. \A i \in 1 .. Len(Queue') : filter'.env.place <= Queue'[i].place
      BY <1>1, <1>8, <1>10, <3>1 DEF PlaceInv
    <3>3. latest' <= filter'.env.place /\ filter'.env.place <= sent'
      BY <1>1, <1>8, <1>10, <2>1, <3>1 DEF PlaceInv
    <3> QED
      BY <1>1, <2>1, <2>2, <2>3, <3>2, <3>3 DEF PlaceInv
  <2> QED
    BY <2>4, <2>5
<1>11. CASE MatchStream \/ Deliver \/ Resume
  <2>1. UNCHANGED <<Queue, latest, sent>> /\ filter.at /= "idle"
    BY <1>11 DEF MatchStream, Deliver, Resume, Queue, wireVars, callVars
  <2>2. filter' = Idle \/ \E a, h : filter' = Doing(a, filter.env, h)
    BY <1>11 DEF MatchStream, Deliver, Resume
  <2>3. filter'.at = "idle" \/ filter'.env = filter.env
    BY <2>2, IdleFacts, DoingFacts
  <2> QED
    BY <1>1, <2>1, <2>3 DEF PlaceInv
<1>12. CASE OtherSends \/ \E c \in Calls : OtherResponds(c) \/ OtherStreams(c)
  <2>1. PICK e \in Frames : /\ UNCHANGED filter /\ Queue' = Append(Queue, e)
                            /\ e.place = sent + 1 /\ sent' = sent + 1
    BY <1>12, PutSteps, EnvelopeFacts DEF Put
  <2>2. Len(Queue') = Len(Queue) + 1 /\ Queue'[Len(Queue) + 1] = e
        /\ \A i \in 1 .. Len(Queue) : Queue'[i] = Queue[i]
    BY <2>1, <1>1, PutFacts
  <2>3. UNCHANGED latest
    BY <1>12 DEF OtherSends, OtherResponds, OtherStreams, callVars
  <2>4. \A i \in 1 .. Len(Queue') : latest' <= Queue'[i].place /\ Queue'[i].place <= sent'
    BY <1>1, <2>1, <2>2, <2>3 DEF PlaceInv
  <2>5. ASSUME NEW i \in 1 .. Len(Queue'), NEW j \in 1 .. Len(Queue'), i <= j
        PROVE  Queue'[i].place <= Queue'[j].place
    BY <1>1, <2>1, <2>2, <2>5 DEF PlaceInv
  <2>6. ASSUME filter'.at /= "idle", NEW i \in 1 .. Len(Queue')
        PROVE  filter'.env.place <= Queue'[i].place
    BY <1>1, <2>1, <2>2, <2>6 DEF PlaceInv
  <2> QED
    BY <1>1, <2>1, <2>3, <2>4, <2>5, <2>6 DEF PlaceInv
<1>13. CASE LinkBreaks \/ EndQueues
  <2>1. UNCHANGED <<filter, latest, sent>>
    BY <1>13 DEF LinkBreaks, EndQueues, callVars
  <2>2. \A i \in 1 .. Len(Queue') : i \in 1 .. Len(Queue) /\ Queue'[i] = Queue[i]
    BY <1>1, <1>13, QueueSteps
  <2> QED
    BY <1>1, <2>1, <2>2 DEF PlaceInv
<1> QED
  BY <1>1, <1>2, <1>5, <1>6, <1>7, <1>9, <1>10, <1>11, <1>12, <1>13
  DEF Next, vars, wireVars, callVars, Lookup, Insert, Enqueue, OpenStream,
      StreamEnds, DropRequest, AbandonStream, DropStream, WriteOutgoing, IoError, IoClosed,
      ParkedTimeout, EndResponses, EndStreams, EndEntry, Disconnect

-----------------------------------------------------------------------------
(* What is in front of a caller.                                            *)

(* News of the end is never an envelope from the wire.                      *)
LEMMA SoundBody ==
    ASSUME NEW e, NEW a, Sound(e, a), e.to \in Calls
    PROVE  e.body \in {"answer", "item", "end", "error"} /\ e.body /= Closed
  BY DEF Sound, Calls, Closed

(* What the filter delivered is sound and in order.                         *)
LEMMA InboxStep == Typed /\ FrameInv /\ InboxInv /\ [Next]_vars => InboxInv'
<1> SUFFICES ASSUME Typed, FrameInv, InboxInv, [Next]_vars, NEW c \in Calls
             PROVE  /\ \A i \in 1 .. Len(inbox'[c]) :
                         \/ inbox'[c][i].body = Closed /\ c \in Streams /\ "streams" \in taken'
                         \/ inbox'[c][i] = filter'.env /\ filter'.at = "waiting" /\ filter'.env.to = c
                    /\ \A i, j \in 1 .. Len(inbox'[c]) :
                         i /= j => (inbox'[c][i].body = Closed) /= (inbox'[c][j].body = Closed)
  BY DEF InboxInv
<1> DEFINE goal ==
             /\ \A i \in 1 .. Len(inbox'[c]) :
                  \/ inbox'[c][i].body = Closed /\ c \in Streams /\ "streams" \in taken'
                  \/ inbox'[c][i] = filter'.env /\ filter'.at = "waiting" /\ filter'.env.to = c
             /\ \A i, j \in 1 .. Len(inbox'[c]) :
                  i /= j => (inbox'[c][i].body = Closed) /= (inbox'[c][j].body = Closed)
<1> USE DEF sharedVars
<1>1. inbox[c] \in Seq(Frames) /\ Len(inbox[c]) \in Nat /\ filter \in Filters /\ filter.env \in Frames
  BY InQueue, FilterFacts DEF Typed
<1>2. taken \subseteq taken'
  BY Monotone
<1>3. ASSUME inbox'[c] = <<>> PROVE goal
  BY <1>3
<1>4. ASSUME inbox'[c] = inbox[c], UNCHANGED filter PROVE goal
  BY <1>2, <1>4 DEF InboxInv
<1>5. ASSUME inbox'[c] = inbox[c], filter.at /= "waiting" PROVE goal
  BY <1>2, <1>5 DEF InboxInv
<1>6. ASSUME NEW d \in Calls,
             PollRequest(d) \/ DropRequest(d) \/ AbandonStream(d) \/ DropStream(d)
      PROVE  goal
  <2>1. UNCHANGED filter /\ (inbox' = inbox \/ inbox' = [inbox EXCEPT ![d] = <<>>])
    BY <1>6 DEF PollRequest, DropRequest, AbandonStream, DropStream
  <2> QED
    BY <1>3, <1>4, <2>1 DEF Typed
<1>7. ASSUME NEW d \in Calls, PollStream(d) PROVE goal
  <2>1. UNCHANGED filter /\ inbox' = [inbox EXCEPT ![d] = Tail(@)] /\ inbox[d] /= <<>>
    BY <1>7 DEF PollStream
  <2>2. CASE c /= d
    BY <1>4, <2>1, <2>2 DEF Typed
  <2>3. CASE c = d
    <3>1. inbox'[c] = Tail(inbox[c])
      BY <2>1, <2>3 DEF Typed
    <3>2. \A i \in 1 .. Len(Tail(inbox[c])) :
             i + 1 \in 2 .. Len(inbox[c]) /\ Tail(inbox[c])[i] = inbox[c][i + 1]
      BY <1>1, <2>1, <2>3, TakeFacts
    <3>3. \A i \in 1 .. Len(inbox'[c]) :
             i + 1 \in 1 .. Len(inbox[c]) /\ inbox'[c][i] = inbox[c][i + 1]
      BY <1>1, <3>1, <3>2
    <3>4. \A i \in 1 .. Len(inbox'[c]) :
             \/ inbox'[c][i].body = Closed /\ c \in Streams /\ "streams" \in taken'
             \/ inbox'[c][i] = filter'.env /\ filter'.at = "waiting" /\ filter'.env.to = c
      <4> SUFFICES ASSUME NEW i \in 1 .. Len(inbox'[c])
                   PROVE  \/ inbox'[c][i].body = Closed /\ c \in Streams /\ "streams" \in taken'
                          \/ /\ inbox'[c][i] = filter'.env /\ filter'.at = "waiting"
                             /\ filter'.env.to = c
        OBVIOUS
      <4>1. i + 1 \in 1 .. Len(inbox[c]) /\ inbox'[c][i] = inbox[c][i + 1]
        BY <3>3
      <4>2. \/ inbox[c][i + 1].body = Closed /\ c \in Streams /\ "streams" \in taken
            \/ inbox[c][i + 1] = filter.env /\ filter.at = "waiting" /\ filter.env.to = c
        BY <4>1 DEF InboxInv
      <4> QED
        BY <1>2, <2>1, <4>1, <4>2
    <3>5. ASSUME NEW i \in 1 .. Len(inbox'[c]), NEW j \in 1 .. Len(inbox'[c]), i /= j
          PROVE  (inbox'[c][i].body = Closed) /= (inbox'[c][j].body = Closed)
      <4>1. i + 1 /= j + 1 /\ i + 1 \in 1 .. Len(inbox[c]) /\ j + 1 \in 1 .. Len(inbox[c])
        BY <3>3, <3>5
      <4>2. (inbox[c][i + 1].body = Closed) /= (inbox[c][j + 1].body = Closed)
        BY <4>1 DEF InboxInv
      <4> QED
        BY <3>3, <4>2
    <3> QED
      BY <3>4, <3>5
  <2> QED
    BY <2>2, <2>3
<1>8. ASSUME NEW e \in Frames, inbox'[c] = Append(inbox[c], e),
             \A i \in 1 .. Len(inbox[c]) : (inbox[c][i].body = Closed) /= (e.body = Closed),
             UNCHANGED filter \/ filter.at /= "waiting",
             \/ e.body = Closed /\ c \in Streams /\ "streams" \in taken'
             \/ e = filter'.env /\ filter'.at = "waiting" /\ filter'.env.to = c
      PROVE  goal
  <2>1. Len(inbox'[c]) = Len(inbox[c]) + 1 /\ inbox'[c][Len(inbox[c]) + 1] = e
        /\ \A i \in 1 .. Len(inbox[c]) : inbox'[c][i] = inbox[c][i]
    BY <1>1, <1>8, PutFacts
  <2>2. \A i \in 1 .. Len(inbox'[c]) : i \in 1 .. Len(inbox[c]) \/ i = Len(inbox[c]) + 1
    BY <1>1, <2>1
  <2>3. \A i \in 1 .. Len(inbox'[c]) :
             \/ inbox'[c][i].body = Closed /\ c \in Streams /\ "streams" \in taken'
             \/ inbox'[c][i] = filter'.env /\ filter'.at = "waiting" /\ filter'.env.to = c
    BY <1>2, <1>8, <2>1, <2>2 DEF InboxInv
  <2>4. ASSUME NEW i \in 1 .. Len(inbox'[c]), NEW j \in 1 .. Len(inbox'[c]), i /= j
        PROVE  (inbox'[c][i].body = Closed) /= (inbox'[c][j].body = Closed)
    BY <1>8, <2>1, <2>2, <2>4 DEF InboxInv
  <2> QED
    BY <2>3, <2>4
<1>9. CASE EndStreams
  <2>1. UNCHANGED filter /\ "streams" \notin taken /\ "streams" \in taken'
    BY <1>9 DEF EndStreams
  <2>2. inbox'[c] = IF c \in streams /\ pc[c] /= "abandoned"
                      THEN Append(inbox[c], Envelope(c, Closed, 0, 0)) ELSE inbox[c]
    BY <1>9 DEF EndStreams
  <2>3. CASE c \in streams /\ pc[c] /= "abandoned"
    <3>1. Envelope(c, Closed, 0, 0) \in Frames /\ Envelope(c, Closed, 0, 0).body = Closed
      BY FrameFacts, EnvelopeFacts DEF Bodies
    <3>2. \A i \in 1 .. Len(inbox[c]) : inbox[c][i].body /= Closed
      BY <2>1, SoundBody DEF InboxInv, FrameInv
    <3>3. c \in Streams
      BY <2>3 DEF Typed
    <3> QED
      BY <1>8, <2>1, <2>2, <2>3, <3>1, <3>2, <3>3
  <2>4. CASE ~(c \in streams /\ pc[c] /= "abandoned")
    BY <1>4, <2>1, <2>2, <2>4
  <2> QED
    BY <2>3, <2>4
<1>10. CASE TakeResponse \/ MatchStream
  <2>1. UNCHANGED inbox /\ filter.at /= "waiting"
    BY <1>10 DEF TakeResponse, MatchStream, callVars
  <2> QED
    BY <1>5, <2>1
<1>11. CASE Deliver
  <2>1. filter.at = "sending"
    BY <1>11 DEF Deliver
  <2>2. CASE inbox'[c] = inbox[c]
    BY <1>5, <2>1, <2>2
  <2>3. CASE inbox'[c] /= inbox[c]
    <3>1. inbox' = [inbox EXCEPT ![filter.env.to] = Append(@, filter.env)]
          /\ filter' = Doing("waiting", filter.env, filter.held)
      BY <1>11, <2>3 DEF Deliver
    <3>2. filter.env.to = c /\ inbox'[c] = Append(inbox[c], filter.env)
      BY <2>3, <3>1 DEF Typed
    <3>3. filter'.env = filter.env /\ filter'.at = "waiting"
      BY <3>1, DoingFacts
    <3>4. filter.env.body /= Closed /\ \A i \in 1 .. Len(inbox[c]) : inbox[c][i].body = Closed
      BY <2>1, <3>2, SoundBody DEF FrameInv, InboxInv
    <3> QED
      BY <1>1, <1>8, <2>1, <3>2, <3>3, <3>4
  <2> QED
    BY <2>2, <2>3
<1>12. CASE Resume
  <2>1. UNCHANGED inbox /\ \A i \in 1 .. Len(inbox[filter.env.to]) : inbox[filter.env.to][i].body = Closed
    BY <1>12 DEF Resume, BarrierDropped, callVars
  <2>2. \A i \in 1 .. Len(inbox[c]) : inbox[c][i].body = Closed /\ c \in Streams /\ "streams" \in taken
    <3>1. CASE filter.env.to = c
      <4>1. filter.at = "waiting" /\ filter.env.body /= Closed
        BY <1>12, <3>1, SoundBody DEF FrameInv, Resume
      <4> QED
        BY <2>1, <3>1, <4>1 DEF InboxInv
    <3>2. CASE filter.env.to /= c
      BY <3>2 DEF InboxInv
    <3> QED
      BY <3>1, <3>2
  <2> QED
    BY <1>2, <2>1, <2>2 DEF InboxInv
<1>13. CASE UNCHANGED <<inbox, filter>>
  BY <1>4, <1>13
<1> QED
  BY <1>6, <1>7, <1>9, <1>10, <1>11, <1>12, <1>13
  DEF Next, vars, callVars, Lookup, Insert, Enqueue, OpenStream, StreamEnds, OtherResponds,
      OtherStreams, WriteOutgoing, IoError, IoClosed, ReadMessage, ParkedTimeout,
      EndResponses, EndEntry, EndQueues, HandOut, Disconnect, OtherSends, LinkBreaks

(* Nobody waits for a request that nobody can answer, unless the connection *)
(* is over.                                                                 *)
LEMMA RequestStep ==
    Typed /\ EndInv /\ FrameInv /\ RequestInv /\ [Next]_vars => RequestInv'
<1> SUFFICES ASSUME Typed, EndInv, FrameInv, RequestInv, [Next]_vars PROVE RequestInv'
  OBVIOUS
<1> USE DEF sharedVars
<1> DEFINE Waits(c) ==
             \/ c \in responses
             \/ filter.at \in {"matching", "sending"} /\ filter.env.to = c
                   /\ filter.held = "response"
             \/ inbox[c] /= <<>>
             \/ Over
<1>1. (Over => Over') /\ (entry' => entry)
  BY Monotone
<1>2. ASSUME NEW c \in Requests, pc'[c] \in {"inserted", "sent"} PROVE Waits(c)'
  <2>1. c \in Calls /\ c \notin Streams
    BY CallsAssumption DEF Calls
  <2>2. CASE Over
    BY <1>1, <2>2
  <2>3. CASE Insert(c)
    BY <1>2, <2>3, <2>1 DEF Insert, Goto, Typed
  <2>4. CASE ~Over /\ ~Insert(c)
    <3>1. pc[c] \in {"inserted", "sent"}
      BY <1>2, <2>1, <2>4, OnlyMoves
      DEF Moves, Goto, Typed, Lookup, Insert, Enqueue, PollRequest, OpenStream, StreamEnds,
          DropRequest, AbandonStream, DropStream
    <3>2. Waits(c) /\ taken = {}
      BY <2>4, <3>1 DEF RequestInv, EndInv, Over
    <3>3. CASE TakeResponse
      <4>1. filter.at = "idle" /\ UNCHANGED inbox /\ responses' = responses \ {Head(incoming).to}
            /\ filter' = Doing("matching", Head(incoming),
                               IF Head(incoming).to \in responses THEN "response" ELSE None)
        BY <3>2, <3>3 DEF TakeResponse, callVars
      <4>2. /\ filter'.at = "matching" /\ filter'.env = Head(incoming)
            /\ filter'.held = IF Head(incoming).to \in responses THEN "response" ELSE None
        BY <4>1, DoingFacts
      <4> QED
        BY <2>4, <3>2, <4>1, <4>2
    <3>4. CASE MatchStream
      <4>1. filter.at = "matching" /\ UNCHANGED <<inbox, responses>>
        BY <3>4 DEF MatchStream, callVars
      <4>2. ASSUME filter.held = "response" PROVE filter' = Doing("sending", filter.env, "response")
        BY <3>2, <3>4, <4>2 DEF MatchStream, None
      <4>3. ASSUME filter.held = "response"
            PROVE  filter'.at = "sending" /\ filter'.env = filter.env /\ filter'.held = "response"
        BY <4>2, <4>3, DoingFacts
      <4> QED
        BY <2>4, <3>2, <4>1, <4>3
    <3>5. CASE Deliver
      <4>1. filter.at = "sending" /\ UNCHANGED responses
        BY <3>5 DEF Deliver
      <4>2. CASE filter.env.to = c
        <5>1. inbox' = [inbox EXCEPT ![c] = Append(@, filter.env)]
          BY <3>1, <3>5, <4>2 DEF Deliver
        <5>2. Append(inbox[c], filter.env) /= <<>>
          <6>1. inbox[c] \in Seq(Frames) /\ filter.env \in Frames
            BY <2>1, FilterFacts DEF Typed
          <6>2. Len(inbox[c]) \in Nat /\ Len(Append(inbox[c], filter.env)) = Len(inbox[c]) + 1
            BY <6>1, PutFacts
          <6>3. Append(inbox[c], filter.env) \in Seq(Frames)
            BY <6>1, InQueue
          <6> QED
            BY <6>2, <6>3, EmptySeq
        <5> QED
          BY <2>1, <5>1, <5>2 DEF Typed
      <4>3. CASE filter.env.to /= c
        <5>1. inbox'[c] = inbox[c]
          BY <2>1, <3>5, <4>3 DEF Deliver, Typed
        <5> QED
          BY <2>4, <3>2, <4>1, <4>3, <5>1
      <4> QED
        BY <4>2, <4>3
    <3>6. CASE Resume
      BY <2>4, <3>2, <3>6 DEF Resume, callVars
    <3>7. ASSUME NEW d \in Calls,
                 \/ PollRequest(d) \/ PollStream(d) \/ DropRequest(d) \/ AbandonStream(d)
                 \/ DropStream(d)
          PROVE  Waits(c)'
      <4>1. UNCHANGED <<responses, filter>> /\ (c /= d => inbox'[c] = inbox[c])
        BY <2>1, <3>7 DEF PollRequest, PollStream, DropRequest, AbandonStream, DropStream, Typed
      <4>2. inbox'[c] = inbox[c]
        BY <1>2, <2>1, <3>1, <3>7, <4>1
        DEF PollRequest, PollStream, DropRequest, AbandonStream, DropStream, Goto, Typed
      <4> QED
        BY <2>4, <3>2, <4>1, <4>2
    <3>8. CASE EndResponses \/ EndStreams \/ EndEntry \/ EndQueues
      BY <2>4, <3>8 DEF EndResponses, EndStreams, EndEntry, EndQueues, Over
    <3>9. CASE responses \subseteq responses' /\ UNCHANGED <<filter, inbox>>
      BY <2>4, <3>2, <3>9
    <3> QED
      BY <3>3, <3>4, <3>5, <3>6, <3>7, <3>8, <3>9
      DEF Next, vars, callVars, Lookup, Insert, Enqueue, OpenStream, StreamEnds, OtherResponds,
          OtherStreams, WriteOutgoing, IoError, IoClosed, ReadMessage, ParkedTimeout,
          HandOut, Disconnect, OtherSends, LinkBreaks
  <2> QED
    BY <2>2, <2>3, <2>4
<1>3. ASSUME NEW c \in Calls, pc'[c] = "failed" PROVE ~entry' \/ Over'
  <2>1. CASE pc[c] = "failed"
    BY <1>1, <2>1 DEF RequestInv
  <2>2. CASE Lookup(c) \/ Insert(c) \/ Enqueue(c)
    BY <1>1, <1>3, <2>2 DEF Lookup, Insert, Enqueue, Goto, EndInv, Over, Typed
  <2>3. CASE PollRequest(c)
    <3>1. c \in Requests /\ pc[c] = "sent" /\ inbox[c] = <<>> /\ ~SenderAlive(c)
      BY <1>3, <2>3 DEF PollRequest, Goto, Typed
    <3> QED
      BY <1>1, <3>1 DEF RequestInv, SenderAlive, None
  <2>4. pc[c] = "failed" \/ Lookup(c) \/ Insert(c) \/ Enqueue(c) \/ PollRequest(c)
    BY <1>3, OnlyMoves
    DEF Moves, Goto, Typed, Lookup, Insert, Enqueue, PollRequest, OpenStream, StreamEnds,
        DropRequest, AbandonStream, DropStream
  <2> QED
    BY <2>1, <2>2, <2>3, <2>4
<1> QED
  BY <1>2, <1>3 DEF RequestInv

-----------------------------------------------------------------------------
(* The streams.                                                             *)

(* Nothing is asked or answered before a stream is queued, and one that is  *)
(* at its end has no entry.                                                 *)
LEMMA EarlyStep ==
    Typed /\ FrameInv /\ InboxInv /\ EarlyInv /\ [Next]_vars => EarlyInv'
<1> SUFFICES ASSUME Typed, FrameInv, InboxInv, EarlyInv, [Next]_vars, NEW c \in Streams
             PROVE  /\ pc'[c] \in {"new", "found", "ended", "dropped", "failed"} => c \notin streams'
                    /\ pc'[c] \in {"new", "found", "inserted", "failed"} =>
                         c \notin asked' /\ \A i \in 1 .. Len(outgoing') : outgoing'[i] /= c
                    /\ c \notin asked' => served'[c] = 0 /\ got'[c] = 0
  BY DEF EarlyInv
<1> USE DEF sharedVars
<1>1. c \in Calls /\ c \notin Requests /\ outgoing \in Seq(Calls) /\ Len(outgoing) \in Nat
  BY CallsAssumption, LenProperties DEF Calls, Typed
<1>2. ASSUME pc'[c] \in {"new", "found", "ended", "dropped", "failed"} PROVE c \notin streams'
  <2>1. CASE StreamEnds(c) \/ DropStream(c)
    BY <2>1 DEF StreamEnds, DropStream, SenderAlive
  <2>2. CASE Lookup(c) \/ Insert(c) \/ Enqueue(c)
    BY <1>1, <1>2, <2>2 DEF Lookup, Insert, Enqueue, Goto, Typed, EarlyInv
  <2>3. CASE pc'[c] = pc[c]
    <3>1. c \in streams' => c \in streams \/ Insert(c)
      BY DEF Next, vars, Lookup, Insert, Enqueue, PollRequest, OpenStream,
          PollStream, StreamEnds, DropRequest, AbandonStream, DropStream, OtherResponds,
          OtherStreams, WriteOutgoing, IoError, IoClosed, ReadMessage, ParkedTimeout,
          EndResponses, EndStreams, EndEntry, EndQueues, HandOut, TakeResponse, MatchStream,
          Deliver, Resume, Disconnect, OtherSends, LinkBreaks
    <3> QED
      BY <1>2, <2>2, <2>3, <3>1 DEF EarlyInv
  <2>4. pc'[c] = pc[c] \/ StreamEnds(c) \/ DropStream(c) \/ Lookup(c) \/ Insert(c) \/ Enqueue(c)
    BY <1>1, <1>2, OnlyMoves
    DEF Moves, Goto, Typed, Lookup, Insert, Enqueue, PollRequest, OpenStream, StreamEnds,
        DropRequest, AbandonStream, DropStream
  <2> QED
    BY <2>1, <2>2, <2>3, <2>4
<1>3. ASSUME pc'[c] \in {"new", "found", "inserted", "failed"}
      PROVE  c \notin asked' /\ \A i \in 1 .. Len(outgoing') : outgoing'[i] /= c
  <2>1. pc[c] \in {"new", "found", "inserted", "failed"}
    BY <1>1, <1>3, OnlyMoves
    DEF Moves, Goto, Typed, Lookup, Insert, Enqueue, PollRequest, OpenStream, StreamEnds,
        DropRequest, AbandonStream, DropStream
  <2>2. c \notin asked /\ \A i \in 1 .. Len(outgoing) : outgoing[i] /= c
    BY <2>1 DEF EarlyInv
  <2>3. CASE WriteOutgoing
    <3>1. outgoing /= <<>> /\ outgoing' = Tail(outgoing) /\ asked' \subseteq asked \union {Head(outgoing)}
      BY <2>3 DEF WriteOutgoing
    <3>2. Len(outgoing) \in Nat \ {0} /\ Head(outgoing) = outgoing[1]
          /\ Len(Tail(outgoing)) = Len(outgoing) - 1
          /\ \A i \in 1 .. Len(outgoing) - 1 : Tail(outgoing)[i] = outgoing[i + 1]
      BY <1>1, <3>1, EmptySeq, LenProperties, HeadTailProperties
    <3>3. 1 \in 1 .. Len(outgoing) /\ \A i \in 1 .. Len(outgoing') : i + 1 \in 1 .. Len(outgoing)
      BY <3>1, <3>2
    <3> QED
      BY <2>2, <3>1, <3>2, <3>3
  <2>4. ASSUME NEW d \in Calls, Enqueue(d)
        PROVE  c \notin asked' /\ \A i \in 1 .. Len(outgoing') : outgoing'[i] /= c
    <3>1. UNCHANGED asked
      BY <2>4 DEF Enqueue, wireVars
    <3>2. CASE outgoing' = outgoing
      BY <2>2, <3>1, <3>2
    <3>3. CASE outgoing' /= outgoing
      <4>1. outgoing' = Append(outgoing, d) /\ pc'[d] = "sent"
        BY <2>4, <3>3 DEF Enqueue, Goto, Typed
      <4>2. d /= c
        BY <1>3, <4>1
      <4>3. /\ Len(Append(outgoing, d)) = Len(outgoing) + 1
            /\ \A i \in 1 .. Len(outgoing) : Append(outgoing, d)[i] = outgoing[i]
            /\ Append(outgoing, d)[Len(outgoing) + 1] = d
        BY <1>1, AppendProperties
      <4> QED
        BY <1>1, <2>2, <3>1, <4>1, <4>2, <4>3
    <3> QED
      BY <3>2, <3>3
  <2>5. CASE EndQueues
    BY <2>2, <2>5 DEF EndQueues
  <2>6. CASE UNCHANGED <<outgoing, asked>>
    BY <2>2, <2>6
  <2> QED
    BY <2>3, <2>4, <2>5, <2>6
    DEF Next, vars, wireVars, Lookup, Insert, PollRequest, OpenStream,
        PollStream, StreamEnds, DropRequest, AbandonStream, DropStream, OtherResponds,
        OtherStreams, IoError, IoClosed, ReadMessage, ParkedTimeout,
        EndResponses, EndStreams, EndEntry, HandOut, TakeResponse, MatchStream,
        Deliver, Resume, Disconnect, OtherSends, LinkBreaks
<1>4. ASSUME c \notin asked' PROVE served'[c] = 0 /\ got'[c] = 0
  <2>1. c \notin asked
    BY <1>4, Monotone
  <2>2. served[c] = 0 /\ got[c] = 0
    BY <2>1 DEF EarlyInv
  <2>3. CASE PollStream(c)
    <3>1. inbox[c] /= <<>>
      BY <2>3 DEF PollStream
    <3>2. 1 \in 1 .. Len(inbox[c]) /\ Head(inbox[c]) = inbox[c][1]
      BY <1>1, <3>1, TakeFacts DEF Typed
    <3>3. Head(inbox[c]).body = Closed
      BY <1>1, <2>1, <3>2 DEF InboxInv, FrameInv, Sound
    <3> QED
      BY <2>2, <2>3, <3>3 DEF PollStream, wireVars, Closed
  <2>4. CASE got'[c] = got[c] /\ served'[c] = served[c]
    BY <2>2, <2>4
  <2> QED
    BY <1>1, <2>1, <2>3, <2>4
    DEF Next, vars, callVars, wireVars, Typed, Lookup, Insert, Enqueue, PollRequest, OpenStream,
        PollStream, StreamEnds, DropRequest, AbandonStream, DropStream, OtherResponds,
        OtherStreams, WriteOutgoing, IoError, IoClosed, ReadMessage, ParkedTimeout,
        EndResponses, EndStreams, EndEntry, EndQueues, HandOut, TakeResponse, MatchStream,
        Deliver, Resume, Disconnect, OtherSends, LinkBreaks
<1> QED
  BY <1>2, <1>3, <1>4

(* What can happen to a stream that is under way.                           *)
Quiet(c) ==
    /\ UNCHANGED filter
    /\ inbox'[c] = inbox[c] /\ got'[c] = got[c] /\ errored'[c] = errored[c]
    /\ c \in streams' <=> c \in streams

(* What may happen to an open stream.                                       *)
LEMMA StreamSteps ==
    ASSUME Typed, [Next]_vars, NEW c \in Streams, pc'[c] \in {"inserted", "sent", "open"}
    PROVE  \/ Insert(c) /\ c \in streams'
           \/ /\ pc[c] \in {"inserted", "sent", "open"}
              /\ pc'[c] = pc[c] \/ Enqueue(c) \/ OpenStream(c)
              /\ \/ PollStream(c) \/ EndStreams \/ TakeResponse \/ MatchStream \/ Deliver \/ Resume
                 \/ Quiet(c)
<1> USE DEF sharedVars
<1>1. c \in Calls /\ c \notin Requests
  BY CallsAssumption DEF Calls
<1>2. ASSUME Insert(c) PROVE c \in streams'
  BY <1>1, <1>2 DEF Insert, Goto, Typed
<1>3. ASSUME ~Insert(c)
      PROVE  /\ pc[c] \in {"inserted", "sent", "open"}
             /\ pc'[c] = pc[c] \/ Enqueue(c) \/ OpenStream(c)
  BY <1>1, <1>3, OnlyMoves
  DEF Moves, Goto, Typed, Lookup, Insert, Enqueue, PollRequest, OpenStream, StreamEnds,
      DropRequest, AbandonStream, DropStream
<1>4. ASSUME NEW d \in Calls, d /= c, Insert(d) \/ Enqueue(d) \/ PollRequest(d) \/ PollStream(d)
             \/ DropRequest(d) \/ AbandonStream(d) \/ DropStream(d)
      PROVE  Quiet(c)
  <2>1. CASE Insert(d) \/ Enqueue(d)
    BY <1>1, <1>4, <2>1 DEF Insert, Enqueue, Quiet
  <2>2. CASE PollRequest(d) \/ DropRequest(d) \/ AbandonStream(d) \/ DropStream(d)
    BY <1>1, <1>4, <2>2 DEF PollRequest, DropRequest, AbandonStream, DropStream, Quiet, Typed
  <2>3. CASE PollStream(d)
    <3>1. \/ errored' = errored \/ errored' = [errored EXCEPT ![d] = TRUE]
      BY <2>3 DEF PollStream
    <3>2. errored'[c] = errored[c]
      BY <1>1, <1>4, <3>1 DEF Typed
    <3> QED
      BY <1>1, <1>4, <2>3, <3>2 DEF PollStream, Quiet, Typed
  <2> QED
    BY <1>4, <2>1, <2>2, <2>3
<1>5. ASSUME Enqueue(c) PROVE Quiet(c)
  BY <1>1, <1>5 DEF Enqueue, Goto, Quiet, Typed
<1>6. ~PollRequest(c) /\ ~DropRequest(c) /\ ~AbandonStream(c) /\ ~DropStream(c)
  BY <1>1 DEF PollRequest, DropRequest, AbandonStream, DropStream, Goto, Typed
<1>7. \/ Insert(c) \/ PollStream(c) \/ EndStreams \/ TakeResponse \/ MatchStream \/ Deliver
      \/ Resume \/ Quiet(c)
  BY <1>4, <1>5, <1>6
  DEF Next, vars, callVars, Quiet, Lookup, OpenStream, StreamEnds, OtherResponds,
      OtherStreams, WriteOutgoing, IoError, IoClosed, ReadMessage, ParkedTimeout,
      EndResponses, EndEntry, EndQueues, HandOut, Disconnect, OtherSends, LinkBreaks
<1> QED
  BY <1>2, <1>3, <1>7

(* What a consumer takes, unless it is the news of the end, is what the     *)
(* filter waits for.                                                        *)
LEMMA TakenFromFilter ==
    ASSUME Typed, InboxInv, NEW c \in Calls, inbox[c] /= <<>>, Head(inbox[c]).body /= Closed
    PROVE  /\ filter.at = "waiting" /\ filter.env.to = c /\ Head(inbox[c]) = filter.env
           /\ Holds(c)
           /\ \A i \in 1 .. Len(Tail(inbox[c])) : Tail(inbox[c])[i].body = Closed
<1>1. 1 \in 1 .. Len(inbox[c]) /\ Head(inbox[c]) = inbox[c][1]
      /\ \A i \in 1 .. Len(Tail(inbox[c])) :
            i + 1 \in 2 .. Len(inbox[c]) /\ Tail(inbox[c])[i] = inbox[c][i + 1]
      /\ Len(inbox[c]) \in Nat
  BY TakeFacts DEF Typed
<1>2. filter.at = "waiting" /\ filter.env.to = c /\ Head(inbox[c]) = filter.env
  BY <1>1 DEF InboxInv
<1>3. Holds(c)
  BY <1>1, <1>2 DEF Holds
<1>4. ASSUME NEW i \in 1 .. Len(Tail(inbox[c])) PROVE Tail(inbox[c])[i].body = Closed
  <2>1. i + 1 \in 1 .. Len(inbox[c]) /\ i + 1 /= 1
    BY <1>1
  <2>2. (inbox[c][1].body = Closed) /= (inbox[c][i + 1].body = Closed)
    BY <1>1, <2>1 DEF InboxInv
  <2> QED
    BY <1>1, <2>2
<1> QED
  BY <1>2, <1>3, <1>4

(* The stream yields an envelope from the wire.                             *)
LEMMA StreamPolled ==
    ASSUME Typed, FrameInv, InboxInv, HeldInv, NEW c \in Streams, PollStream(c),
           Head(inbox[c]).body /= Closed
    PROVE  /\ Holds(c) /\ ~Holds(c)'
           /\ filter.env.nth = got[c] + 1
           /\ \/ /\ filter.env.body = "item" /\ got[c] < StreamLength
                 /\ got'[c] = got[c] + 1 /\ streams' = streams
              \/ filter.env.body = "end" /\ got[c] = StreamLength /\ got'[c] = got[c] /\ c \notin streams'
              \/ filter.env.body = "error" /\ got'[c] = got[c] /\ errored'[c] /\ c \notin streams'
<1>1. c \in Calls /\ c \notin Requests /\ got[c] \in Nat
  BY CallsAssumption DEF Calls, Typed
<1>2. inbox[c] /= <<>> /\ pc[c] = "open" /\ filter' = filter /\ inbox' = [inbox EXCEPT ![c] = Tail(@)]
  BY DEF PollStream
<1>3. /\ filter.at = "waiting" /\ filter.env.to = c /\ Head(inbox[c]) = filter.env /\ Holds(c)
      /\ \A i \in 1 .. Len(Tail(inbox[c])) : Tail(inbox[c])[i].body = Closed
  BY <1>1, <1>2, TakenFromFilter
<1>4. ~Holds(c)'
  <2>1. inbox'[c] = Tail(inbox[c])
    BY <1>1, <1>2 DEF Typed
  <2> QED
    BY <1>2, <1>3, <2>1 DEF Holds
<1>5. filter.env.nth = got[c] + 1 /\ got[c] <= StreamLength
  BY <1>2, <1>3 DEF HeldInv, Listening
<1>6. \/ filter.env.body = "item" /\ filter.env.nth <= StreamLength
      \/ filter.env.body = "end" /\ filter.env.nth = StreamLength + 1
      \/ filter.env.body = "error"
  BY <1>3 DEF FrameInv, Sound
<1>7. CASE filter.env.body = "item" /\ filter.env.nth <= StreamLength
  <2>1. got' = [got EXCEPT ![c] = @ + 1] /\ streams' = streams
    BY <1>3, <1>7 DEF PollStream, Terminal
  <2>2. got'[c] = got[c] + 1 /\ got[c] < StreamLength
    BY <1>1, <1>5, <1>7, <2>1, BoundsAssumption DEF Typed
  <2> QED
    BY <1>3, <1>4, <1>5, <1>7, <2>1, <2>2
<1>8. CASE filter.env.body = "end" /\ filter.env.nth = StreamLength + 1
  <2>1. got' = got /\ c \notin streams'
    BY <1>3, <1>8 DEF PollStream, Terminal
  <2>2. got[c] = StreamLength
    BY <1>1, <1>5, <1>8, BoundsAssumption
  <2> QED
    BY <1>3, <1>4, <1>5, <1>8, <2>1, <2>2
<1>9. CASE filter.env.body = "error"
  <2>1. got' = got /\ c \notin streams' /\ errored' = [errored EXCEPT ![c] = TRUE]
    BY <1>3, <1>9 DEF PollStream, Terminal
  <2>2. errored'[c]
    BY <1>1, <2>1, Zenon DEF Typed
  <2> QED
    BY <1>3, <1>4, <1>5, <1>9, <2>1, <2>2
<1> QED
  BY <1>6, <1>7, <1>8, <1>9

(* A stream that is not queued yet has nothing in the filter or the queue.  *)
LEMMA NothingEarly ==
    ASSUME Typed, FrameInv, EarlyInv, NEW c \in Streams, pc[c] = "inserted"
    PROVE  /\ ~Holds(c) /\ got[c] = 0 /\ served[c] = 0
           /\ \A i \in 1 .. Len(Queue) : Queue[i].to /= c
<1>1. c \notin asked /\ c /= None
  BY CallsAssumption DEF EarlyInv, None
<1>2. got[c] = 0 /\ served[c] = 0
  BY <1>1 DEF EarlyInv
<1>3. ~Holds(c)
  BY <1>1 DEF Holds, FrameInv, Sound
<1> QED
  BY <1>1, <1>2, <1>3 DEF FrameInv, Sound

(* What the actions of the filter do for a stream that is under way.        *)
LEMMA FilterMoves ==
    ASSUME Typed, EndInv, FrameInv, InboxInv, NEW c \in Streams,
           pc[c] \in {"inserted", "sent", "open"}
    PROVE  /\ TakeResponse =>
                 /\ ~Holds(c)
                 /\ filter' = Idle \/ /\ filter'.env = Head(Queue) /\ filter'.at = "matching"
                                      /\ "responses" \notin taken
                 /\ "responses" \notin taken => filter'.env = Head(Queue) /\ filter'.at = "matching"
           /\ MatchStream \/ Deliver \/ Resume =>
                 /\ Holds(c)' => Holds(c) /\ filter'.env = filter.env
                 /\ Holds(c) /\ (c \in streams' \/ Deliver \/ Resume) => Holds(c)'
<1>1. c \in Calls /\ c \notin Requests /\ c /= None
  BY CallsAssumption DEF Calls, None
<1>2. ASSUME TakeResponse
      PROVE  /\ ~Holds(c)
             /\ filter' = Idle \/ /\ filter'.env = Head(Queue) /\ filter'.at = "matching"
                                  /\ "responses" \notin taken
             /\ "responses" \notin taken => filter'.env = Head(Queue) /\ filter'.at = "matching"
  <2>1. filter.at = "idle" /\ Head(incoming) = Head(Queue)
    BY <1>2, QueueSteps DEF TakeResponse
  <2>2. CASE "responses" \in taken
    BY <1>2, <2>1, <2>2 DEF TakeResponse, Holds
  <2>3. CASE "responses" \notin taken
    <3>1. \E h : filter' = Doing("matching", Head(Queue), h)
      BY <1>2, <2>1, <2>3 DEF TakeResponse
    <3> QED
      BY <2>1, <2>3, <3>1, DoingFacts DEF Holds
  <2> QED
    BY <2>2, <2>3
<1>3. ASSUME MatchStream
      PROVE  /\ Holds(c)' => Holds(c) /\ filter'.env = filter.env
             /\ Holds(c) /\ c \in streams' => Holds(c)'
  <2>1. filter.at = "matching" /\ (c \in streams' => c \in streams)
    BY <1>3 DEF MatchStream
  <2>2. CASE filter' = Idle
    <3>1. ASSUME filter.env.to = c, c \in streams' PROVE FALSE
      <4>1. "streams" \notin taken
        BY <2>1, <3>1 DEF EndInv
      <4>2. filter' = Doing("sending", filter.env, "stream")
        BY <1>1, <1>3, <2>1, <3>1, <4>1 DEF MatchStream, FrameInv, None
      <4> QED
        BY <2>2, <4>2, IdleFacts, DoingFacts
    <3> QED
      BY <2>2, <3>1, IdleFacts DEF Holds
  <2>3. CASE filter' /= Idle
    <3>1. PICK h : /\ filter' = Doing("sending", filter.env, h)
                   /\ \/ h = "response" /\ filter.held = "response"
                      \/ h = "stream" /\ filter.env.to \in streams
      BY <1>3, <2>3 DEF MatchStream
    <3>2. filter'.at = "sending" /\ filter'.env = filter.env
      BY <3>1, DoingFacts
    <3>3. filter.env.to = c => c \in streams
      BY <1>1, <3>1 DEF FrameInv
    <3> QED
      BY <2>1, <3>2, <3>3 DEF Holds
  <2> QED
    BY <2>2, <2>3
<1>4. ASSUME Deliver
      PROVE  (Holds(c)' => Holds(c) /\ filter'.env = filter.env) /\ (Holds(c) => Holds(c)')
  <2>1. filter.at = "sending"
    BY <1>4 DEF Deliver
  <2>2. CASE filter.env.to = c
    <3>1. /\ filter' = Doing("waiting", filter.env, filter.held)
          /\ inbox' = [inbox EXCEPT ![c] = Append(@, filter.env)]
      BY <1>4, <2>2 DEF Deliver
    <3>2. inbox[c] \in Seq(Frames) /\ filter.env \in Frames /\ inbox'[c] = Append(inbox[c], filter.env)
      BY <1>1, <3>1, FilterFacts DEF Typed
    <3>3. Len(inbox[c]) + 1 \in 1 .. Len(inbox'[c]) /\ inbox'[c][Len(inbox[c]) + 1] = filter.env
      BY <3>2, PutFacts
    <3>4. filter.env.body /= Closed
      BY <1>1, <2>1, <2>2, SoundBody DEF FrameInv
    <3>5. filter'.at = "waiting" /\ filter'.env = filter.env
      BY <3>1, DoingFacts
    <3> QED
      BY <2>1, <2>2, <3>3, <3>4, <3>5 DEF Holds
  <2>3. CASE filter.env.to /= c
    <3>1. filter' = Idle \/ filter' = Doing("waiting", filter.env, filter.held)
      BY <1>4 DEF Deliver
    <3>2. filter'.at = "idle" \/ filter'.env = filter.env
      BY <3>1, IdleFacts, DoingFacts
    <3> QED
      BY <2>3, <3>2 DEF Holds
  <2> QED
    BY <2>2, <2>3
<1>5. ASSUME Resume PROVE ~Holds(c) /\ ~Holds(c)'
  <2>1. filter' = Idle /\ filter.at = "waiting" /\ BarrierDropped(filter.env.to)
    BY <1>5 DEF Resume
  <2> QED
    BY <2>1, IdleFacts DEF Holds, BarrierDropped
<1> QED
  BY <1>2, <1>3, <1>4, <1>5

(* The consumer of a stream gets the next answer, and none too many.        *)
LEMMA HeldStep ==
    /\ Typed /\ EndInv /\ FrameInv /\ InboxInv /\ EarlyInv /\ HeldInv /\ FlowInv
    /\ [Next]_vars
    => HeldInv'
<1> SUFFICES ASSUME Typed, EndInv, FrameInv, InboxInv, EarlyInv, HeldInv, FlowInv, [Next]_vars,
                    NEW c \in Streams, Listening(c)'
             PROVE  (Holds(c)' => filter'.env.nth = got'[c] + 1) /\ got'[c] <= StreamLength
  BY DEF HeldInv
<1> DEFINE goal == (Holds(c)' => filter'.env.nth = got'[c] + 1) /\ got'[c] <= StreamLength
<1>1. c \in Calls /\ pc'[c] \in {"sent", "open"} /\ got[c] \in Nat
  BY DEF Listening, Calls, Typed
<1>2. CASE Insert(c)
  BY <1>1, <1>2 DEF Insert, Goto, Typed
<1>3. CASE Quiet(c)
  <2>1. Holds(c)' <=> Holds(c)
    BY <1>3 DEF Quiet, Holds
  <2>2. CASE Enqueue(c)
    <3>1. pc[c] = "inserted"
      BY <2>2 DEF Enqueue
    <3> QED
      BY <1>3, <2>1, <3>1, NothingEarly, BoundsAssumption DEF Quiet
  <2>3. CASE Listening(c)
    BY <1>3, <2>1, <2>3 DEF HeldInv, Quiet
  <2>4. Enqueue(c) \/ Listening(c)
    BY <1>1, <1>2, StreamSteps DEF Listening, OpenStream, Insert, Goto, Typed
  <2> QED
    BY <2>2, <2>3, <2>4
<1>4. ASSUME PollStream(c) \/ EndStreams \/ TakeResponse \/ MatchStream \/ Deliver \/ Resume
      PROVE  Listening(c) /\ (~PollStream(c) => got'[c] = got[c])
  BY <1>1, <1>4 DEF PollStream, EndStreams, TakeResponse, MatchStream, Deliver, Resume, callVars,
                    sharedVars, Listening
<1>5. CASE PollStream(c)
  <2>1. CASE Head(inbox[c]).body /= Closed
    BY <1>1, <1>5, <2>1, StreamPolled, BoundsAssumption, <1>4 DEF HeldInv
  <2>2. CASE Head(inbox[c]).body = Closed
    <3>1. UNCHANGED <<filter, streams, got>> /\ inbox'[c] = Tail(inbox[c]) /\ inbox[c] /= <<>>
      BY <1>1, <1>5, <2>2 DEF PollStream, Closed, Terminal, Typed
    <3>2. Holds(c)' => Holds(c)
      <4>1. \A i \in 1 .. Len(inbox'[c]) : i + 1 \in 2 .. Len(inbox[c]) /\ inbox'[c][i] = inbox[c][i + 1]
        BY <1>1, <3>1, TakeFacts DEF Typed
      <4>2. Len(inbox[c]) \in Nat
        BY <1>1, InQueue DEF Typed
      <4>3. ASSUME NEW i \in 1 .. Len(inbox'[c]), inbox'[c][i].body /= Closed
            PROVE  \E j \in 1 .. Len(inbox[c]) : inbox[c][j].body /= Closed
        <5>1. i + 1 \in 1 .. Len(inbox[c])
          BY <4>1, <4>2
        <5> QED
          BY <4>1, <4>3, <5>1
      <4> QED
        BY <3>1, <4>3 DEF Holds
    <3> QED
      BY <1>4, <1>5, <3>1, <3>2 DEF HeldInv
  <2> QED
    BY <2>1, <2>2
<1>6. CASE EndStreams
  <2>1. UNCHANGED filter /\ c \notin streams'
    BY <1>6 DEF EndStreams
  <2>2. inbox'[c] = inbox[c] \/ inbox'[c] = Append(inbox[c], Envelope(c, Closed, 0, 0))
    BY <1>1, <1>6 DEF EndStreams
  <2>3. inbox[c] \in Seq(Frames) /\ Envelope(c, Closed, 0, 0) \in Frames
        /\ Envelope(c, Closed, 0, 0).body = Closed
    BY <1>1, FrameFacts, EnvelopeFacts DEF Typed, Bodies
  <2>4. \A i \in 1 .. Len(inbox'[c]) : inbox'[c][i].body /= Closed =>
           i \in 1 .. Len(inbox[c]) /\ inbox'[c][i] = inbox[c][i]
    BY <2>2, <2>3, PutFacts
  <2>5. Holds(c)' => Holds(c)
    BY <2>1, <2>4 DEF Holds
  <2> QED
    BY <1>4, <1>6, <2>1, <2>5, <1>1 DEF HeldInv, PollStream, EndStreams
<1>7. CASE TakeResponse
  <2>1. got'[c] = got[c] /\ Listening(c) /\ UNCHANGED streams
    BY <1>7, <1>4 DEF TakeResponse, callVars
  <2>2. pc[c] \in {"inserted", "sent", "open"}
    BY <2>1 DEF Listening
  <2>3. CASE Holds(c)'
    <3>1. filter'.env = Head(Queue) /\ "responses" \notin taken /\ filter'.at = "matching"
      BY <1>7, <2>2, <2>3, FilterMoves, IdleFacts DEF Holds
    <3>2. c \in streams /\ Head(Queue).to = c
      BY <2>1, <2>3, <3>1 DEF Holds
    <3>3. Follows(Queue, c, got[c])
      <4>1. ~Holds(c)
        BY <1>7, <2>2, FilterMoves
      <4> QED
        BY <2>1, <3>1, <3>2, <4>1 DEF FlowInv, Left
    <3>4. Queue /= <<>> /\ Queue \in Seq(Frames)
      BY <1>7, QueueSteps
    <3>5. Head(Queue).nth = got[c] + 1
      BY <1>1, <3>2, <3>3, <3>4, FollowsTail
    <3> QED
      BY <2>1, <3>1, <3>5 DEF HeldInv
  <2>4. CASE ~Holds(c)'
    BY <2>1, <2>4 DEF HeldInv
  <2> QED
    BY <2>3, <2>4
<1>8. CASE MatchStream \/ Deliver \/ Resume
  <2>1. got'[c] = got[c] /\ Listening(c)
    BY <1>8, <1>4 DEF MatchStream, Deliver, Resume, callVars
  <2>2. pc[c] \in {"inserted", "sent", "open"}
    BY <2>1 DEF Listening
  <2>3. Holds(c)' => Holds(c) /\ filter'.env = filter.env
    BY <1>8, <2>2, FilterMoves
  <2> QED
    BY <2>1, <2>3 DEF HeldInv
<1> QED
  BY <1>1, <1>2, <1>3, <1>5, <1>6, <1>7, <1>8, StreamSteps

(* No answer to a stream in the map gets lost on the way, and none is       *)
(* overtaken.                                                               *)
LEMMA FlowStep ==
    /\ Typed /\ EndInv /\ FrameInv /\ InboxInv /\ EarlyInv /\ HeldInv /\ FlowInv
    /\ [Next]_vars
    => FlowInv'
<1> SUFFICES ASSUME Typed, EndInv, FrameInv, InboxInv, EarlyInv, HeldInv, FlowInv, [Next]_vars,
                    NEW c \in Streams, Listening(c)', c \in streams', "responses" \notin taken'
             PROVE  /\ Follows(Queue', c, Left(c)')
                    /\ link' = "up" /\ io' /= "ended" /\ served'[c] <= StreamLength =>
                          UpTo(Queue', c, Left(c)', served'[c])
  BY DEF FlowInv
<1> DEFINE goal == /\ Follows(Queue', c, Left(c)')
                   /\ link' = "up" /\ io' /= "ended" /\ served'[c] <= StreamLength =>
                          UpTo(Queue', c, Left(c)', served'[c])
<1>1. c \in Calls /\ c /= None /\ pc'[c] \in {"sent", "open"} /\ got[c] \in Nat /\ served[c] \in Nat
      /\ Queue \in Seq(Frames) /\ Len(Queue) \in Nat
  BY QueueSteps, InQueue, CallsAssumption DEF Listening, Calls, Typed, None
<1>2. "responses" \notin taken /\ "streams" \notin taken
  BY Monotone DEF Typed
<1>3. ~EndStreams /\ ~Insert(c)
  BY <1>1 DEF EndStreams, Insert, Goto, Typed
<1>4. CASE Enqueue(c)
  <2>1. pc[c] = "inserted" /\ UNCHANGED <<Queue, served>> /\ Quiet(c)
    BY <1>1, <1>4 DEF Enqueue, Queue, wireVars, Quiet, Goto, Typed
  <2>2. ~Holds(c)' /\ got'[c] = 0 /\ served'[c] = 0 /\ \A i \in 1 .. Len(Queue') : Queue'[i].to /= c
    BY <2>1, NothingEarly DEF Quiet, Holds
  <2> QED
    BY <2>2 DEF Left, Follows, UpTo
<1>5. CASE Listening(c) /\ c \in streams
  <2>1. Left(c) \in Nat /\ pc[c] \in {"inserted", "sent", "open"}
    BY <1>1, <1>5 DEF Left, Listening
  <2>2. Follows(Queue, c, Left(c))
    BY <1>2, <1>5 DEF FlowInv
  <2>3. ASSUME link' = "up", io' /= "ended", served[c] <= StreamLength
        PROVE  UpTo(Queue, c, Left(c), served[c])
    BY <1>2, <1>5, <2>3, Monotone DEF FlowInv
  <2>4. CASE TakeResponse
    <3>1. UNCHANGED <<got, served, streams>>
      BY <2>4 DEF TakeResponse, callVars, wireVars
    <3>2. Queue /= <<>> /\ Queue' = Tail(Queue)
      BY <2>4, QueueSteps
    <3>3. ~Holds(c) /\ filter'.env = Head(Queue) /\ filter'.at = "matching"
      BY <1>2, <2>1, <2>4, FilterMoves
    <3>4. Left(c) = got[c] /\ Left(c)' = IF Head(Queue).to = c THEN got[c] + 1 ELSE got[c]
      BY <1>5, <3>1, <3>3 DEF Left, Holds
    <3>5. CASE Head(Queue).to = c
      <4>1. Follows(Queue', c, got[c] + 1)
        BY <1>1, <2>2, <3>2, <3>4, <3>5, FollowsTail
      <4>2. ASSUME UpTo(Queue, c, got[c], served[c]) PROVE UpTo(Queue', c, got[c] + 1, served[c])
        BY <1>1, <2>2, <3>2, <3>4, <3>5, <4>2, UpToTail
      <4> QED
        BY <2>3, <3>1, <3>4, <3>5, <4>1, <4>2
    <3>6. CASE Head(Queue).to /= c
      <4>1. Follows(Queue', c, got[c])
        BY <1>1, <2>2, <3>2, <3>4, <3>6, FollowsTail
      <4>2. ASSUME UpTo(Queue, c, got[c], served[c]) PROVE UpTo(Queue', c, got[c], served[c])
        BY <1>1, <2>2, <3>2, <3>4, <3>6, <4>2, UpToTail
      <4> QED
        BY <2>3, <3>1, <3>4, <3>6, <4>1, <4>2
    <3> QED
      BY <3>5, <3>6
  <2>5. CASE ~TakeResponse
    <3>1. Left(c)' = Left(c)
      <4>1. CASE Quiet(c)
        BY <4>1 DEF Quiet, Left, Holds
      <4>2. CASE PollStream(c)
        <5>1. Head(inbox[c]).body /= Closed
          <6>1. inbox[c] /= <<>>
            BY <4>2 DEF PollStream
          <6>2. 1 \in 1 .. Len(inbox[c]) /\ Head(inbox[c]) = inbox[c][1]
            BY <1>1, <6>1, TakeFacts DEF Typed
          <6>3. inbox[c][1] = filter.env /\ filter.at = "waiting" /\ filter.env.to = c
            BY <1>1, <1>2, <6>2 DEF InboxInv
          <6> QED
            BY <1>1, <6>2, <6>3, SoundBody DEF FrameInv
        <5>2. Holds(c) /\ ~Holds(c)' /\ got'[c] = got[c] + 1
          BY <4>2, <5>1, StreamPolled
        <5> QED
          BY <5>2 DEF Left
      <4>3. CASE MatchStream \/ Deliver \/ Resume
        <5>1. got' = got
          BY <4>3 DEF MatchStream, Deliver, Resume, callVars
        <5>2. Holds(c)' <=> Holds(c)
          BY <2>1, <4>3, FilterMoves
        <5> QED
          BY <5>1, <5>2 DEF Left
      <4> QED
        BY <1>1, <1>3, <2>5, <4>1, <4>2, <4>3, StreamSteps
    <3>2. CASE UNCHANGED <<incoming, wireIn, served>> \/ ReadMessage
      <4>1. UNCHANGED <<Queue, served>>
        BY <3>2, QueueSteps DEF Queue, ReadMessage
      <4> QED
        BY <2>2, <2>3, <3>1, <4>1
    <3>3. CASE HandOut
      <4>1. UNCHANGED served /\ Queue /= <<>> /\ Queue' = Tail(Queue) /\ Head(Queue).to /= c
        BY <1>1, <3>3, QueueSteps DEF HandOut, wireVars
      <4>2. Follows(Queue', c, Left(c))
        BY <1>1, <2>1, <2>2, <4>1, FollowsTail
      <4>3. ASSUME UpTo(Queue, c, Left(c), served[c]) PROVE UpTo(Queue', c, Left(c), served[c])
        BY <1>1, <2>1, <2>2, <4>1, <4>3, UpToTail
      <4> QED
        BY <2>3, <3>1, <4>1, <4>2, <4>3
    <3>4. CASE OtherSends \/ \E d \in Calls : OtherResponds(d) \/ OtherStreams(d)
      <4>1. PICK t \in Calls \union {None}, b \in Bodies, n \in Nat :
              /\ Put(t, b, n)
              /\ Queue' = Append(Queue, Envelope(t, b, sent + 1, n))
              /\ Envelope(t, b, sent + 1, n) \in Frames
              /\ t \in Streams => /\ n = served[t] + 1 /\ served[t] <= StreamLength
                                  /\ served'[t] = n \/ served'[t] > StreamLength
              /\ \A d \in Streams : d /= t => served'[d] = served[d]
        BY <3>4, PutSteps
      <4> DEFINE e == Envelope(t, b, sent + 1, n)
      <4>2. e \in Frames /\ e.to = t /\ e.nth = n /\ Queue' = Append(Queue, e)
        BY <4>1, EnvelopeFacts
      <4> HIDE DEF e
      <4>3. CASE t = c
        <5>1. link' = "up" /\ io' /= "ended"
          BY <3>4, <4>1 DEF Put, OtherSends, OtherResponds, OtherStreams
        <5>2. UpTo(Queue, c, Left(c), served[c]) /\ n = served[c] + 1
          BY <2>3, <4>1, <4>3, <5>1
        <5>3. Follows(Queue', c, Left(c)) /\ UpTo(Queue', c, Left(c), served[c] + 1)
          BY <1>1, <2>1, <2>2, <4>2, <4>3, <5>2, FollowsAppend
        <5>4. served'[c] = served[c] + 1 \/ served'[c] > StreamLength
          BY <4>1, <4>3
        <5>5. served'[c] \in Nat
          BY <1>1, TypedStep DEF Typed
        <5>6. served'[c] <= StreamLength => served'[c] = served[c] + 1
          BY <5>4, <5>5, BoundsAssumption
        <5> QED
          BY <3>1, <5>3, <5>6
      <4>4. CASE t /= c
        <5>1. Follows(Queue', c, Left(c))
          BY <1>1, <2>1, <2>2, <4>2, <4>4, FollowsAppend
        <5>2. ASSUME UpTo(Queue, c, Left(c), served[c]) PROVE UpTo(Queue', c, Left(c), served[c])
          BY <1>1, <2>1, <4>2, <4>4, <5>2, UpToAppendOther
        <5>3. served'[c] = served[c]
          BY <4>1, <4>4
        <5> QED
          BY <2>3, <3>1, <5>1, <5>2, <5>3
      <4> QED
        BY <4>3, <4>4
    <3>5. CASE LinkBreaks \/ EndQueues
      <4>1. link' = "dead" \/ io' = "ended"
        BY <3>5 DEF LinkBreaks, EndQueues
      <4>2. /\ Len(Queue') \in Nat /\ Len(Queue') <= Len(Queue)
            /\ \A i \in 1 .. Len(Queue') : Queue[i] = Queue'[i]
        BY <3>5, QueueSteps
      <4>3. Follows(Queue', c, Left(c))
        BY <1>1, <2>2, <4>2, FollowsPrefix
      <4> QED
        BY <3>1, <4>1, <4>3
    <3> QED
      BY <2>5, <3>2, <3>3, <3>4, <3>5
      DEF Next, vars, sharedVars, wireVars, Lookup, Insert, Enqueue, PollRequest, OpenStream,
          PollStream, StreamEnds, DropRequest, AbandonStream, DropStream, WriteOutgoing, IoError,
          IoClosed, ParkedTimeout, EndResponses, EndStreams, EndEntry, MatchStream, Deliver,
          Resume, Disconnect
  <2> QED
    BY <2>4, <2>5
<1>6. Enqueue(c) \/ (Listening(c) /\ c \in streams)
  <2>1. Enqueue(c) \/ Listening(c)
    BY <1>1, <1>3, StreamSteps DEF Listening, OpenStream
  <2>2. c \in streams
    BY <1>1, <1>3 DEF Next, vars, sharedVars, Typed, Lookup, Insert, Enqueue, PollRequest,
        OpenStream, PollStream, StreamEnds, DropRequest, AbandonStream, DropStream, OtherResponds,
        OtherStreams, WriteOutgoing, IoError, IoClosed, ReadMessage, ParkedTimeout,
        EndResponses, EndStreams, EndEntry, EndQueues, HandOut, TakeResponse, MatchStream,
        Deliver, Resume, Disconnect, OtherSends, LinkBreaks
  <2> QED
    BY <2>1, <2>2
<1> QED
  BY <1>4, <1>5, <1>6

(* A stream that leaves the map is told why.                                *)
LEMMA ToldStep ==
    /\ Typed /\ EndInv /\ FrameInv /\ InboxInv /\ HeldInv /\ EarlyInv /\ ToldInv
    /\ [Next]_vars
    => ToldInv'
<1> DEFINE News(c) == \E i \in 1 .. Len(inbox[c]) : inbox[c][i].body \in Terminal \union {Closed}
           Coming(c) == filter.at = "sending" /\ filter.env.to = c /\ filter.env.body \in Terminal
           Told(c) == errored[c] \/ got[c] = StreamLength \/ News(c) \/ Coming(c)
<1> SUFFICES ASSUME Typed, EndInv, FrameInv, InboxInv, HeldInv, EarlyInv, ToldInv, [Next]_vars,
                    NEW c \in Streams, pc'[c] \in {"inserted", "sent", "open"}, c \notin streams'
             PROVE  Told(c)'
  BY DEF ToldInv
<1>1. c \in Calls /\ c \notin Requests /\ inbox[c] \in Seq(Frames) /\ Len(inbox[c]) \in Nat
      /\ got[c] \in Nat
  BY CallsAssumption, InQueue DEF Calls, Typed
<1>2. pc[c] \in {"inserted", "sent", "open"} /\ ~Insert(c)
  BY StreamSteps DEF Insert, Goto
<1>3. c \notin streams => Told(c)
  BY <1>2 DEF ToldInv
<1>4. CASE Quiet(c)
  <2>1. c \notin streams
    BY <1>4 DEF Quiet
  <2>2. News(c)' <=> News(c)
    BY <1>4 DEF Quiet
  <2>3. Coming(c)' <=> Coming(c)
    BY <1>4 DEF Quiet
  <2>4. errored'[c] = errored[c] /\ got'[c] = got[c]
    BY <1>4 DEF Quiet
  <2> QED
    BY <1>3, <2>1, <2>2, <2>3, <2>4
<1>5. CASE PollStream(c)
  <2>1. inbox[c] /= <<>> /\ UNCHANGED filter /\ inbox'[c] = Tail(inbox[c]) /\ pc[c] = "open"
    BY <1>1, <1>5 DEF PollStream, Typed
  <2>2. CASE Head(inbox[c]).body = Closed
    <3>1. errored' = [errored EXCEPT ![c] = TRUE]
      BY <1>5, <2>2 DEF PollStream
    <3>2. errored'[c]
      BY <1>1, <3>1, Zenon DEF Typed
    <3> QED
      BY <3>2
  <2>3. CASE Head(inbox[c]).body /= Closed
    <3>1. /\ \/ /\ filter.env.body = "item" /\ got[c] < StreamLength
                /\ got'[c] = got[c] + 1 /\ streams' = streams
             \/ filter.env.body = "end" /\ got[c] = StreamLength /\ got'[c] = got[c]
             \/ errored'[c]
      BY <1>5, <2>3, StreamPolled
    <3>2. CASE filter.env.body = "item" /\ got[c] < StreamLength /\ streams' = streams
      <4>1. Told(c) /\ got[c] /= StreamLength
        BY <1>1, <1>3, <3>2, BoundsAssumption
      <4>2. filter.at = "waiting" /\ Head(inbox[c]) = filter.env
        BY <1>1, <2>1, <2>3, TakenFromFilter
      <4>3. errored' = errored
        BY <1>5, <3>2, <4>2 DEF PollStream, Closed
      <4>4. CASE News(c)
        <5>1. PICK i \in 1 .. Len(inbox[c]) : inbox[c][i].body \in Terminal \union {Closed}
          BY <4>4
        <5>2. Len(Tail(inbox[c])) = Len(inbox[c]) - 1 /\ Head(inbox[c]) = inbox[c][1]
              /\ \A j \in 1 .. Len(Tail(inbox[c])) : Tail(inbox[c])[j] = inbox[c][j + 1]
          BY <1>1, <2>1, TakeFacts
        <5>3. i /= 1
          BY <3>2, <4>2, <5>1, <5>2 DEF Terminal, Closed
        <5>4. i - 1 \in 1 .. Len(inbox'[c]) /\ inbox'[c][i - 1] = inbox[c][i]
          BY <1>1, <2>1, <5>1, <5>2, <5>3
        <5> QED
          BY <5>1, <5>4
      <4> QED
        BY <4>1, <4>2, <4>3, <4>4
    <3> QED
      BY <3>1, <3>2
  <2> QED
    BY <2>2, <2>3
<1>6. ASSUME EndStreams \/ TakeResponse \/ MatchStream \/ Deliver \/ Resume
      PROVE  UNCHANGED <<errored, got>>
  BY <1>6 DEF EndStreams, TakeResponse, MatchStream, Deliver, Resume, callVars
<1>7. ASSUME NEW e \in Frames, inbox'[c] = Append(inbox[c], e)
      PROVE  (News(c) => News(c)') /\ (e.body \in Terminal \union {Closed} => News(c)')
  <2>1. Len(inbox'[c]) = Len(inbox[c]) + 1 /\ inbox'[c][Len(inbox[c]) + 1] = e
        /\ \A i \in 1 .. Len(inbox[c]) : inbox'[c][i] = inbox[c][i]
    BY <1>1, <1>7, PutFacts
  <2>2. Len(inbox[c]) + 1 \in 1 .. Len(inbox'[c])
        /\ \A i \in 1 .. Len(inbox[c]) : i \in 1 .. Len(inbox'[c])
    BY <1>1, <2>1
  <2> QED
    BY <2>1, <2>2
<1>8. CASE EndStreams
  <2>1. UNCHANGED filter
    BY <1>8 DEF EndStreams
  <2>2. CASE c \in streams
    <3>1. inbox'[c] = Append(inbox[c], Envelope(c, Closed, 0, 0))
      BY <1>1, <1>2, <1>8, <2>2 DEF EndStreams
    <3>2. Envelope(c, Closed, 0, 0) \in Frames /\ Envelope(c, Closed, 0, 0).body = Closed
      BY <1>1, FrameFacts, EnvelopeFacts DEF Bodies
    <3> QED
      BY <1>7, <3>1, <3>2
  <2>3. CASE c \notin streams
    <3>1. inbox'[c] = inbox[c]
      BY <1>1, <1>8, <2>3 DEF EndStreams
    <3> QED
      BY <1>3, <1>6, <1>8, <2>1, <2>3, <3>1
  <2> QED
    BY <2>2, <2>3
<1>9. CASE TakeResponse \/ Resume
  <2>1. UNCHANGED <<inbox, streams>> /\ filter.at /= "sending"
    BY <1>9 DEF TakeResponse, Resume, callVars, sharedVars
  <2> QED
    BY <1>3, <1>6, <1>9, <2>1
<1>10. CASE MatchStream
  <2>1. UNCHANGED inbox /\ filter.at = "matching"
    BY <1>10 DEF MatchStream, callVars
  <2>2. CASE c \notin streams
    BY <1>3, <1>6, <1>10, <2>1, <2>2
  <2>3. CASE c \in streams
    <3>1. filter.env.to = c /\ filter.env.body \in Terminal
      BY <1>10, <2>3 DEF MatchStream
    <3>2. "streams" \notin taken
      BY <2>3 DEF EndInv
    <3>3. filter' = Doing("sending", filter.env, "stream")
      BY <1>1, <1>10, <2>1, <2>3, <3>1, <3>2 DEF MatchStream, FrameInv, None
    <3> QED
      BY <3>1, <3>3, DoingFacts
  <2> QED
    BY <2>2, <2>3
<1>11. CASE Deliver
  <2>1. filter.at = "sending"
    BY <1>11 DEF Deliver
  <2>2. CASE filter.env.to = c
    <3>1. inbox' = [inbox EXCEPT ![c] = Append(@, filter.env)] /\ UNCHANGED streams
      BY <1>2, <1>11, <2>2 DEF Deliver
    <3>2. inbox'[c] = Append(inbox[c], filter.env) /\ filter.env \in Frames
      BY <1>1, <3>1, FilterFacts DEF Typed
    <3> QED
      BY <1>3, <1>6, <1>7, <1>11, <3>1, <3>2
  <2>3. CASE filter.env.to /= c
    <3>1. inbox'[c] = inbox[c] /\ (c \in streams' <=> c \in streams)
      BY <1>1, <1>11, <2>3 DEF Deliver, Typed
    <3> QED
      BY <1>3, <1>6, <1>11, <2>3, <3>1
  <2> QED
    BY <2>2, <2>3
<1> QED
  BY <1>2, <1>4, <1>5, <1>8, <1>9, <1>10, <1>11, StreamSteps

(* A stream ends when it was told why.                                      *)
LEMMA DoneStep ==
    /\ Typed /\ FrameInv /\ InboxInv /\ HeldInv /\ ToldInv /\ DoneInv
    /\ [Next]_vars
    => DoneInv'
<1> SUFFICES ASSUME Typed, FrameInv, InboxInv, HeldInv, ToldInv, DoneInv, [Next]_vars,
                    NEW c \in Calls
             PROVE  /\ pc'[c] = "ended" => c \in Streams /\ (errored'[c] \/ got'[c] = StreamLength)
                    /\ pc'[c] = "open" => c \in Streams
                    /\ got'[c] <= StreamLength
  BY DEF DoneInv
<1>1. c \in Streams => c \notin Requests
  BY CallsAssumption
<1>2. CASE PollStream(c)
  <2>1. pc[c] = "open" /\ UNCHANGED pc /\ c \in Streams /\ got[c] <= StreamLength /\ got[c] \in Nat
    BY <1>2 DEF PollStream, DoneInv, Typed
  <2>2. got'[c] <= StreamLength
    <3>1. CASE Head(inbox[c]).body = Closed
      BY <1>2, <2>1, <3>1 DEF PollStream, Closed
    <3>2. CASE Head(inbox[c]).body /= Closed
      BY <1>2, <2>1, <3>2, StreamPolled, BoundsAssumption
    <3> QED
      BY <3>1, <3>2
  <2> QED
    BY <2>1, <2>2
<1>3. CASE ~PollStream(c)
  <2>1. errored'[c] = errored[c] /\ got'[c] = got[c]
    <3>1. ASSUME NEW d \in Calls, d /= c, PollStream(d)
          PROVE  errored'[c] = errored[c] /\ got'[c] = got[c]
      <4>1. errored' = errored \/ errored' = [errored EXCEPT ![d] = TRUE]
        BY <3>1 DEF PollStream
      <4>2. got' = got \/ got' = [got EXCEPT ![d] = @ + 1]
        BY <3>1 DEF PollStream
      <4> QED
        BY <3>1, <4>1, <4>2 DEF Typed
    <3> QED
      BY <1>3, <3>1
      DEF Next, vars, callVars, Lookup, Insert, Enqueue, PollRequest, OpenStream, StreamEnds,
          DropRequest, AbandonStream, DropStream, OtherResponds, OtherStreams, WriteOutgoing,
          IoError, IoClosed, ReadMessage, ParkedTimeout, EndResponses, EndStreams, EndEntry,
          EndQueues, HandOut, TakeResponse, MatchStream, Deliver, Resume, Disconnect,
          OtherSends, LinkBreaks
  <2>2. CASE pc'[c] = pc[c]
    BY <2>1, <2>2 DEF DoneInv
  <2>3. CASE StreamEnds(c)
    <3>1. pc[c] = "open" /\ inbox[c] = <<>> /\ ~SenderAlive(c) /\ pc'[c] = "ended"
      BY <2>3 DEF StreamEnds, Goto, Typed
    <3>2. c \in Streams /\ c \notin streams
      BY <3>1 DEF DoneInv, SenderAlive
    <3>3. ~(filter.at = "sending" /\ filter.env.to = c)
      BY <3>1 DEF SenderAlive, FrameInv
    <3>4. Len(inbox[c]) = 0
      BY <3>1
    <3>5. errored[c] \/ got[c] = StreamLength
      BY <3>1, <3>2, <3>3, <3>4 DEF ToldInv
    <3> QED
      BY <2>1, <3>1, <3>2, <3>5 DEF DoneInv
  <2>4. CASE pc'[c] /= pc[c] /\ ~StreamEnds(c)
    <3>1. pc'[c] /= "ended" /\ (pc'[c] = "open" => c \in Streams)
      BY <2>4, OnlyMoves
      DEF Moves, Goto, Typed, Lookup, Insert, Enqueue, PollRequest, OpenStream, DropRequest,
          AbandonStream, DropStream
    <3> QED
      BY <2>1, <3>1 DEF DoneInv
  <2> QED
    BY <2>2, <2>3, <2>4
<1> QED
  BY <1>2, <1>3

-----------------------------------------------------------------------------
(* The theorems.                                                            *)

(* The inductive invariant holds in every state of every behaviour.         *)
THEOREM Invariance == Spec => []IInv
<1>1. IInv /\ [Next]_vars => IInv'
  BY TypedStep, EndStep, FrameStep, PlaceStep, InboxStep, RequestStep, EarlyStep, HeldStep,
     FlowStep, ToldStep, DoneStep DEF IInv
<1> QED
  BY Initially, <1>1, PTL DEF Spec

(* Types, and the capacity of the queue between the socket and the filter:  *)
(* the reader parks before a second envelope goes beyond the buffer, and no *)
(* receiver ever holds more than an answer and the news of the end.         *)
THEOREM TypeCorrect == Spec => []TypeOK
<1>1. IInv => TypeOK
  <2> SUFFICES ASSUME IInv PROVE TypeOK
    OBVIOUS
  <2>1. filter.at \in {"idle", "matching", "sending", "waiting"} /\ filter.held \in {None, "response", "stream"}
    BY FilterFacts DEF IInv, Typed
  <2>2. ASSUME NEW c \in Calls PROVE Len(inbox[c]) <= 2
    <3>1. Len(inbox[c]) \in Nat
      BY InQueue DEF IInv, Typed
    <3>2. ASSUME Len(inbox[c]) > 2 PROVE FALSE
      <4>1. 1 \in 1 .. Len(inbox[c]) /\ 2 \in 1 .. Len(inbox[c]) /\ 3 \in 1 .. Len(inbox[c])
        BY <3>1, <3>2
      <4>2. /\ (inbox[c][1].body = Closed) /= (inbox[c][2].body = Closed)
            /\ (inbox[c][1].body = Closed) /= (inbox[c][3].body = Closed)
            /\ (inbox[c][2].body = Closed) /= (inbox[c][3].body = Closed)
        BY <4>1 DEF IInv, InboxInv
      <4> QED
        BY <4>2
    <3> QED
      BY <3>1, <3>2
  <2> QED
    BY <2>1, <2>2 DEF IInv, Typed, EndInv, DoneInv, TypeOK
<1> QED
  BY <1>1, Invariance, PTL

(* What a caller is told is true: a stream that ends without an error has   *)
(* yielded everything, and a call fails only when its connection is over,   *)
(* between whichever of the filter's locks the end of handle_io falls.      *)
THEOREM TrueOutcomes == Spec => []OutcomesAreTrue
<1>1. IInv => OutcomesAreTrue
  BY DEF IInv, DoneInv, RequestInv, OutcomesAreTrue, Over
<1> QED
  BY <1>1, Invariance, PTL

(* A stream that is at its end, was dropped or could not be sent leaves no  *)
(* sender in stream_response_channels.                                      *)
THEOREM NoLeakedStreams == Spec => []NoStreamLeaks
<1>1. IInv => NoStreamLeaks
  BY DEF IInv, EarlyInv, NoStreamLeaks
<1> QED
  BY <1>1, Invariance, PTL

(* The application gets what the other end sends in the order in which it   *)
(* was sent, through whichever task: the barrier that comes with a response *)
(* holds the filter back until it was taken.                                *)
THEOREM OrderKept == Spec => OrderIsKept
<1>1. IInv /\ [Next]_vars => [latest' >= latest]_vars
  <2> SUFFICES ASSUME IInv, [Next]_vars PROVE latest' >= latest
    OBVIOUS
  <2>1. latest <= latest'
    BY PlaceStep DEF IInv
  <2>2. latest \in Nat /\ latest' \in Nat
    BY TypedStep DEF IInv, Typed
  <2> QED
    BY <2>1, <2>2
<1> QED
  BY <1>1, Invariance, PTL DEF Spec, OrderIsKept
=============================================================================
