------------------------ MODULE RemoteChannelProofs ------------------------
(***************************************************************************)
(* Proofs about RemoteChannel, for any number of messages, requests,       *)
(* streams, background threads and dropped connections.                    *)
(***************************************************************************)
EXTENDS RemoteChannel, SequenceTheorems, WellFoundedInduction, TLAPS

(* What e has sent and may still arrive: under way or queued, or kept to be *)
(* sent again.                                                              *)
Moving(e) == Range(link[Peer(e)]) \union (IF e = "server" THEN Range(outgoing) ELSE {})
Travelling(e) == Moving(e) \union Range(buffer[e])

Kinds == Buffered \union {"flush", "ack", "started"}
Frames == [id : Nat, kind : Kinds, ack : Nat \union {NoId}, to : Nat \union {NoId},
           item : 0 .. StreamLength]
Running == [id : Nat, kind : {"req", "streamreq"}, done : 0 .. StreamLength]
Steps == [at : {Idle, "numbered", "buffered"}, id : Nat \union {NoId}, ack : Nat \union {NoId}]

Typed ==
    /\ phase \in {"connecting", "started", "pinging", "connected", "lost",
                  "flushing", "resyncing", "flushed"}
    /\ link \in [Ends -> Seq(Frames)]
    /\ buffer \in [Ends -> Seq(Frames)]
    /\ outgoing \in Seq(Frames)
    /\ started \in [Ends -> BOOLEAN]
    /\ nextId \in [Ends -> Nat]
    /\ maxReceived \in [Ends -> Nat]
    /\ responses \in [Ends -> SUBSET (Nat \X {"req", "flush"})]
    /\ streams \subseteq Nat
    /\ handlers = [e \in Ends |-> handlers[e]]
    /\ \A e \in Ends : BagToSet(handlers[e]) \subseteq Running
    /\ sending \in [Threads -> Steps]
    /\ disconnects \in 0 .. MaxDisconnects
    /\ sent \in [Ends -> SUBSET Nat]
    /\ received \in [Ends -> SUBSET Nat]
    /\ own \in [Ends -> [Handled -> Nat]]

(* Ids count up, and whatever is under way was numbered before.             *)
NumberInv ==
    /\ \A e \in Ends :
          /\ \A m \in Travelling(e) : IF m.kind = "started" THEN m.id = 0 ELSE m.id < nextId[e]
          /\ \A id \in sent[e] \union received[Peer(e)] : id < nextId[e]
          /\ \A r \in responses[e] : r[1] < nextId[e]
    /\ \A id \in streams : id < nextId["client"]
    /\ \A t \in Threads : sending[t].at /= Idle => sending[t].id \in Nat
                                                  /\ sending[t].id < nextId[ThreadEnd[t]]

(* Nobody acknowledges what it has not observed.                            *)
AckInv ==
    \A e \in Ends :
        /\ maxReceived[e] \in received[e] \union {0}
        /\ \A m \in Travelling(e) : m.ack \in received[e] \union {0, NoId}
        /\ \A t \in Threads : ThreadEnd[t] = e => sending[t].ack \in received[e] \union {0, NoId}

(* The client's RemoteStarted is the first thing that the server reads.     *)
FirstRead ==
    IF started["client"]
    THEN link["server"] /= <<>> /\ Head(link["server"]).kind = "started"
    ELSE link["server"] = <<>> /\ phase = "connecting"

(* Before the server has taken its first id nothing but RemoteStarted is    *)
(* under way from it, so that the client has nothing to answer.             *)
BeginInv ==
    /\ IF phase = "connecting"
         THEN \A t \in Threads : ThreadEnd[t] = "client" => sending[t].at = Idle
         ELSE nextId["client"] > 0
    /\ nextId["server"] = 0 =>
          /\ received["server"] = {}
          /\ phase \in {"connecting", "started", "pinging"}
          /\ \A m \in Travelling("server") : m.kind = "started"
          /\ BagToSet(handlers["client"]) = {}
          /\ FirstRead

(* Requests and flushes have ids of their own, and what answers one of them *)
(* cannot be taken for the answer to the other.                             *)
MatchInv ==
    \A e \in Ends :
        /\ <<0, "req">> \notin responses[e]
        /\ \A m \in Travelling(e) :
              /\ m.kind \in {"req", "streamreq"} => <<m.id, "flush">> \notin responses[e]
              /\ m.kind = "flush" => <<m.id, "req">> \notin responses[e]
              /\ m.kind = "resp" => /\ <<m.to, "flush">> \notin responses[Peer(e)]
                                    /\ m.to < nextId[Peer(e)]
              /\ m.kind = "ack" => /\ <<m.to, "req">> \notin responses[Peer(e)]
                                   /\ m.to = 0 \/ m.to < nextId[Peer(e)]
        /\ \A h \in BagToSet(handlers[e]) :
              <<h.id, "flush">> \notin responses[Peer(e)] /\ h.id < nextId[Peer(e)]

IInv ==
    /\ Typed /\ NumberInv /\ AckInv /\ AckIsEarned /\ BeginInv /\ MatchInv
    /\ AnswersMatchRequests

-----------------------------------------------------------------------------
(* Sequences, bags and the front of the buffer.                             *)

(* What is in a sequence after appending, joining or taking the first.      *)
LEMMA RangeFacts ==
    ASSUME NEW S, NEW s \in Seq(S)
    PROVE  /\ Range(s) = {s[i] : i \in 1 .. Len(s)} /\ Range(s) \subseteq S
           /\ Range(<<>>) = {}
           /\ \A x \in S : Append(s, x) \in Seq(S) /\ Range(Append(s, x)) = Range(s) \union {x}
           /\ \A t \in Seq(S) : s \o t \in Seq(S) /\ Range(s \o t) = Range(s) \union Range(t)
           /\ s /= <<>> => /\ Head(s) \in Range(s) /\ Tail(s) \in Seq(S)
                           /\ Range(Tail(s)) \subseteq Range(s)
<1>1. Len(s) \in Nat /\ DOMAIN s = 1 .. Len(s) /\ \A i \in 1 .. Len(s) : s[i] \in S
  BY LenProperties, ElementOfSeq
<1>2. Range(s) = {s[i] : i \in 1 .. Len(s)} /\ Range(s) \subseteq S /\ Range(<<>>) = {}
  BY <1>1 DEF Range
<1>3. ASSUME NEW x \in S
      PROVE  Append(s, x) \in Seq(S) /\ Range(Append(s, x)) = Range(s) \union {x}
  <2>1. /\ Append(s, x) \in Seq(S) /\ Len(Append(s, x)) = Len(s) + 1
        /\ DOMAIN Append(s, x) = 1 .. Len(s) + 1
        /\ \A i \in 1 .. Len(s) : Append(s, x)[i] = s[i]
        /\ Append(s, x)[Len(s) + 1] = x
    BY <1>1, AppendProperties, LenProperties
  <2>2. Range(Append(s, x)) \subseteq Range(s) \union {x}
    <3> SUFFICES ASSUME NEW i \in 1 .. Len(s) + 1 PROVE Append(s, x)[i] \in Range(s) \union {x}
      BY <2>1 DEF Range
    <3> QED
      BY <1>1, <1>2, <2>1
  <2>3. Range(s) \subseteq Range(Append(s, x))
    <3> SUFFICES ASSUME NEW i \in 1 .. Len(s) PROVE s[i] \in Range(Append(s, x))
      BY <1>2
    <3>1. i \in 1 .. Len(s) + 1 /\ Append(s, x)[i] = s[i]
      BY <1>1, <2>1
    <3> QED
      BY <2>1, <3>1 DEF Range
  <2>4. x \in Range(Append(s, x))
    BY <1>1, <2>1 DEF Range
  <2> QED
    BY <2>1, <2>2, <2>3, <2>4
<1>4. ASSUME NEW t \in Seq(S)
      PROVE  s \o t \in Seq(S) /\ Range(s \o t) = Range(s) \union Range(t)
  BY ConcatProperties, RangeConcatenation
<1>5. ASSUME s /= <<>>
      PROVE  Head(s) \in Range(s) /\ Tail(s) \in Seq(S) /\ Range(Tail(s)) \subseteq Range(s)
  <2>1. /\ Len(s) \in Nat \ {0} /\ Head(s) = s[1] /\ Tail(s) \in Seq(S)
        /\ Len(Tail(s)) = Len(s) - 1 /\ DOMAIN Tail(s) = 1 .. Len(s) - 1
        /\ \A i \in 1 .. Len(s) - 1 : Tail(s)[i] = s[i + 1]
    BY <1>5, EmptySeq, LenProperties, HeadTailProperties
  <2>2. Range(Tail(s)) \subseteq Range(s)
    <3> SUFFICES ASSUME NEW i \in 1 .. Len(s) - 1 PROVE Tail(s)[i] \in Range(s)
      BY <2>1 DEF Range
    <3>1. i + 1 \in 1 .. Len(s) /\ Tail(s)[i] = s[i + 1]
      BY <2>1
    <3> QED
      BY <1>2, <3>1
  <2> QED
    BY <1>2, <2>1, <2>2
<1> QED
  BY <1>2, <1>3, <1>4, <1>5

(* What is in the sum and the difference of two bags of handlers.           *)
LEMMA BagFacts ==
    ASSUME NEW B, NEW C, NEW S
    PROVE  /\ BagToSet(B (+) C) = BagToSet(B) \union BagToSet(C)
           /\ BagToSet(B (-) C) \subseteq BagToSet(B)
           /\ BagToSet(SetToBag(S)) = S
           /\ BagToSet(EmptyBag) = {}
<1>1. BagToSet(B (+) C) = BagToSet(B) \union BagToSet(C)
  BY DEF BagToSet, (+)
<1>2. BagToSet(B (-) C) \subseteq BagToSet(B)
  BY DEF BagToSet, (-)
<1>3. BagToSet(SetToBag(S)) = S
  BY DEF BagToSet, SetToBag
<1>4. BagToSet(EmptyBag) = {}
  BY DEF BagToSet, EmptyBag, SetToBag
<1> QED
  BY <1>1, <1>2, <1>3, <1>4

(* A set of naturals has a least element.                                   *)
LEMMA LeastIndex ==
    ASSUME NEW T, T \subseteq Nat, T /= {}
    PROVE  \E x \in T : \A y \in T : x <= y
<1>1. PICK x \in T : \A y \in T : <<y, x>> \notin OpToRel(<, Nat)
  BY WFMin, NatLessThanWellFounded
<1>2. \A y \in T : ~(y < x)
  BY <1>1 DEF OpToRel
<1> QED
  BY <1>2

(* Only what an ack covers leaves the buffer.                               *)
LEMMA AckFacts ==
    ASSUME NEW e, buffer[e] \in Seq(Frames), NEW m \in Frames
    PROVE  /\ Acknowledged(e, m) \in Seq(Frames)
           /\ Range(Acknowledged(e, m)) \subseteq Range(buffer[e])
           /\ \A x \in Range(buffer[e]) \ Range(Acknowledged(e, m)) : x.id <= m.ack /\ m.ack \in Nat
<1> DEFINE s == buffer[e]
           keep == {i \in DOMAIN s : s[i].id > m.ack}
<1>1. m.ack \in Nat \union {NoId} /\ NoId \notin Nat
  BY DEF Frames, NoId
<1>2. /\ Len(s) \in Nat /\ DOMAIN s = 1 .. Len(s) /\ Range(s) = {s[i] : i \in 1 .. Len(s)}
      /\ \A i \in 1 .. Len(s) : s[i] \in Frames
  BY LenProperties, RangeFacts, ElementOfSeq
<1>3. \A i \in 1 .. Len(s) : s[i].id \in Nat
  BY <1>2 DEF Frames
<1>4. CASE m.ack = NoId
  BY <1>4 DEF Acknowledged
<1>5. CASE m.ack /= NoId /\ keep = {}
  <2>1. Acknowledged(e, m) = <<>>
    BY <1>5 DEF Acknowledged
  <2>2. \A x \in Range(s) : x.id <= m.ack
    BY <1>1, <1>2, <1>3, <1>5
  <2> QED
    BY <1>1, <1>5, <2>1, <2>2, RangeFacts, EmptySeq
<1>6. CASE m.ack /= NoId /\ keep /= {}
  <2> DEFINE k == CHOOSE i \in keep : \A j \in keep : i <= j
  <2>1. keep \subseteq Nat
    BY <1>2
  <2>2. \E i \in keep : \A j \in keep : i <= j
    BY <1>6, <2>1, LeastIndex
  <2>3. k \in keep /\ \A j \in keep : k <= j
    BY <2>2
  <2>4. k \in 1 .. Len(s)
    BY <1>2, <2>3
  <2>5. Acknowledged(e, m) = SubSeq(s, k, Len(s))
    BY <1>6 DEF Acknowledged
  <2> HIDE DEF k, keep
  <2>6. \A i \in k .. Len(s) : s[i] \in Frames
    BY <1>2, <2>4
  <2>7. /\ SubSeq(s, k, Len(s)) \in Seq(Frames)
        /\ Len(SubSeq(s, k, Len(s))) = Len(s) - k + 1
        /\ \A i \in 1 .. Len(s) - k + 1 : SubSeq(s, k, Len(s))[i] = s[k + i - 1]
    BY <1>2, <2>4, <2>6, SubSeqProperties
  <2>8. Range(SubSeq(s, k, Len(s))) = {SubSeq(s, k, Len(s))[i] : i \in 1 .. Len(s) - k + 1}
    <3> DEFINE u == SubSeq(s, k, Len(s))
    <3> HIDE DEF s, u
    <3>1. Range(u) = {u[i] : i \in 1 .. Len(u)}
      BY <2>7, RangeFacts DEF u
    <3> QED
      BY <2>7, <3>1 DEF u
  <2>9. Range(SubSeq(s, k, Len(s))) \subseteq Range(s)
    <3> SUFFICES ASSUME NEW i \in 1 .. Len(s) - k + 1 PROVE s[k + i - 1] \in Range(s)
      BY <2>7, <2>8
    <3>1. k + i - 1 \in 1 .. Len(s)
      BY <1>2, <2>4
    <3> QED
      BY <1>2, <3>1
  <2>10. ASSUME NEW x \in Range(s) \ Range(SubSeq(s, k, Len(s))) PROVE x.id <= m.ack
    <3>1. PICK i \in 1 .. Len(s) : x = s[i]
      BY <1>2, <2>10
    <3>2. CASE i < k
      <4>1. i \notin keep
        BY <2>1, <2>3, <2>4, <3>2
      <4> QED
        BY <1>1, <1>2, <1>3, <1>6, <3>1, <4>1 DEF keep
    <3>3. CASE i >= k
      <4>1. i - k + 1 \in 1 .. Len(s) - k + 1 /\ k + (i - k + 1) - 1 = i
        BY <1>2, <2>4, <3>3
      <4>2. SubSeq(s, k, Len(s))[i - k + 1] = x
        BY <2>7, <3>1, <4>1
      <4> QED
        BY <2>8, <2>10, <4>1, <4>2
    <3> QED
      BY <2>4, <3>2, <3>3
  <2> QED
    BY <1>1, <1>6, <2>5, <2>7, <2>9, <2>10
<1> QED
  BY <1>4, <1>5, <1>6

-----------------------------------------------------------------------------
(* What the helpers of the actions do to the queues and buffers.            *)

(* The other end of the other end is this end.                              *)
LEMMA PeerFacts ==
    ASSUME NEW e \in Ends
    PROVE  Peer(e) \in Ends /\ Peer(Peer(e)) = e /\ Peer(e) /= e
  BY DEF Ends, Peer

(* The fields of an envelope.                                               *)
LEMMA EnvelopeFacts ==
    ASSUME NEW id \in Nat, NEW kind \in Kinds, NEW ack \in Nat \union {NoId},
           NEW to \in Nat \union {NoId}, NEW item \in 0 .. StreamLength
    PROVE  /\ Envelope(id, kind, ack, to, item) \in Frames
           /\ Envelope(id, kind, ack, to, item).id = id
           /\ Envelope(id, kind, ack, to, item).kind = kind
           /\ Envelope(id, kind, ack, to, item).ack = ack
           /\ Envelope(id, kind, ack, to, item).to = to
  BY DEF Envelope, Frames

(* Counting what an end started keeps the type of the counters.             *)
LEMMA CountFacts ==
    ASSUME Typed, NEW e \in Ends, NEW kind \in Handled, Count(e, kind)
    PROVE  own' \in [Ends -> [Handled -> Nat]]
<1>1. own[e] \in [Handled -> Nat] /\ own \in [Ends -> [Handled -> Nat]]
  BY DEF Typed
<1>2. [own[e] EXCEPT ![kind] = @ + 1] \in [Handled -> Nat]
  BY <1>1
<1> QED
  BY <1>1, <1>2 DEF Count

(* Whatever is under way or buffered is an envelope.                        *)
LEMMA TravellingFacts ==
    ASSUME Typed, NEW e \in Ends
    PROVE  Travelling(e) \subseteq Frames
  BY RangeFacts, PeerFacts DEF Typed, Travelling, Moving

(* A queue that a step leaves alone or only takes from brings nothing new.  *)
LEMMA TransmitFacts ==
    ASSUME Typed, NEW e \in Ends, NEW links \in [Ends -> Seq(Frames)],
           \A d \in Ends : Range(links[d]) \subseteq Range(link[d]),
           NEW q \in Seq(Frames), Transmit(e, links, q)
    PROVE  /\ link' \in [Ends -> Seq(Frames)] /\ outgoing' \in Seq(Frames)
           /\ \A d \in Ends : Moving(d)' \subseteq
                  Moving(d) \union (IF d = e THEN Range(q) ELSE {})
<1>1. link \in [Ends -> Seq(Frames)] /\ outgoing \in Seq(Frames)
  BY DEF Typed
<1>2. CASE e = "server"
  <2>1. outgoing' = outgoing \o q /\ link' = links
    BY <1>2 DEF Transmit
  <2>2. outgoing' \in Seq(Frames) /\ Range(outgoing') = Range(outgoing) \union Range(q)
    BY <1>1, <2>1, RangeFacts
  <2> QED
    BY <1>2, <2>1, <2>2 DEF Moving, Ends, Peer
<1>3. CASE e = "client"
  <2>1. /\ outgoing' = outgoing
        /\ link' = [links EXCEPT !["server"] = IF phase = "lost" THEN @ ELSE @ \o q]
    BY <1>3 DEF Transmit
  <2>2. /\ links["server"] \o q \in Seq(Frames)
        /\ Range(links["server"] \o q) = Range(links["server"]) \union Range(q)
    BY RangeFacts DEF Ends
  <2>3. link' \in [Ends -> Seq(Frames)]
    BY <2>1, <2>2 DEF Ends
  <2>4. /\ link'["client"] = links["client"]
        /\ link'["server"] \in {links["server"], links["server"] \o q}
    BY <2>1 DEF Ends
  <2>5. Range(link'["server"]) \subseteq Range(link["server"]) \union Range(q)
    BY <2>2, <2>4 DEF Ends
  <2> QED
    BY <1>1, <1>3, <2>1, <2>3, <2>4, <2>5 DEF Moving, Ends, Peer
<1> QED
  BY <1>2, <1>3 DEF Ends

(* The same for one envelope on the links as they are.                      *)
LEMMA TransmitOne ==
    ASSUME Typed, NEW e \in Ends, NEW m \in Frames, Transmit(e, link, <<m>>)
    PROVE  /\ link' \in [Ends -> Seq(Frames)] /\ outgoing' \in Seq(Frames)
           /\ \A d \in Ends : Moving(d)' \subseteq
                  Moving(d) \union (IF d = e THEN {m} ELSE {})
<1>1. link \in [Ends -> Seq(Frames)]
  BY DEF Typed
<1>2. <<m>> \in Seq(Frames) /\ Range(<<m>>) = {m}
  BY DEF Range
<1> QED
  BY <1>1, <1>2, TransmitFacts

(* send_buffered makes one envelope, which is then in the buffer.           *)
LEMMA SendFacts ==
    ASSUME Typed, NEW e \in Ends, NEW kind \in Buffered, NEW to \in Nat \union {NoId},
           NEW item \in 0 .. StreamLength, SendBuffered(e, kind, to, item)
    PROVE  /\ link' \in [Ends -> Seq(Frames)] /\ outgoing' \in Seq(Frames)
           /\ buffer' \in [Ends -> Seq(Frames)]
           /\ \A d \in Ends :
                 /\ Travelling(d)' \subseteq Travelling(d) \union
                       (IF d = e THEN {Envelope(nextId[e], kind, maxReceived[e], to, item)} ELSE {})
                 /\ Range(buffer'[d]) = Range(buffer[d]) \union
                       (IF d = e THEN {Envelope(nextId[e], kind, maxReceived[e], to, item)} ELSE {})
<1> DEFINE env == Envelope(nextId[e], kind, maxReceived[e], to, item)
<1>1. env \in Frames
  BY EnvelopeFacts DEF Typed, Kinds
<1>2. Transmit(e, link, <<env>>) /\ buffer' = [buffer EXCEPT ![e] = Append(@, env)]
  BY DEF SendBuffered
<1> HIDE DEF env
<1>3. /\ link' \in [Ends -> Seq(Frames)] /\ outgoing' \in Seq(Frames)
      /\ \A d \in Ends : Moving(d)' \subseteq Moving(d) \union (IF d = e THEN {env} ELSE {})
  BY <1>1, <1>2, TransmitOne
<1>4. buffer \in [Ends -> Seq(Frames)]
  BY DEF Typed
<1>5. /\ Append(buffer[e], env) \in Seq(Frames)
      /\ Range(Append(buffer[e], env)) = Range(buffer[e]) \union {env}
  BY <1>1, <1>4, RangeFacts
<1>6. /\ buffer' \in [Ends -> Seq(Frames)] /\ buffer'[e] = Append(buffer[e], env)
      /\ \A d \in Ends : d /= e => buffer'[d] = buffer[d]
  BY <1>2, <1>4, <1>5
<1>7. \A d \in Ends : Range(buffer'[d]) = Range(buffer[d]) \union (IF d = e THEN {env} ELSE {})
  BY <1>5, <1>6
<1>8. \A d \in Ends : Travelling(d)' \subseteq Travelling(d) \union (IF d = e THEN {env} ELSE {})
  BY <1>3, <1>7 DEF Travelling
<1> QED
  BY <1>3, <1>6, <1>7, <1>8 DEF env

(* What the reader takes came from the peer.                                *)
LEMMA ReadFacts ==
    ASSUME Typed, NEW e \in Ends, CanRead(e)
    PROVE  /\ Head(link[e]) \in Frames /\ Head(link[e]) \in Travelling(Peer(e))
           /\ Head(link[e]) \in Range(link[e])
           /\ Rest(e) \in [Ends -> Seq(Frames)]
           /\ \A d \in Ends : Range(Rest(e)[d]) \subseteq Range(link[d])
<1>1. link \in [Ends -> Seq(Frames)] /\ link[e] \in Seq(Frames) /\ link[e] /= <<>>
  BY DEF Typed, CanRead
<1>2. /\ Head(link[e]) \in Range(link[e]) /\ Range(link[e]) \subseteq Frames
      /\ Tail(link[e]) \in Seq(Frames) /\ Range(Tail(link[e])) \subseteq Range(link[e])
  BY <1>1, RangeFacts
<1>3. Rest(e) \in [Ends -> Seq(Frames)] /\ Rest(e)[e] = Tail(link[e])
  BY <1>1, <1>2 DEF Rest
<1>4. \A d \in Ends : d /= e => Rest(e)[d] = link[d]
  BY <1>1 DEF Rest
<1> QED
  BY <1>2, <1>3, <1>4, PeerFacts DEF Travelling, Moving

(* Applying an ack takes from one buffer and adds to none.                  *)
LEMMA ApplyFacts ==
    ASSUME Typed, NEW e \in Ends, NEW m \in Frames,
           buffer' = [buffer EXCEPT ![e] = Acknowledged(e, m)]
    PROVE  /\ buffer' \in [Ends -> Seq(Frames)]
           /\ buffer'[e] = Acknowledged(e, m)
           /\ \A d \in Ends : Range(buffer'[d]) \subseteq Range(buffer[d])
           /\ \A d \in Ends : \A x \in Range(buffer[d]) \ Range(buffer'[d]) :
                 d = e /\ x.id <= m.ack /\ m.ack \in Nat
<1>1. buffer \in [Ends -> Seq(Frames)] /\ buffer[e] \in Seq(Frames)
  BY DEF Typed
<1>2. /\ Acknowledged(e, m) \in Seq(Frames)
      /\ Range(Acknowledged(e, m)) \subseteq Range(buffer[e])
      /\ \A x \in Range(buffer[e]) \ Range(Acknowledged(e, m)) : x.id <= m.ack /\ m.ack \in Nat
  BY <1>1, AckFacts
<1>3. /\ buffer' \in [Ends -> Seq(Frames)] /\ buffer'[e] = Acknowledged(e, m)
      /\ \A d \in Ends : d /= e => buffer'[d] = buffer[d]
  BY <1>1, <1>2
<1> QED
  BY <1>2, <1>3

-----------------------------------------------------------------------------
(* What one step may do, as far as the invariant needs it.                  *)

(* An id that this step takes from the counter, or that a background thread *)
(* took before.                                                             *)
Numbered(e, id) ==
    \/ id = nextId[e] /\ nextId'[e] = nextId[e] + 1
    \/ \E t \in Threads : ThreadEnd[t] = e /\ sending[t].at /= Idle /\ id = sending[t].id

(* An envelope that a step puts in a queue or a buffer of e.                *)
New(e, m) ==
    IF m.kind = "started" THEN m.id = 0 /\ m.ack = NoId
    ELSE /\ Numbered(e, m.id)
         /\ \/ m.ack \in {NoId, maxReceived[e]}
            \/ \E t \in Threads : ThreadEnd[t] = e /\ m.ack = sending[t].ack
         /\ m.kind \in {"req", "streamreq", "flush"} =>
               m.id = nextId[e] /\ \A r \in responses'[e] : r \in responses[e] \/ r[2] = m.kind
         /\ m.kind \in {"req", "streamreq"} => e = "client" \/ received["server"] /= {}
         /\ m.kind = "resp" => \E h \in BagToSet(handlers[e]) : h.id = m.to
         /\ m.kind = "ack" =>
               \E x \in Travelling(Peer(e)) : x.kind \in {"flush", "started"} /\ x.id = m.to

Travels == \A e \in Ends : \A m \in Travelling(e)' : m \in Travelling(e) \/ New(e, m)

Keeps ==
    \A e \in Ends : \A x \in Range(buffer[e]) \ Range(buffer'[e]) :
        \E m \in Travelling(Peer(e)) : m.ack \in Nat /\ x.id <= m.ack

Counts ==
    /\ \A e \in Ends :
          /\ nextId'[e] \in {nextId[e], nextId[e] + 1}
          /\ \A r \in responses'[e] :
                \/ r \in responses[e]
                \/ /\ r[1] = nextId[e] /\ nextId'[e] = nextId[e] + 1
                   /\ r[2] = "req" => nextId[e] > 0
          /\ \A id \in sent'[e] :
                id \in sent[e] \/ (Numbered(e, id) /\ \E x \in Range(buffer'[e]) : x.id = id)
    /\ \A id \in streams' :
          id \in streams \/ (id = nextId["client"] /\ nextId'["client"] = nextId["client"] + 1)

Pushes ==
    \A t \in Threads :
        /\ sending'[t].at /= Idle =>
              IF sending[t].at /= Idle THEN sending'[t].id = sending[t].id
              ELSE /\ sending'[t].id = nextId[ThreadEnd[t]]
                   /\ nextId'[ThreadEnd[t]] = nextId[ThreadEnd[t]] + 1
        /\ sending'[t].ack \in {sending[t].ack, NoId, maxReceived[ThreadEnd[t]]}

Runs ==
    \A e \in Ends : \A h \in BagToSet(handlers'[e]) :
        \/ \E g \in BagToSet(handlers[e]) : g.id = h.id
        \/ \E x \in Travelling(Peer(e)) : x.kind \in {"req", "streamreq"} /\ x.id = h.id

Observes ==
    \A e \in Ends :
        /\ received[e] \subseteq received'[e]
        /\ \A id \in received'[e] :
              id \in received[e] \/ \E x \in Travelling(Peer(e)) : x.kind /= "started" /\ x.id = id
        /\ maxReceived'[e] \in {maxReceived[e]} \union received'[e]

Effect == Typed' /\ Travels /\ Keeps /\ Counts /\ Pushes /\ Runs /\ Observes

(* The effect of each step, one lemma for each action.                      *)
LEMMA Stutter ==
    ASSUME Typed, UNCHANGED vars
    PROVE  Effect
<1> USE DEF vars, netVars, endVars, histVars
<1>1. Typed'
  BY DEF Typed
<1>2. Travels
  BY DEF Travels, Travelling, Moving
<1>3. Keeps /\ Runs /\ Observes
  BY DEF Keeps, Runs, Observes
<1>4. Counts /\ Pushes
  BY DEF Counts, Pushes
<1> QED
  BY <1>1, <1>2, <1>3, <1>4 DEF Effect

(* Parts of the effect that hold because what they are about is left alone. *)
LEMMA Untouched ==
           /\ UNCHANGED buffer => Keeps
           /\ UNCHANGED <<nextId, responses, sent, streams>> => Counts
           /\ UNCHANGED sending => Pushes
           /\ UNCHANGED handlers => Runs
           /\ UNCHANGED <<received, maxReceived>> => Observes
<1>1. UNCHANGED buffer => Keeps
  BY DEF Keeps
<1>2. UNCHANGED <<nextId, responses, sent, streams>> => Counts
  BY DEF Counts
<1>3. UNCHANGED sending => Pushes
  BY DEF Pushes
<1>4. UNCHANGED handlers => Runs
  BY DEF Runs
<1>5. UNCHANGED <<received, maxReceived>> => Observes
  BY DEF Observes
<1> QED
  BY <1>1, <1>2, <1>3, <1>4, <1>5

(* A drop empties the links and nothing else.                               *)
LEMMA DisconnectEffect ==
    ASSUME Typed, Disconnect
    PROVE  Effect
<1> USE DEF Disconnect, endVars, histVars
<1>1. Keeps /\ Counts /\ Pushes /\ Runs /\ Observes
  BY Untouched
<1>2. link' \in [Ends -> Seq(Frames)] /\ \A e \in Ends : Range(link'[e]) = {}
  BY EmptySeq, RangeFacts
<1>3. Typed'
  BY <1>2, BoundsAssumption DEF Typed
<1>4. Travels
  BY <1>2, PeerFacts DEF Travels, Travelling, Moving
<1> QED
  BY <1>1, <1>3, <1>4 DEF Effect

(* New queues and a new reader.                                             *)
LEMMA ReconnectEffect ==
    ASSUME Typed, Reconnect
    PROVE  Effect
<1> USE DEF Reconnect, endVars, histVars
<1>1. Keeps /\ Counts /\ Pushes /\ Runs /\ Observes
  BY Untouched
<1>2. Typed'
  BY DEF Typed
<1>3. Travels
  BY DEF Travels, Travelling, Moving
<1> QED
  BY <1>1, <1>2, <1>3 DEF Effect

(* RemoteStarted, with the id 0.                                            *)
LEMMA StartReaderEffect ==
    ASSUME Typed, NEW e \in Ends, StartReader(e)
    PROVE  Effect
<1> DEFINE m == Control(0, "started", NoId, NoId)
<1> USE DEF StartReader, endVars, histVars
<1>1. Keeps /\ Counts /\ Pushes /\ Runs /\ Observes
  BY Untouched
<1>2. m \in Frames /\ m.kind = "started" /\ m.id = 0 /\ m.ack = NoId
  BY BoundsAssumption DEF Control, Envelope, Frames, Kinds
<1> HIDE DEF m
<1>3. /\ link' \in [Ends -> Seq(Frames)] /\ outgoing' \in Seq(Frames)
      /\ \A d \in Ends : Moving(d)' \subseteq Moving(d) \union (IF d = e THEN {m} ELSE {})
  BY <1>2, TransmitOne DEF m
<1>4. Typed'
  BY <1>3 DEF Typed
<1>5. Travels
  BY <1>2, <1>3 DEF Travels, Travelling, New
<1> QED
  BY <1>1, <1>4, <1>5 DEF Effect

(* An envelope goes from the server's queue to the link.                    *)
LEMMA ServerWriteEffect ==
    ASSUME Typed, ServerWrite
    PROVE  Effect
<1> USE DEF ServerWrite, endVars, histVars
<1>1. Keeps /\ Counts /\ Pushes /\ Runs /\ Observes
  BY Untouched
<1>2. link \in [Ends -> Seq(Frames)] /\ outgoing \in Seq(Frames) /\ outgoing /= <<>>
  BY DEF Typed
<1>3. /\ Head(outgoing) \in Range(outgoing) /\ Head(outgoing) \in Frames
      /\ outgoing' \in Seq(Frames) /\ Range(outgoing') \subseteq Range(outgoing)
  BY <1>2, RangeFacts
<1>4. /\ Append(link["client"], Head(outgoing)) \in Seq(Frames)
      /\ Range(Append(link["client"], Head(outgoing))) = Range(link["client"]) \union {Head(outgoing)}
  BY <1>2, <1>3, RangeFacts DEF Ends
<1>5. /\ link' \in [Ends -> Seq(Frames)] /\ link'["server"] = link["server"]
      /\ link'["client"] = Append(link["client"], Head(outgoing))
  BY <1>2, <1>4 DEF Ends
<1>6. Typed'
  BY <1>3, <1>5 DEF Typed
<1>7. \A e \in Ends : Moving(e)' \subseteq Moving(e)
  BY <1>3, <1>4, <1>5 DEF Moving, Ends, Peer
<1>8. Travels
  BY <1>7 DEF Travels, Travelling
<1> QED
  BY <1>1, <1>6, <1>8 DEF Effect

(* What resync sends again was in the buffer.                               *)
LEMMA ResendEffect ==
    ASSUME Typed, Resend
    PROVE  Effect
<1> USE DEF Resend, endVars, histVars
<1>1. Keeps /\ Counts /\ Pushes /\ Runs /\ Observes
  BY Untouched
<1>2. /\ "client" \in Ends /\ buffer["client"] \in Seq(Frames) /\ link \in [Ends -> Seq(Frames)]
      /\ Transmit("client", link, buffer["client"])
  BY DEF Typed, Ends
<1>3. /\ link' \in [Ends -> Seq(Frames)] /\ outgoing' \in Seq(Frames)
      /\ \A d \in Ends : Moving(d)' \subseteq
             Moving(d) \union (IF d = "client" THEN Range(buffer["client"]) ELSE {})
  BY <1>2, TransmitFacts
<1>4. Typed'
  BY <1>3 DEF Typed
<1>5. Travels
  BY <1>3 DEF Travels, Travelling
<1> QED
  BY <1>1, <1>4, <1>5 DEF Effect

(* A flush, with a new id.                                                  *)
LEMMA ResyncEffect ==
    ASSUME Typed, Resync
    PROVE  Effect
<1> DEFINE m == Control(nextId["client"], "flush", maxReceived["client"], NoId)
<1> USE DEF Resync, histVars
<1>1. Keeps /\ Pushes /\ Runs /\ Observes
  BY Untouched
<1>2. Counts
  BY DEF Counts, Typed, Ends
<1>3. /\ m \in Frames /\ m.kind = "flush" /\ m.id = nextId["client"]
      /\ m.ack = maxReceived["client"] /\ "client" \in Ends
  BY BoundsAssumption DEF Control, Envelope, Frames, Kinds, Typed, Ends
<1>4. Transmit("client", link, <<m>>)
  OBVIOUS
<1> HIDE DEF m
<1>5. /\ link' \in [Ends -> Seq(Frames)] /\ outgoing' \in Seq(Frames)
      /\ \A d \in Ends : Moving(d)' \subseteq Moving(d) \union (IF d = "client" THEN {m} ELSE {})
  BY <1>3, <1>4, TransmitOne
<1>6. Typed'
  <2>1. responses' \in [Ends -> SUBSET (Nat \X {"req", "flush"})] /\ nextId' \in [Ends -> Nat]
    BY DEF Typed, Ends
  <2> QED
    BY <1>5, <2>1 DEF Typed
<1>7. New("client", m)
  <2>1. Numbered("client", m.id)
    BY <1>3 DEF Numbered, Typed
  <2>2. \A r \in responses'["client"] : r \in responses["client"] \/ r[2] = "flush"
    BY DEF Typed, Ends
  <2> QED
    BY <1>3, <2>1, <2>2 DEF New
<1>8. Travels
  BY <1>5, <1>7 DEF Travels, Travelling
<1> QED
  BY <1>1, <1>2, <1>6, <1>8 DEF Effect

(* A background thread takes an id.                                         *)
LEMMA AllocateIdEffect ==
    ASSUME Typed, NEW t \in Threads, AllocateId(t)
    PROVE  Effect
<1> USE DEF AllocateId, netVars
<1>1. Keeps /\ Runs /\ Observes
  BY Untouched
<1>2. ThreadEnd[t] \in Ends /\ nextId \in [Ends -> Nat]
  BY BoundsAssumption DEF Typed
<1>3. Counts
  BY <1>2 DEF Counts
<1>4. Pushes
  BY <1>2 DEF Pushes, Typed
<1>5. Travels
  BY DEF Travels, Travelling, Moving
<1>6. sending' \in [Threads -> Steps]
  BY <1>2 DEF Typed, Steps
<1>7. own' \in [Ends -> [Handled -> Nat]]
  BY <1>2, CountFacts DEF Handled
<1>8. Typed'
  BY <1>2, <1>6, <1>7 DEF Typed
<1> QED
  BY <1>1, <1>3, <1>4, <1>5, <1>8 DEF Effect

(* A background thread sends under the id it took.                          *)
LEMMA PushQueueEffect ==
    ASSUME Typed, NEW t \in Threads, sending[t].at /= Idle => sending[t].id \in Nat, PushQueue(t)
    PROVE  Effect
<1> DEFINE e == ThreadEnd[t]
           m == Control(sending[t].id, "msg", sending[t].ack, NoId)
<1> USE DEF PushQueue, endVars, histVars
<1>1. Keeps /\ Counts /\ Runs /\ Observes
  BY Untouched
<1>2. e \in Ends /\ sending[t] \in Steps /\ sending[t].at /= Idle
  BY BoundsAssumption DEF Typed, Idle
<1>3. m \in Frames /\ m.kind = "msg" /\ m.id = sending[t].id /\ m.ack = sending[t].ack
  BY <1>2, BoundsAssumption DEF Control, Envelope, Frames, Kinds, Buffered, Handled, Steps
<1>4. Transmit(e, link, <<m>>)
  OBVIOUS
<1> HIDE DEF m, e
<1>5. /\ link' \in [Ends -> Seq(Frames)] /\ outgoing' \in Seq(Frames)
      /\ \A d \in Ends : Moving(d)' \subseteq Moving(d) \union (IF d = e THEN {m} ELSE {})
  BY <1>2, <1>3, <1>4, TransmitOne
<1>6. sending' \in [Threads -> Steps]
  BY DEF Typed, Steps
<1>7. Typed'
  BY <1>5, <1>6 DEF Typed
<1>8. New(e, m)
  BY <1>2, <1>3 DEF New, Numbered, e
<1>9. Travels
  BY <1>5, <1>8 DEF Travels, Travelling
<1>10. Pushes
  BY DEF Pushes, Typed
<1> QED
  BY <1>1, <1>7, <1>9, <1>10 DEF Effect

(* A background thread buffers under the id it took.                        *)
LEMMA PushBufferEffect ==
    ASSUME Typed, NEW t \in Threads, sending[t].at /= Idle => sending[t].id \in Nat, PushBuffer(t)
    PROVE  Effect
<1> DEFINE e == ThreadEnd[t]
           m == Control(sending[t].id, "msg", maxReceived[e], NoId)
<1> USE DEF PushBuffer, netVars
<1>1. Runs /\ Observes
  BY Untouched
<1>2. /\ e \in Ends /\ sending \in [Threads -> Steps] /\ sending[t] \in Steps
      /\ sending[t].at /= Idle /\ sending[t].id \in Nat /\ maxReceived[e] \in Nat
      /\ buffer \in [Ends -> Seq(Frames)]
  BY BoundsAssumption DEF Typed, Idle
<1>3. m \in Frames /\ m.kind = "msg" /\ m.id = sending[t].id /\ m.ack = maxReceived[e]
  BY <1>2, BoundsAssumption DEF Control, Envelope, Frames, Kinds, Buffered, Handled
<1>4. buffer' = [buffer EXCEPT ![e] = Append(@, m)] /\ sent' = [sent EXCEPT ![e] = @ \union {m.id}]
  BY <1>3
<1> HIDE DEF m
<1>5. Append(buffer[e], m) \in Seq(Frames) /\ Range(Append(buffer[e], m)) = Range(buffer[e]) \union {m}
  BY <1>2, <1>3, RangeFacts
<1>6. /\ buffer' \in [Ends -> Seq(Frames)] /\ buffer'[e] = Append(buffer[e], m)
      /\ \A d \in Ends : d /= e => buffer'[d] = buffer[d]
  BY <1>2, <1>4, <1>5
<1>7. \A d \in Ends : Range(buffer'[d]) = Range(buffer[d]) \union (IF d = e THEN {m} ELSE {})
  BY <1>5, <1>6
<1>8. sending' \in [Threads -> Steps] /\ sending'[t].id = sending[t].id /\ sending'[t].ack = maxReceived[e]
      /\ \A u \in Threads : u /= t => sending'[u] = sending[u]
  BY <1>2 DEF Steps
<1>9. Typed'
  <2>1. sent \in [Ends -> SUBSET Nat] /\ m.id \in Nat
    BY <1>2, <1>3 DEF Typed
  <2>2. sent' \in [Ends -> SUBSET Nat]
    BY <1>2, <1>4, <2>1
  <2> QED
    BY <1>6, <1>8, <2>2 DEF Typed
<1>10. New(e, m)
  BY <1>2, <1>3 DEF New, Numbered
<1>11. Travels
  <2>1. \A d \in Ends : Moving(d)' = Moving(d)
    BY DEF Moving
  <2> QED
    BY <1>7, <1>10, <2>1 DEF Travels, Travelling
<1>12. Keeps
  BY <1>7 DEF Keeps
<1>13. Pushes
  BY <1>2, <1>8 DEF Pushes
<1>14. Counts
  <2>1. Numbered(e, m.id) /\ m \in Range(buffer'[e])
    BY <1>2, <1>3, <1>7 DEF Numbered
  <2>2. \A d \in Ends : \A id \in sent'[d] : id \in sent[d] \/ (d = e /\ id = m.id)
    BY <1>4 DEF Typed
  <2> QED
    BY <2>1, <2>2 DEF Counts
<1> QED
  BY <1>1, <1>9, <1>11, <1>12, <1>13, <1>14 DEF Effect

(* send_buffered on the foreground thread, for whichever caller.            *)
LEMMA SendEffect ==
    ASSUME Typed, NEW e \in Ends, NEW kind \in Buffered, NEW to \in Nat \union {NoId},
           NEW item \in 0 .. StreamLength, SendBuffered(e, kind, to, item),
           kind = "req" => nextId[e] > 0,
           kind = "streamreq" => e = "client",
           kind = "req" => e = "client" \/ received["server"] /= {},
           kind = "resp" => \E h \in BagToSet(handlers[e]) : h.id = to
    PROVE  /\ link' \in [Ends -> Seq(Frames)] /\ outgoing' \in Seq(Frames)
           /\ buffer' \in [Ends -> Seq(Frames)] /\ nextId' \in [Ends -> Nat]
           /\ responses' \in [Ends -> SUBSET (Nat \X {"req", "flush"})]
           /\ streams' \subseteq Nat /\ sent' \in [Ends -> SUBSET Nat]
           /\ Travels /\ Keeps /\ Counts
<1> DEFINE m == Envelope(nextId[e], kind, maxReceived[e], to, item)
<1>1. /\ link' \in [Ends -> Seq(Frames)] /\ outgoing' \in Seq(Frames)
      /\ buffer' \in [Ends -> Seq(Frames)]
      /\ \A d \in Ends :
            /\ Travelling(d)' \subseteq Travelling(d) \union (IF d = e THEN {m} ELSE {})
            /\ Range(buffer'[d]) = Range(buffer[d]) \union (IF d = e THEN {m} ELSE {})
  BY SendFacts
<1>2. m.id = nextId[e] /\ m.kind = kind /\ m.ack = maxReceived[e] /\ m.to = to
  BY DEF Envelope
<1>3. kind /= "started" /\ kind /= "flush" /\ kind /= "ack"
  BY DEF Buffered, Handled, Answers
<1>4. nextId \in [Ends -> Nat] /\ nextId[e] \in Nat /\ nextId' = [nextId EXCEPT ![e] = @ + 1]
  BY DEF Typed, SendBuffered
<1>5. nextId' \in [Ends -> Nat] /\ nextId'[e] = nextId[e] + 1 /\ \A d \in Ends : d /= e => nextId'[d] = nextId[d]
  BY <1>4
<1>6. /\ responses' \in [Ends -> SUBSET (Nat \X {"req", "flush"})]
      /\ \A d \in Ends : \A r \in responses'[d] :
            r \in responses[d] \/ (d = e /\ kind = "req" /\ r = <<nextId[e], kind>>)
  BY <1>4 DEF SendBuffered, Typed
<1>7. /\ sent' \in [Ends -> SUBSET Nat]
      /\ \A d \in Ends : \A id \in sent'[d] : id \in sent[d] \/ (d = e /\ id = nextId[e])
  BY <1>4 DEF SendBuffered, Typed
<1>8. /\ streams' \subseteq Nat
      /\ \A id \in streams' : id \in streams \/ (kind = "streamreq" /\ id = nextId[e])
  BY <1>4 DEF SendBuffered, Typed
<1> HIDE DEF m
<1>9. New(e, m)
  <2>1. Numbered(e, m.id)
    BY <1>2, <1>5 DEF Numbered
  <2>2. \A r \in responses'[e] : r \in responses[e] \/ r[2] = m.kind
    BY <1>2, <1>6
  <2> QED
    BY <1>2, <1>3, <2>1, <2>2 DEF New
<1>10. Travels
  BY <1>1, <1>9 DEF Travels
<1>11. Keeps
  BY <1>1 DEF Keeps
<1>12. Counts
  <2>1. \A d \in Ends : \A r \in responses'[d] :
           r \in responses[d] \/ (r[1] = nextId[d] /\ nextId'[d] = nextId[d] + 1
                                  /\ (r[2] = "req" => nextId[d] > 0))
    BY <1>5, <1>6
  <2>2. Numbered(e, nextId[e]) /\ m \in Range(buffer'[e]) /\ m.id = nextId[e]
    BY <1>1, <1>2, <1>5 DEF Numbered
  <2>3. \A d \in Ends : \A id \in sent'[d] :
           id \in sent[d] \/ (Numbered(d, id) /\ \E x \in Range(buffer'[d]) : x.id = id)
    BY <1>7, <2>2
  <2> QED
    BY <1>5, <1>8, <2>1, <2>3 DEF Counts
<1> QED
  BY <1>1, <1>5, <1>6, <1>7, <1>8, <1>10, <1>11, <1>12

(* A request has no id 0: before one may be made, an Ack took that id.      *)
LEMMA SendActionEffect ==
    ASSUME Typed, BeginInv, NEW e \in Ends, NEW kind \in Handled, Send(e, kind)
    PROVE  Effect
<1> USE DEF Send
<1>1. Runs /\ Observes /\ Pushes
  BY Untouched
<1>2. kind \in Buffered /\ 0 \in 0 .. StreamLength /\ NoId \in Nat \union {NoId} /\ kind /= "resp"
  BY BoundsAssumption DEF Buffered, Handled
<1>3. kind = "req" => nextId[e] > 0
  BY DEF MaySend, BeginInv, Typed, Ends
<1>4. kind = "streamreq" => e = "client"
  BY DEF Bound, Typed, Ends
<1>5. kind = "req" => e = "client" \/ received["server"] /= {}
  BY DEF Send, MaySend, Ends
<1>6. /\ link' \in [Ends -> Seq(Frames)] /\ outgoing' \in Seq(Frames)
      /\ buffer' \in [Ends -> Seq(Frames)] /\ nextId' \in [Ends -> Nat]
      /\ responses' \in [Ends -> SUBSET (Nat \X {"req", "flush"})]
      /\ streams' \subseteq Nat /\ sent' \in [Ends -> SUBSET Nat]
      /\ Travels /\ Keeps /\ Counts
  BY <1>2, <1>3, <1>4, <1>5, SendEffect
<1>7. own' \in [Ends -> [Handled -> Nat]]
  BY CountFacts
<1>8. Typed'
  BY <1>6, <1>7 DEF Typed
<1> QED
  BY <1>1, <1>6, <1>8 DEF Effect

(* The first ping, by which time the id 0 is taken.                         *)
LEMMA PingEffect ==
    ASSUME Typed, BeginInv, Ping
    PROVE  Effect
<1> USE DEF Ping
<1>1. Runs /\ Observes /\ Pushes
  BY Untouched
<1>2. "req" \in Buffered /\ 0 \in 0 .. StreamLength /\ "client" \in Ends
  BY BoundsAssumption DEF Buffered, Handled, Ends
<1>3. nextId["client"] > 0
  BY DEF BeginInv
<1>4. /\ link' \in [Ends -> Seq(Frames)] /\ outgoing' \in Seq(Frames)
      /\ buffer' \in [Ends -> Seq(Frames)] /\ nextId' \in [Ends -> Nat]
      /\ responses' \in [Ends -> SUBSET (Nat \X {"req", "flush"})]
      /\ streams' \subseteq Nat /\ sent' \in [Ends -> SUBSET Nat]
      /\ Travels /\ Keeps /\ Counts
  BY <1>2, <1>3, SendEffect
<1>5. Typed'
  BY <1>4 DEF Typed
<1> QED
  BY <1>1, <1>4, <1>5 DEF Effect

(* A handler answers the request that it runs for.                          *)
LEMMA RespondEffect ==
    ASSUME Typed, NEW e \in Ends, Respond(e)
    PROVE  Effect
<1>1. PICK h \in BagToSet(handlers[e]) :
        LET answer == CASE h.kind = "req" -> "resp"
                        [] h.kind = "streamreq" /\ h.done < StreamLength -> "item"
                        [] OTHER -> "end"
            rest == IF answer = "item" THEN SetToBag({[h EXCEPT !.done = @ + 1]})
                    ELSE EmptyBag
        IN  /\ ForegroundFree(e)
            /\ SendBuffered(e, answer, h.id, IF answer = "item" THEN h.done + 1 ELSE 0)
            /\ handlers' = [handlers EXCEPT ![e] = (@ (-) SetToBag({h})) (+) rest]
            /\ UNCHANGED <<phase, started, maxReceived, sending, disconnects,
                           received, background, own, taken, ended, misanswered>>
  BY DEF Respond
<1> DEFINE answer == CASE h.kind = "req" -> "resp"
                       [] h.kind = "streamreq" /\ h.done < StreamLength -> "item"
                       [] OTHER -> "end"
           item == IF answer = "item" THEN h.done + 1 ELSE 0
           next == [h EXCEPT !.done = @ + 1]
           rest == IF answer = "item" THEN SetToBag({next}) ELSE EmptyBag
<1>2. h \in Running /\ StreamLength \in Nat
  BY BoundsAssumption DEF Typed
<1>3. /\ h.id \in Nat /\ h.done \in 0 .. StreamLength /\ h.kind \in {"req", "streamreq"}
  BY <1>2 DEF Running
<1>4. answer \in Buffered /\ answer /= "req" /\ answer /= "streamreq" /\ item \in 0 .. StreamLength
  BY <1>2, <1>3 DEF Buffered, Answers, Handled
<1>5. answer = "item" => next \in Running /\ next.id = h.id
  BY <1>2, <1>3 DEF Running
<1>6. UNCHANGED <<phase, started, maxReceived, sending, disconnects, received, background, own>>
  BY <1>1
<1>7. SendBuffered(e, answer, h.id, item)
  BY <1>1
<1>8. handlers' = [handlers EXCEPT ![e] = (@ (-) SetToBag({h})) (+) rest]
  BY <1>1
<1> HIDE DEF answer, item, next
<1>9. /\ link' \in [Ends -> Seq(Frames)] /\ outgoing' \in Seq(Frames)
      /\ buffer' \in [Ends -> Seq(Frames)] /\ nextId' \in [Ends -> Nat]
      /\ responses' \in [Ends -> SUBSET (Nat \X {"req", "flush"})]
      /\ streams' \subseteq Nat /\ sent' \in [Ends -> SUBSET Nat]
      /\ Travels /\ Keeps /\ Counts
  BY <1>3, <1>4, <1>7, SendEffect
<1>10. BagToSet(rest) \subseteq {next} /\ (answer /= "item" => BagToSet(rest) = {})
  BY BagFacts
<1> HIDE DEF rest
<1>11. BagToSet((handlers[e] (-) SetToBag({h})) (+) rest) \subseteq BagToSet(handlers[e]) \union BagToSet(rest)
  <2> DEFINE others == handlers[e] (-) SetToBag({h})
  <2>1. BagToSet(others) \subseteq BagToSet(handlers[e])
    BY BagFacts, Zenon
  <2> HIDE DEF others
  <2>2. BagToSet(others (+) rest) = BagToSet(others) \union BagToSet(rest)
    BY BagFacts, Zenon
  <2> QED
    BY <2>1, <2>2 DEF others
<1>12. /\ handlers'[e] = (handlers[e] (-) SetToBag({h})) (+) rest
       /\ \A d \in Ends : d /= e => handlers'[d] = handlers[d]
       /\ handlers' = [d \in Ends |-> handlers'[d]]
  <2>1. handlers = [d \in Ends |-> handlers[d]]
    BY DEF Typed
  <2> QED
    BY <1>8, <2>1
<1>13. \A d \in Ends : \A g \in BagToSet(handlers'[d]) :
          g \in Running /\ \E f \in BagToSet(handlers[d]) : f.id = g.id
  BY <1>5, <1>10, <1>11, <1>12 DEF Typed
<1>14. Runs /\ Observes /\ Pushes
  BY <1>6, <1>13, Untouched DEF Runs
<1>15. Typed'
  BY <1>6, <1>9, <1>12, <1>13 DEF Typed
<1> QED
  BY <1>9, <1>14, <1>15 DEF Effect

(* A consumer drops its stream.                                             *)
LEMMA DropStreamEffect ==
    ASSUME Typed, DropStream
    PROVE  Effect
<1> USE DEF DropStream, netVars, histVars
<1>1. Keeps /\ Pushes /\ Runs /\ Observes
  BY Untouched
<1>2. Counts
  BY DEF Counts
<1>3. Typed'
  BY DEF Typed
<1>4. Travels
  BY DEF Travels, Travelling, Moving
<1> QED
  BY <1>1, <1>2, <1>3, <1>4 DEF Effect

-----------------------------------------------------------------------------
(* The reader.                                                              *)

(* The part of reading that all but the channel's own messages share.       *)
LEMMA ObserveEffect ==
    ASSUME Typed, NEW e \in Ends, CanRead(e), NEW m, m = Head(link[e]), m.kind /= "started",
           Observe(e, m), link' = Rest(e), UNCHANGED outgoing
    PROVE  /\ m \in Frames /\ m \in Travelling(Peer(e))
           /\ link' \in [Ends -> Seq(Frames)] /\ buffer' \in [Ends -> Seq(Frames)]
           /\ maxReceived' \in [Ends -> Nat] /\ received' \in [Ends -> SUBSET Nat]
           /\ Travels /\ Keeps /\ Observes
<1>1. /\ m \in Frames /\ m \in Travelling(Peer(e)) /\ link' \in [Ends -> Seq(Frames)]
      /\ \A d \in Ends : Range(link'[d]) \subseteq Range(link[d])
  BY ReadFacts
<1>2. /\ buffer' \in [Ends -> Seq(Frames)]
      /\ \A d \in Ends : Range(buffer'[d]) \subseteq Range(buffer[d])
      /\ \A d \in Ends : \A x \in Range(buffer[d]) \ Range(buffer'[d]) :
            d = e /\ x.id <= m.ack /\ m.ack \in Nat
  BY <1>1, ApplyFacts DEF Observe
<1>3. m.id \in Nat
  BY <1>1 DEF Frames
<1>4. maxReceived' \in [Ends -> Nat] /\ received' \in [Ends -> SUBSET Nat]
  BY <1>3 DEF Observe, Typed
<1>5. Travels
  BY <1>1, <1>2, PeerFacts DEF Travels, Travelling, Moving
<1>6. Keeps
  BY <1>1, <1>2 DEF Keeps
<1>7. Observes
  BY <1>1, <1>3 DEF Observes, Observe, Typed
<1> QED
  BY <1>1, <1>2, <1>4, <1>5, <1>6, <1>7

(* A handler runs for the request that was read.                            *)
LEMMA ReceiveMessageEffect ==
    ASSUME Typed, NEW e \in Ends, ReceiveMessage(e)
    PROVE  Effect
<1> DEFINE m == Head(link[e])
           h == [id |-> m.id, kind |-> m.kind, done |-> 0]
<1> USE DEF ReceiveMessage
<1>1. Pushes /\ Counts
  BY Untouched
<1>2. m.kind \in Handled /\ m.kind /= "started"
  BY DEF Handled
<1>3. /\ m \in Frames /\ m \in Travelling(Peer(e))
      /\ link' \in [Ends -> Seq(Frames)] /\ buffer' \in [Ends -> Seq(Frames)]
      /\ maxReceived' \in [Ends -> Nat] /\ received' \in [Ends -> SUBSET Nat]
      /\ Travels /\ Keeps /\ Observes
  BY <1>2, ObserveEffect
<1>4. handlers' = IF m.kind = "msg" THEN handlers ELSE [handlers EXCEPT ![e] = @ (+) SetToBag({h})]
  OBVIOUS
<1>5. m.kind /= "msg" => h \in Running /\ m.kind \in {"req", "streamreq"} /\ h.id = m.id
  BY <1>2, <1>3, BoundsAssumption DEF Running, Frames, Handled
<1> HIDE DEF h, m
<1>6. BagToSet(handlers[e] (+) SetToBag({h})) \subseteq BagToSet(handlers[e]) \union {h}
  BY BagFacts
<1>7. /\ handlers' = [d \in Ends |-> handlers'[d]]
      /\ \A d \in Ends : d /= e => handlers'[d] = handlers[d]
      /\ m.kind = "msg" => handlers'[e] = handlers[e]
      /\ m.kind /= "msg" => handlers'[e] = handlers[e] (+) SetToBag({h})
  <2>1. handlers = [d \in Ends |-> handlers[d]]
    BY DEF Typed
  <2> QED
    BY <1>4, <2>1
<1>8. \A d \in Ends : \A g \in BagToSet(handlers'[d]) :
         g \in BagToSet(handlers[d]) \/ (d = e /\ m.kind /= "msg" /\ g = h)
  BY <1>6, <1>7
<1>9. Runs
  BY <1>3, <1>5, <1>8 DEF Runs
<1>10. Typed'
  <2>1. \A d \in Ends : BagToSet(handlers'[d]) \subseteq Running
    BY <1>5, <1>8 DEF Typed
  <2> QED
    BY <1>3, <1>7, <2>1 DEF Typed
<1> QED
  BY <1>1, <1>3, <1>9, <1>10 DEF Effect

(* An item or the end of a stream.                                          *)
LEMMA ReceiveStreamEffect ==
    ASSUME Typed, NEW e \in Ends, ReceiveStream(e)
    PROVE  Effect
<1> DEFINE m == Head(link[e])
<1> USE DEF ReceiveStream
<1>1. Pushes /\ Runs
  BY Untouched
<1>2. m.kind /= "started"
  OBVIOUS
<1>3. /\ m \in Frames /\ m \in Travelling(Peer(e))
      /\ link' \in [Ends -> Seq(Frames)] /\ buffer' \in [Ends -> Seq(Frames)]
      /\ maxReceived' \in [Ends -> Nat] /\ received' \in [Ends -> SUBSET Nat]
      /\ Travels /\ Keeps /\ Observes
  BY <1>2, ObserveEffect
<1>4. streams' \subseteq streams
  OBVIOUS
<1>5. Counts
  BY <1>4 DEF Counts
<1>6. Typed'
  BY <1>3, <1>4 DEF Typed
<1> QED
  BY <1>1, <1>3, <1>5, <1>6 DEF Effect

(* A response or an Ack closes requests and opens none.                     *)
LEMMA ReceiveResponseEffect ==
    ASSUME Typed, NEW e \in Ends, ReceiveResponse(e)
    PROVE  Effect
<1> DEFINE m == Head(link[e])
<1> USE DEF ReceiveResponse
<1>1. Pushes /\ Runs
  BY Untouched
<1>2. m.kind /= "started"
  OBVIOUS
<1>3. /\ m \in Frames /\ m \in Travelling(Peer(e))
      /\ link' \in [Ends -> Seq(Frames)] /\ buffer' \in [Ends -> Seq(Frames)]
      /\ maxReceived' \in [Ends -> Nat] /\ received' \in [Ends -> SUBSET Nat]
      /\ Travels /\ Keeps /\ Observes
  BY <1>2, ObserveEffect
<1>4. /\ responses' \in [Ends -> SUBSET (Nat \X {"req", "flush"})]
      /\ \A d \in Ends : responses'[d] \subseteq responses[d]
  BY DEF Typed
<1>5. Counts
  BY <1>4 DEF Counts
<1>6. phase' \in {phase, "connected", "flushed"}
  OBVIOUS
<1>7. Typed'
  BY <1>3, <1>4, <1>6 DEF Typed
<1> QED
  BY <1>1, <1>3, <1>5, <1>7 DEF Effect

(* The answer to RemoteStarted or to a flush: an Ack, behind what is sent   *)
(* again.                                                                   *)
LEMMA AnswerEffect ==
    ASSUME Typed, NEW e \in Ends, CanRead(e), NEW m, m = Head(link[e]), m.kind \in {"flush", "started"},
           buffer' = [buffer EXCEPT ![e] = Acknowledged(e, m)],
           NEW q \in Seq(Frames), Range(q) \subseteq Range(buffer[e]) \union {AckOf(e, m)},
           Transmit(e, Rest(e), q), nextId' = [nextId EXCEPT ![e] = @ + 1]
    PROVE  /\ link' \in [Ends -> Seq(Frames)] /\ outgoing' \in Seq(Frames)
           /\ buffer' \in [Ends -> Seq(Frames)] /\ nextId' \in [Ends -> Nat]
           /\ Travels /\ Keeps
<1>1. /\ m \in Frames /\ m \in Travelling(Peer(e)) /\ Rest(e) \in [Ends -> Seq(Frames)]
      /\ \A d \in Ends : Range(Rest(e)[d]) \subseteq Range(link[d])
  BY ReadFacts
<1>2. /\ buffer' \in [Ends -> Seq(Frames)]
      /\ \A d \in Ends : Range(buffer'[d]) \subseteq Range(buffer[d])
      /\ \A d \in Ends : \A x \in Range(buffer[d]) \ Range(buffer'[d]) :
            d = e /\ x.id <= m.ack /\ m.ack \in Nat
  BY <1>1, ApplyFacts
<1>3. /\ link' \in [Ends -> Seq(Frames)] /\ outgoing' \in Seq(Frames)
      /\ \A d \in Ends : Moving(d)' \subseteq Moving(d) \union (IF d = e THEN Range(q) ELSE {})
  BY <1>1, TransmitFacts
<1>4. nextId' \in [Ends -> Nat] /\ nextId'[e] = nextId[e] + 1
  BY DEF Typed
<1>5. New(e, AckOf(e, m))
  <2> DEFINE a == AckOf(e, m)
  <2>1. a.kind = "ack" /\ a.id = nextId[e] /\ a.ack = NoId /\ a.to = m.id
    BY DEF AckOf, Control, Envelope
  <2> HIDE DEF a
  <2> QED
    BY <1>1, <1>4, <2>1 DEF New, Numbered, a
<1>6. Travels
  BY <1>2, <1>3, <1>5 DEF Travels, Travelling
<1>7. Keeps
  BY <1>1, <1>2 DEF Keeps
<1> QED
  BY <1>2, <1>3, <1>4, <1>6, <1>7

(* The Ack of an envelope is an envelope.                                   *)
LEMMA AckOfFacts ==
    ASSUME Typed, NEW e \in Ends, NEW m \in Frames
    PROVE  AckOf(e, m) \in Frames
  BY BoundsAssumption DEF Typed, AckOf, Control, Envelope, Frames, Kinds

(* RemoteStarted is answered with an Ack.                                   *)
LEMMA ReceiveStartedEffect ==
    ASSUME Typed, NEW e \in Ends, ReceiveStarted(e)
    PROVE  Effect
<1> DEFINE m == Head(link[e])
<1> USE DEF ReceiveStarted, histVars
<1>1. Pushes /\ Runs /\ Observes
  BY Untouched
<1>2. /\ m.kind = "started" /\ buffer' = [buffer EXCEPT ![e] = Acknowledged(e, m)]
      /\ Transmit(e, Rest(e), <<AckOf(e, m)>>) /\ CanRead(e)
  OBVIOUS
<1>3. m \in Frames
  BY <1>2, ReadFacts
<1> HIDE DEF m
<1>4. AckOf(e, m) \in Frames
  BY <1>3, AckOfFacts
<1>5. <<AckOf(e, m)>> \in Seq(Frames) /\ Range(<<AckOf(e, m)>>) = {AckOf(e, m)}
  BY <1>4 DEF Range
<1>6. /\ link' \in [Ends -> Seq(Frames)] /\ outgoing' \in Seq(Frames)
      /\ buffer' \in [Ends -> Seq(Frames)] /\ nextId' \in [Ends -> Nat]
      /\ Travels /\ Keeps
  BY <1>2, <1>5, AnswerEffect DEF m
<1>7. Counts
  BY DEF Counts, Typed
<1>8. phase' \in {phase, "started"}
  OBVIOUS
<1>9. Typed'
  BY <1>6, <1>8 DEF Typed
<1> QED
  BY <1>1, <1>6, <1>7, <1>9 DEF Effect

(* A flush is answered with what is still buffered and an Ack.              *)
LEMMA ReceiveFlushEffect ==
    ASSUME Typed, NEW e \in Ends, ReceiveFlush(e)
    PROVE  Effect
<1> DEFINE m == Head(link[e])
           kept == Acknowledged(e, m)
<1> USE DEF ReceiveFlush, histVars
<1>1. Pushes /\ Runs /\ Observes
  BY Untouched
<1>2. /\ m.kind = "flush" /\ buffer' = [buffer EXCEPT ![e] = kept]
      /\ Transmit(e, Rest(e), Append(kept, AckOf(e, m))) /\ CanRead(e)
  OBVIOUS
<1>3. m \in Frames
  BY <1>2, ReadFacts
<1> HIDE DEF m
<1>4. AckOf(e, m) \in Frames
  BY <1>3, AckOfFacts
<1>5. kept \in Seq(Frames) /\ Range(kept) \subseteq Range(buffer[e])
  BY <1>3, AckFacts DEF Typed
<1>6. /\ Append(kept, AckOf(e, m)) \in Seq(Frames)
      /\ Range(Append(kept, AckOf(e, m))) \subseteq Range(buffer[e]) \union {AckOf(e, m)}
  <2> HIDE DEF kept
  <2> QED
    BY <1>4, <1>5, RangeFacts
<1>7. /\ link' \in [Ends -> Seq(Frames)] /\ outgoing' \in Seq(Frames)
      /\ buffer' \in [Ends -> Seq(Frames)] /\ nextId' \in [Ends -> Nat]
      /\ Travels /\ Keeps
  BY <1>2, <1>6, AnswerEffect DEF m
<1>8. Counts
  BY DEF Counts, Typed
<1>9. Typed'
  BY <1>7 DEF Typed
<1> QED
  BY <1>1, <1>7, <1>8, <1>9 DEF Effect

(* Every step has the effect stated above.                                  *)
LEMMA StepEffect ==
    ASSUME Typed, NumberInv, BeginInv, [Next]_vars
    PROVE  Effect
<1>1. \A t \in Threads : sending[t].at /= Idle => sending[t].id \in Nat
  BY DEF NumberInv
<1>2. ASSUME NEW e \in Ends,
             StartReader(e) \/ Respond(e) \/ (\E kind \in Handled : Send(e, kind))
             \/ ReceiveFlush(e) \/ ReceiveStarted(e) \/ ReceiveMessage(e)
             \/ ReceiveResponse(e) \/ ReceiveStream(e)
      PROVE  Effect
  BY <1>2, StartReaderEffect, RespondEffect, SendActionEffect, ReceiveFlushEffect,
     ReceiveStartedEffect, ReceiveMessageEffect, ReceiveResponseEffect, ReceiveStreamEffect
<1>3. ASSUME NEW t \in Threads, AllocateId(t) \/ PushBuffer(t) \/ PushQueue(t)
      PROVE  Effect
  BY <1>1, <1>3, AllocateIdEffect, PushBufferEffect, PushQueueEffect
<1>4. CASE ServerWrite \/ DropStream \/ Ping \/ Disconnect \/ Reconnect \/ Resync \/ Resend
  BY <1>4, ServerWriteEffect, DropStreamEffect, PingEffect, DisconnectEffect,
     ReconnectEffect, ResyncEffect, ResendEffect
<1>5. CASE UNCHANGED vars
  BY <1>5, Stutter
<1> QED
  BY <1>2, <1>3, <1>4, <1>5 DEF Next

-----------------------------------------------------------------------------
(* The invariant is kept.                                                   *)

(* next_message_id never goes back.                                         *)
LEMMA CounterGrows ==
    ASSUME Typed, Counts, NEW e \in Ends
    PROVE  nextId[e] \in Nat /\ nextId'[e] \in Nat /\ nextId'[e] >= nextId[e]
<1>1. nextId[e] \in Nat
  BY DEF Typed
<1>2. nextId'[e] \in {nextId[e], nextId[e] + 1}
  BY DEF Counts
<1> QED
  BY <1>1, <1>2

(* Whatever is under way has an id that was taken before.                   *)
LEMMA NumberStep ==
    ASSUME Typed, NumberInv, Effect
    PROVE  NumberInv'
<1> USE DEF Effect
<1>1. \A e \in Ends : nextId[e] \in Nat /\ nextId'[e] \in Nat /\ nextId'[e] >= nextId[e]
  BY CounterGrows
<1>2. \A e \in Ends : \A id : Numbered(e, id) => id < nextId'[e]
  BY <1>1, BoundsAssumption DEF Numbered, NumberInv
<1>3. \A e \in Ends : Travelling(e) \subseteq Frames /\ Travelling(e)' \subseteq Frames
  <2>1. \A e \in Ends : Travelling(e) \subseteq Frames
    BY RangeFacts, PeerFacts DEF Typed, Travelling, Moving
  <2>2. \A e \in Ends : Travelling(e)' \subseteq Frames
    BY RangeFacts, PeerFacts DEF Typed, Travelling, Moving
  <2> QED
    BY <2>1, <2>2
<1>4. \A m \in Frames : m.id \in Nat
  BY DEF Frames
<1>5. ASSUME NEW e \in Ends, NEW m \in Travelling(e)'
      PROVE  IF m.kind = "started" THEN m.id = 0 ELSE m.id < nextId'[e]
  <2>1. CASE m \in Travelling(e)
    BY <1>1, <1>3, <1>4, <2>1 DEF NumberInv
  <2>2. CASE New(e, m)
    BY <1>2, <2>2 DEF New
  <2> QED
    BY <2>1, <2>2, <1>5 DEF Travels
<1>6. ASSUME NEW e \in Ends, NEW id \in sent'[e]
      PROVE  id < nextId'[e]
  BY <1>1, <1>2, <1>6 DEF Counts, NumberInv, Typed
<1>7. ASSUME NEW e \in Ends, NEW id \in received'[Peer(e)]
      PROVE  id < nextId'[e]
  <2>1. CASE id \in received[Peer(e)]
    <3>1. id \in Nat /\ id < nextId[e]
      BY <2>1, PeerFacts DEF NumberInv, Typed
    <3> QED
      BY <1>1, <3>1
  <2>2. CASE \E x \in Travelling(e) : x.kind /= "started" /\ x.id = id
    BY <1>1, <1>3, <1>4, <2>2 DEF NumberInv
  <2> QED
    BY <1>7, <2>1, <2>2, PeerFacts DEF Observes
<1>8. ASSUME NEW e \in Ends, NEW r \in responses'[e]
      PROVE  r[1] < nextId'[e]
  <2>1. CASE r \in responses[e]
    BY <1>1, <2>1 DEF NumberInv, Typed
  <2>2. CASE r[1] = nextId[e] /\ nextId'[e] = nextId[e] + 1
    BY <1>1, <2>2
  <2> QED
    BY <1>8, <2>1, <2>2 DEF Counts
<1>9. ASSUME NEW id \in streams'
      PROVE  id < nextId'["client"]
  <2>1. "client" \in Ends
    BY DEF Ends
  <2>2. CASE id \in streams
    <3>1. id \in Nat /\ id < nextId["client"]
      BY <2>2 DEF NumberInv, Typed
    <3> QED
      BY <1>1, <2>1, <3>1
  <2>3. CASE id = nextId["client"] /\ nextId'["client"] = nextId["client"] + 1
    BY <1>1, <2>1, <2>3
  <2> QED
    BY <1>9, <2>2, <2>3 DEF Counts
<1>10. ASSUME NEW t \in Threads, sending'[t].at /= Idle
       PROVE  sending'[t].id \in Nat /\ sending'[t].id < nextId'[ThreadEnd[t]]
  BY <1>1, <1>10, BoundsAssumption DEF Pushes, NumberInv
<1> QED
  BY <1>5, <1>6, <1>7, <1>8, <1>9, <1>10 DEF NumberInv

(* Acks are of ids that were observed.                                      *)
LEMMA AckStep ==
    ASSUME Typed, AckInv, Effect
    PROVE  AckInv'
<1> USE DEF Effect
<1>1. ASSUME NEW e \in Ends
      PROVE  received[e] \subseteq received'[e] /\ maxReceived'[e] \in received'[e] \union {0}
  BY DEF AckInv, Observes
<1>2. ASSUME NEW e \in Ends, NEW t \in Threads, ThreadEnd[t] = e
      PROVE  sending'[t].ack \in received'[e] \union {0, NoId}
  BY <1>1, <1>2 DEF AckInv, Pushes
<1>3. ASSUME NEW e \in Ends, NEW m \in Travelling(e)'
      PROVE  m.ack \in received'[e] \union {0, NoId}
  <2>1. CASE m \in Travelling(e)
    BY <1>1, <2>1 DEF AckInv
  <2>2. CASE New(e, m)
    BY <1>1, <2>2 DEF AckInv, New
  <2> QED
    BY <1>3, <2>1, <2>2 DEF Travels
<1> QED
  BY <1>1, <1>2, <1>3 DEF AckInv

(* What an ack removes from the buffer is covered by an observed id.        *)
LEMMA EarnedStep ==
    ASSUME Typed, AckInv, AckIsEarned, Effect
    PROVE  AckIsEarned'
<1> SUFFICES ASSUME NEW e \in Ends, NEW id \in sent'[e], id \notin Ids(buffer'[e]), id /= 0
             PROVE  \E r \in received'[Peer(e)] : r >= id
  BY DEF AckIsEarned
<1> USE DEF Effect
<1>1. Peer(e) \in Ends /\ received[Peer(e)] \subseteq received'[Peer(e)]
  BY PeerFacts DEF Observes
<1>2. \A x \in Range(buffer'[e]) : x.id /= id
  BY DEF Ids, Range
<1>3. id \in sent[e] /\ id \in Nat
  BY <1>2 DEF Counts, Typed
<1>4. CASE id \notin Ids(buffer[e])
  BY <1>1, <1>3, <1>4 DEF AckIsEarned
<1>5. CASE id \in Ids(buffer[e])
  <2>1. PICK x \in Range(buffer[e]) : x.id = id
    BY <1>5 DEF Ids, Range
  <2>2. PICK m \in Travelling(Peer(e)) : m.ack \in Nat /\ id <= m.ack
    BY <1>2, <2>1 DEF Keeps
  <2>3. m.ack \in received[Peer(e)] \union {0, NoId}
    BY <1>1, <2>2 DEF AckInv
  <2>4. m.ack \in received[Peer(e)]
    BY <1>3, <2>2, <2>3 DEF NoId
  <2> QED
    BY <1>1, <1>3, <2>2, <2>4
<1> QED
  BY <1>4, <1>5

(* Answers to requests and to flushes stay apart.                           *)
LEMMA MatchStep ==
    ASSUME Typed, NumberInv, MatchInv, Effect
    PROVE  MatchInv'
<1> USE DEF Effect
<1>1. \A e \in Ends : nextId[e] \in Nat /\ nextId'[e] \in Nat /\ nextId'[e] >= nextId[e] /\ Peer(e) \in Ends
  BY PeerFacts, CounterGrows
<1>2. ASSUME NEW e \in Ends, NEW i, NEW k, i < nextId[e], <<i, k>> \notin responses[e]
      PROVE  <<i, k>> \notin responses'[e]
  BY <1>1, <1>2 DEF Counts
<1>3. ASSUME NEW e \in Ends
      PROVE  <<0, "req">> \notin responses'[e]
  BY <1>1 DEF Counts, MatchInv
<1>4. ASSUME NEW e \in Ends, NEW h \in BagToSet(handlers'[e])
      PROVE  <<h.id, "flush">> \notin responses'[Peer(e)] /\ h.id < nextId'[Peer(e)]
  <2>1. <<h.id, "flush">> \notin responses[Peer(e)] /\ h.id < nextId[Peer(e)]
    <3>1. CASE \E g \in BagToSet(handlers[e]) : g.id = h.id
      BY <3>1 DEF MatchInv
    <3>2. CASE \E x \in Travelling(Peer(e)) : x.kind \in {"req", "streamreq"} /\ x.id = h.id
      BY <1>1, <3>2 DEF MatchInv, NumberInv
    <3> QED
      BY <1>4, <3>1, <3>2 DEF Runs
  <2>2. h \in Running /\ h.id \in Nat
    BY <1>4 DEF Typed, Running
  <2> QED
    BY <1>1, <1>2, <2>1, <2>2
<1>5. ASSUME NEW e \in Ends, NEW m \in Travelling(e), m \in Frames
      PROVE  /\ m.kind \in {"req", "streamreq"} => <<m.id, "flush">> \notin responses'[e]
             /\ m.kind = "flush" => <<m.id, "req">> \notin responses'[e]
             /\ m.kind = "resp" => /\ <<m.to, "flush">> \notin responses'[Peer(e)]
                                   /\ m.to < nextId'[Peer(e)]
             /\ m.kind = "ack" => /\ <<m.to, "req">> \notin responses'[Peer(e)]
                                  /\ m.to = 0 \/ m.to < nextId'[Peer(e)]
  <2>1. m.id \in Nat /\ m.to \in Nat \union {NoId} /\ NoId \in Int
    BY <1>5 DEF Frames, NoId
  <2>2. m.kind \in {"req", "streamreq", "flush"} => m.id < nextId[e]
    BY DEF NumberInv
  <2>3. m.kind \in {"req", "streamreq"} => <<m.id, "flush">> \notin responses'[e]
    BY <1>2, <2>2 DEF MatchInv
  <2>4. m.kind = "flush" => <<m.id, "req">> \notin responses'[e]
    BY <1>2, <2>2 DEF MatchInv
  <2>5. ASSUME m.kind = "resp"
        PROVE  <<m.to, "flush">> \notin responses'[Peer(e)] /\ m.to < nextId'[Peer(e)]
    <3>1. <<m.to, "flush">> \notin responses[Peer(e)] /\ m.to < nextId[Peer(e)]
      BY <2>5 DEF MatchInv
    <3> QED
      BY <1>1, <1>2, <2>1, <3>1
  <2>6. ASSUME m.kind = "ack"
        PROVE  <<m.to, "req">> \notin responses'[Peer(e)] /\ (m.to = 0 \/ m.to < nextId'[Peer(e)])
    <3>1. <<m.to, "req">> \notin responses[Peer(e)] /\ (m.to = 0 \/ m.to < nextId[Peer(e)])
      BY <2>6 DEF MatchInv
    <3> QED
      BY <1>1, <1>2, <1>3, <2>1, <3>1
  <2> QED
    BY <2>3, <2>4, <2>5, <2>6
<1>6. ASSUME NEW e \in Ends, NEW m, New(e, m)
      PROVE  /\ m.kind \in {"req", "streamreq"} => <<m.id, "flush">> \notin responses'[e]
             /\ m.kind = "flush" => <<m.id, "req">> \notin responses'[e]
             /\ m.kind = "resp" => /\ <<m.to, "flush">> \notin responses'[Peer(e)]
                                   /\ m.to < nextId'[Peer(e)]
             /\ m.kind = "ack" => /\ <<m.to, "req">> \notin responses'[Peer(e)]
                                  /\ m.to = 0 \/ m.to < nextId'[Peer(e)]
  <2>1. \A k : <<nextId[e], k>> \notin responses[e]
    BY <1>1 DEF NumberInv
  <2>2. m.kind \in {"req", "streamreq", "flush"} =>
           m.id = nextId[e] /\ \A r \in responses'[e] : r \in responses[e] \/ r[2] = m.kind
    BY <1>6 DEF New
  <2>3. /\ m.kind \in {"req", "streamreq"} => <<m.id, "flush">> \notin responses'[e]
        /\ m.kind = "flush" => <<m.id, "req">> \notin responses'[e]
    BY <2>1, <2>2
  <2>4. ASSUME m.kind = "resp"
        PROVE  <<m.to, "flush">> \notin responses'[Peer(e)] /\ m.to < nextId'[Peer(e)]
    <3>1. PICK h \in BagToSet(handlers[e]) : h.id = m.to
      BY <1>6, <2>4 DEF New
    <3>2. h.id \in Nat /\ <<h.id, "flush">> \notin responses[Peer(e)] /\ h.id < nextId[Peer(e)]
      BY DEF MatchInv, Typed, Running
    <3> QED
      BY <1>1, <1>2, <3>1, <3>2
  <2>5. ASSUME m.kind = "ack"
        PROVE  <<m.to, "req">> \notin responses'[Peer(e)] /\ (m.to = 0 \/ m.to < nextId'[Peer(e)])
    <3>1. PICK x \in Travelling(Peer(e)) : x.kind \in {"flush", "started"} /\ x.id = m.to
      BY <1>6, <2>5 DEF New
    <3>2. x.kind = "started" => x.id = 0
      BY <1>1 DEF NumberInv
    <3>3. x.kind = "flush" => x.id < nextId[Peer(e)] /\ <<x.id, "req">> \notin responses[Peer(e)]
      BY <1>1 DEF NumberInv, MatchInv
    <3>4. x.id \in Nat
      BY <1>1, TravellingFacts DEF Frames
    <3> QED
      BY <1>1, <1>2, <1>3, <3>1, <3>2, <3>3, <3>4
  <2> QED
    BY <2>3, <2>4, <2>5
<1>7. ASSUME NEW e \in Ends, NEW m \in Travelling(e)'
      PROVE  /\ m.kind \in {"req", "streamreq"} => <<m.id, "flush">> \notin responses'[e]
             /\ m.kind = "flush" => <<m.id, "req">> \notin responses'[e]
             /\ m.kind = "resp" => /\ <<m.to, "flush">> \notin responses'[Peer(e)]
                                   /\ m.to < nextId'[Peer(e)]
             /\ m.kind = "ack" => /\ <<m.to, "req">> \notin responses'[Peer(e)]
                                  /\ m.to = 0 \/ m.to < nextId'[Peer(e)]
  BY <1>5, <1>6, <1>7, TravellingFacts DEF Travels
<1> QED
  BY <1>3, <1>4, <1>7 DEF MatchInv

(* Hence none of them completes a request of the other kind.                *)
LEMMA AnswersStep ==
    ASSUME Typed, MatchInv, AnswersMatchRequests, [Next]_vars
    PROVE  AnswersMatchRequests'
<1>1. ASSUME NEW e \in Ends, ReceiveResponse(e)
      PROVE  misanswered' = misanswered
  <2> DEFINE m == Head(link[e])
             open == {r \in responses[e] : r[1] = m.to}
  <2>1. /\ m.kind \in {"resp", "ack"} /\ m \in Travelling(Peer(e)) /\ Peer(e) \in Ends
        /\ Peer(Peer(e)) = e
    BY <1>1, ReadFacts, PeerFacts DEF ReceiveResponse
  <2>2. /\ m.kind = "resp" => <<m.to, "flush">> \notin responses[e]
        /\ m.kind = "ack" => <<m.to, "req">> \notin responses[e]
    BY <2>1 DEF MatchInv
  <2>3. \A r \in responses[e] : r = <<r[1], r[2]>> /\ r[2] \in {"req", "flush"}
    BY DEF Typed
  <2>4. {q \in open : (q[2] = "flush") /= (m.kind = "ack")} = {}
    BY <2>1, <2>2, <2>3
  <2>5. misanswered' = misanswered \union
           {<<e, r[1]>> : r \in {q \in open : (q[2] = "flush") /= (m.kind = "ack")}}
    BY <1>1 DEF ReceiveResponse
  <2> QED
    BY <2>4, <2>5
<1>2. CASE UNCHANGED misanswered
  BY <1>2 DEF AnswersMatchRequests
<1>3. \/ UNCHANGED misanswered
      \/ \E e \in Ends : ReceiveResponse(e)
  BY DEF Next, vars, histVars, StartReader, Respond, Send, ReceiveFlush, ReceiveStarted,
         ReceiveMessage, ReceiveStream, AllocateId, PushBuffer, PushQueue, ServerWrite,
         DropStream, Ping, Disconnect, Reconnect, Resync, Resend
<1> QED
  BY <1>1, <1>2, <1>3

(* What is behind the first envelope of a queue does not change it.         *)
LEMMA FirstKept ==
    ASSUME NEW e \in Ends, NEW links, links["server"] = link["server"],
           "server" \in DOMAIN links, link["server"] \in Seq(Frames), link["server"] /= <<>>,
           NEW q \in Seq(Frames), Transmit(e, links, q)
    PROVE  link'["server"] /= <<>> /\ Head(link'["server"]) = Head(link["server"])
<1>1. link'["server"] \in {link["server"], link["server"] \o q}
  BY DEF Transmit
<1>2. link["server"] \o q /= <<>> /\ Head(link["server"] \o q) = Head(link["server"])
  <2> DEFINE s == link["server"]
  <2>1. s \in Seq(Frames) /\ s /= <<>>
    OBVIOUS
  <2> HIDE DEF s
  <2>2. Len(s) \in Nat \ {0} /\ Len(q) \in Nat /\ Head(s) = s[1]
    BY <2>1, EmptySeq, LenProperties, HeadTailProperties
  <2>3. /\ s \o q \in Seq(Frames) /\ Len(s \o q) = Len(s) + Len(q)
        /\ \A i \in 1 .. Len(s) + Len(q) : (s \o q)[i] = IF i <= Len(s) THEN s[i] ELSE q[i - Len(s)]
    BY <2>1, ConcatProperties
  <2>4. s \o q /= <<>>
    BY <2>2, <2>3, EmptySeq
  <2>5. Head(s \o q) = (s \o q)[1]
    BY <2>3, <2>4, HeadTailProperties
  <2> QED
    BY <2>2, <2>3, <2>4, <2>5 DEF s
<1> QED
  BY <1>1, <1>2

(* How the client's connection begins.                                      *)
LEMMA ConnectingStep ==
    ASSUME Typed, BeginInv, [Next]_vars, Effect
    PROVE  IF phase' = "connecting"
           THEN \A t \in Threads : ThreadEnd[t] = "client" => sending'[t].at = Idle
           ELSE nextId'["client"] > 0
<1>1. nextId["client"] \in Nat /\ nextId'["client"] \in Nat /\ nextId'["client"] >= nextId["client"]
  BY CounterGrows DEF Effect, Ends
<1>2. ASSUME phase' /= "connecting"
      PROVE  nextId'["client"] > 0
  <2>1. CASE phase /= "connecting"
    BY <1>1, <2>1 DEF BeginInv
  <2>2. CASE ReceiveStarted("client")
    BY <1>1, <2>2 DEF ReceiveStarted, Typed, Ends
  <2>3. ASSUME phase = "connecting"
        PROVE  ReceiveStarted("client")
    <3>1. \A e \in Ends : ~ ReceiveResponse(e)
      BY <1>2, <2>3 DEF ReceiveResponse
    <3>2. ~ ReceiveStarted("server")
      BY <1>2, <2>3 DEF ReceiveStarted
    <3>3. \E e \in Ends : ReceiveStarted(e)
      BY <1>2, <2>3, <3>1 DEF Next, vars, netVars, StartReader, Respond, Send, ReceiveFlush,
         ReceiveMessage, ReceiveStream, AllocateId, PushBuffer, PushQueue,
         ServerWrite, DropStream, Ping, Disconnect, Reconnect, Resync, Resend
    <3> QED
      BY <3>2, <3>3 DEF Ends
  <2> QED
    BY <2>1, <2>2, <2>3
<1>3. ASSUME phase' = "connecting", NEW t \in Threads, ThreadEnd[t] = "client", sending'[t].at /= Idle
      PROVE  FALSE
  <2>1. phase = "connecting"
    BY <1>3 DEF Next, vars, netVars, StartReader, Respond, Send, ReceiveFlush, ReceiveStarted,
         ReceiveMessage, ReceiveResponse, ReceiveStream, AllocateId, PushBuffer, PushQueue,
         ServerWrite, DropStream, Ping, Disconnect, Reconnect, Resync, Resend
  <2>2. sending[t].at = Idle
    BY <1>3, <2>1 DEF BeginInv
  <2>3. \E u \in Threads : AllocateId(u) \/ PushBuffer(u) \/ PushQueue(u)
    BY <1>3, <2>2 DEF Next, vars, histVars, StartReader, Respond, Send, ReceiveFlush, ReceiveStarted,
         ReceiveMessage, ReceiveResponse, ReceiveStream,
         ServerWrite, DropStream, Ping, Disconnect, Reconnect, Resync, Resend
  <2>4. PICK u \in Threads : AllocateId(u) \/ PushBuffer(u) \/ PushQueue(u)
    BY <2>3
  <2>5. u = t
    BY <1>3, <2>2, <2>4 DEF AllocateId, PushBuffer, PushQueue, Typed
  <2>6. AllocateId(t)
    BY <2>2, <2>4, <2>5 DEF PushBuffer, PushQueue, Idle
  <2> QED
    BY <1>3, <2>1, <2>6 DEF AllocateId, MaySend
<1> QED
  BY <1>2, <1>3

(* Before the server has an id the client has nothing to answer.            *)
LEMMA BeginStep ==
    ASSUME Typed, NumberInv, BeginInv, [Next]_vars, Effect
    PROVE  BeginInv'
<1> SUFFICES ASSUME nextId'["server"] = 0
             PROVE  /\ received'["server"] = {}
                    /\ phase' \in {"connecting", "started", "pinging"}
                    /\ \A m \in Travelling("server")' : m.kind = "started"
                    /\ BagToSet(handlers'["client"]) = {}
                    /\ FirstRead'
  BY ConnectingStep DEF BeginInv
<1>1. nextId["server"] = 0 /\ "client" \in Ends /\ "server" \in Ends
  BY CounterGrows DEF Effect, Ends
<1>2. /\ received["server"] = {} /\ phase \in {"connecting", "started", "pinging"}
      /\ \A m \in Travelling("server") : m.kind = "started"
      /\ BagToSet(handlers["client"]) = {} /\ FirstRead
  BY <1>1 DEF BeginInv
<1>3. \A m \in Travelling("server")' : m.kind = "started"
  <2>1. \A id : ~ Numbered("server", id)
    BY <1>1, BoundsAssumption DEF Numbered, NumberInv
  <2> QED
    BY <1>1, <1>2, <2>1 DEF Effect, Travels, New
<1>4. BagToSet(handlers'["client"]) = {}
  BY <1>1, <1>2 DEF Effect, Runs, Peer
<1>5. CanRead("client") => started["client"] /\ Head(link["client"]).kind = "started"
  BY <1>1, <1>2, ReadFacts DEF CanRead, Peer
<1>6. CanRead("server") => started["client"] /\ Head(link["server"]).kind = "started"
  BY <1>2 DEF CanRead, FirstRead
<1>7. started["client"] => link["server"] /= <<>> /\ Head(link["server"]).kind = "started"
  BY <1>2 DEF FirstRead
<1>8. phase /= "connecting" => started["client"]
  BY <1>2 DEF FirstRead
<1>9. link \in [Ends -> Seq(Frames)] /\ link["server"] \in Seq(Frames) /\ DOMAIN link = Ends
  BY <1>1 DEF Typed
<1> DEFINE Begun == /\ received'["server"] = {}
                    /\ phase' \in {"connecting", "started", "pinging"}
                    /\ FirstRead'
(* What leaves the server's side of things alone.                           *)
<1>10. ASSUME UNCHANGED <<received, phase, started>>, link'["server"] = link["server"]
       PROVE  Begun
  BY <1>2, <1>10 DEF FirstRead
(* What the client sends behind its RemoteStarted.                          *)
<1>11. ASSUME started["client"], UNCHANGED <<received, started>>,
              phase' \in {"connecting", "started", "pinging"},
              NEW links, links["server"] = link["server"], "server" \in DOMAIN links,
              NEW e \in Ends, NEW q \in Seq(Frames), Transmit(e, links, q)
       PROVE  Begun
  <2>1. link'["server"] /= <<>> /\ Head(link'["server"]) = Head(link["server"])
    BY <1>7, <1>9, <1>11, FirstKept
  <2> QED
    BY <1>2, <1>7, <1>11, <2>1 DEF FirstRead
<1>12. ASSUME NEW m \in Frames
       PROVE  <<m>> \in Seq(Frames)
  OBVIOUS
<1> HIDE DEF Begun
<1>13. ASSUME NEW e \in Ends, StartReader(e)
       PROVE  Begun
  <2>1. CASE e = "server"
    <3>1. link' = link /\ started'["client"] = started["client"] /\ UNCHANGED <<received, phase>>
      BY <1>1, <1>13, <2>1 DEF StartReader, Transmit, histVars, Typed
    <3> QED
      BY <1>2, <3>1 DEF FirstRead, Begun
  <2>2. CASE e = "client"
    <3> DEFINE m == Control(0, "started", NoId, NoId)
    <3>1. /\ ~started["client"] /\ started'["client"] /\ UNCHANGED <<received, phase>>
          /\ link["server"] = <<>> /\ phase = "connecting"
      BY <1>2, <1>13, <2>2 DEF StartReader, histVars, Typed, FirstRead
    <3>2. link'["server"] = <<>> \o <<m>>
      BY <1>1, <1>9, <1>13, <2>2, <3>1 DEF StartReader, Transmit
    <3>3. m.kind = "started" /\ m \in Frames
      BY BoundsAssumption DEF Control, Envelope, Frames, Kinds
    <3> HIDE DEF m
    <3>4. <<>> \o <<m>> = <<m>>
      OBVIOUS
    <3>5. link'["server"] /= <<>> /\ Head(link'["server"]) = m
      BY <3>2, <3>4
    <3> QED
      BY <1>2, <3>1, <3>3, <3>5 DEF FirstRead, Begun
  <2> QED
    BY <2>1, <2>2 DEF Ends
<1>14. ASSUME NEW e \in Ends, Respond(e)
       PROVE  Begun
  <2>1. e = "server"
    BY <1>2, <1>14 DEF Respond, Ends
  <2>2. nextId'["server"] = nextId["server"] + 1
    BY <1>1, <1>14, <2>1 DEF Respond, SendBuffered, Typed
  <2> QED
    BY <1>1, <2>2
<1>15. ASSUME NEW kind \in Buffered, NEW e \in Ends, NEW item \in 0 .. StreamLength,
              SendBuffered(e, kind, NoId, item), phase /= "connecting" \/ e = "server",
              UNCHANGED <<received, started>>, phase' \in {"connecting", "started", "pinging"}
       PROVE  Begun
  <2>1. e = "client"
    BY <1>1, <1>15 DEF SendBuffered, Typed, Ends
  <2>2. Envelope(nextId[e], kind, maxReceived[e], NoId, item) \in Frames
    BY <1>15, EnvelopeFacts DEF Typed, Kinds
  <2> DEFINE m == Envelope(nextId[e], kind, maxReceived[e], NoId, item)
  <2>3. Transmit(e, link, <<m>>) /\ started["client"]
    BY <1>8, <1>15, <2>1 DEF SendBuffered
  <2> HIDE DEF m
  <2> QED
    BY <1>1, <1>9, <1>11, <1>12, <1>15, <2>2, <2>3 DEF m
<1>16. ASSUME NEW e \in Ends, NEW kind \in Handled, Send(e, kind)
       PROVE  Begun
  <2>1. kind \in Buffered /\ 0 \in 0 .. StreamLength
    BY BoundsAssumption DEF Buffered
  <2>2. phase /= "connecting" \/ e = "server"
    BY <1>16 DEF Send, MaySend, Ends
  <2> QED
    BY <1>2, <1>15, <1>16, <2>1, <2>2 DEF Send
<1>17. ASSUME NEW e \in Ends, ReceiveFlush(e) \/ ReceiveMessage(e) \/ ReceiveResponse(e) \/ ReceiveStream(e)
       PROVE  Begun
  BY <1>5, <1>6, <1>17 DEF Ends, ReceiveFlush, ReceiveMessage, ReceiveResponse, ReceiveStream, Handled
<1>18. ASSUME NEW e \in Ends, ReceiveStarted(e)
       PROVE  Begun
  <2>1. e = "client" /\ CanRead("client")
    BY <1>1, <1>18 DEF ReceiveStarted, Typed, Ends
  <2> DEFINE a == AckOf("client", Head(link["client"]))
  <2>2. /\ Transmit("client", Rest("client"), <<a>>)
        /\ UNCHANGED <<received, started>> /\ phase' \in {phase, "started"}
    BY <1>18, <2>1 DEF ReceiveStarted, histVars
  <2>3. a \in Frames
    BY <1>1, <2>1, ReadFacts, AckOfFacts
  <2> HIDE DEF a
  <2>4. Rest("client")["server"] = link["server"] /\ "server" \in DOMAIN Rest("client")
    BY <1>1, <1>9 DEF Rest
  <2> QED
    BY <1>1, <1>2, <1>5, <1>11, <1>12, <2>1, <2>2, <2>3, <2>4
<1>19. ASSUME NEW t \in Threads, AllocateId(t) \/ PushBuffer(t)
       PROVE  Begun
  BY <1>10, <1>19 DEF AllocateId, PushBuffer, netVars
<1>20. ASSUME NEW t \in Threads, PushQueue(t)
       PROVE  Begun
  <2>1. UNCHANGED <<received, phase, started>>
    BY <1>20 DEF PushQueue, histVars
  <2>2. CASE ThreadEnd[t] = "server"
    <3>1. link' = link
      BY <1>20, <2>2 DEF PushQueue, Transmit
    <3> QED
      BY <1>10, <2>1, <3>1
  <2>3. CASE ThreadEnd[t] = "client"
    <3> DEFINE m == Control(sending[t].id, "msg", sending[t].ack, NoId)
    <3>1. sending[t].at /= Idle /\ sending[t] \in Steps
      BY <1>20 DEF PushQueue, Idle, Typed
    <3>2. sending[t].id \in Nat
      BY <3>1 DEF NumberInv
    <3>3. started["client"]
      BY <1>8, <2>3, <3>1 DEF BeginInv
    <3>4. m \in Frames
      BY <3>1, <3>2, BoundsAssumption DEF Control, Envelope, Frames, Kinds, Buffered, Handled, Steps
    <3>5. Transmit("client", link, <<m>>)
      BY <1>20, <2>3 DEF PushQueue
    <3> HIDE DEF m
    <3> QED
      BY <1>1, <1>2, <1>9, <1>11, <1>12, <2>1, <3>3, <3>4, <3>5
  <2> QED
    BY <2>2, <2>3, BoundsAssumption DEF Ends
<1>21. ASSUME ServerWrite
       PROVE  Begun
  <2>1. UNCHANGED <<received, phase, started>> /\ link'["server"] = link["server"]
    BY <1>9, <1>21 DEF ServerWrite, histVars, Ends
  <2> QED
    BY <1>10, <2>1
<1>22. ASSUME DropStream
       PROVE  Begun
  BY <1>10, <1>22 DEF DropStream, netVars, histVars
<1>23. ASSUME Ping
       PROVE  Begun
  <2>1. "req" \in Buffered /\ 0 \in 0 .. StreamLength
    BY BoundsAssumption DEF Buffered, Handled
  <2> QED
    BY <1>1, <1>15, <1>23, <2>1 DEF Ping
<1>24. ASSUME Disconnect \/ Reconnect \/ Resync \/ Resend
       PROVE  Begun
  BY <1>2, <1>24 DEF Disconnect, Reconnect, Resync, Resend
<1>25. ASSUME UNCHANGED vars
       PROVE  Begun
  BY <1>10, <1>25 DEF vars, netVars, histVars
<1>26. Begun
  BY <1>13, <1>14, <1>16, <1>17, <1>18, <1>19, <1>20, <1>21, <1>22, <1>23, <1>24, <1>25 DEF Next
<1> QED
  BY <1>3, <1>4, <1>26 DEF Begun

(* The invariant holds at first, ...                                        *)
LEMMA Initially ==
    ASSUME Init
    PROVE  IInv
<1> USE DEF Init
<1>1. <<>> \in Seq(Frames) /\ Range(<<>>) = {}
  BY EmptySeq DEF Range
<1>2. \A e \in Ends : Travelling(e) = {}
  BY <1>1, PeerFacts DEF Travelling, Moving
<1>3. \A e \in Ends : BagToSet(handlers[e]) = {}
  BY BagFacts
<1>4. own \in [Ends -> [Handled -> Nat]]
  BY DEF Handled
<1>5. Typed
  BY <1>1, <1>3, <1>4, BoundsAssumption DEF Typed, Steps
<1>6. NumberInv /\ AckInv
  BY <1>2, PeerFacts DEF NumberInv, AckInv, Ends
<1>7. BeginInv
  BY <1>2, <1>3 DEF BeginInv, FirstRead, Ends
<1>8. MatchInv
  BY <1>2, <1>3, PeerFacts DEF MatchInv
<1>9. AckIsEarned /\ AnswersMatchRequests
  BY DEF AckIsEarned, AnswersMatchRequests
<1> QED
  BY <1>5, <1>6, <1>7, <1>8, <1>9 DEF IInv

(* ... and every step keeps it.                                             *)
LEMMA Inductive ==
    ASSUME IInv, [Next]_vars
    PROVE  IInv'
<1> USE DEF IInv
<1>1. Effect
  BY StepEffect
<1>2. Typed'
  BY <1>1 DEF Effect
<1>3. NumberInv' /\ AckInv' /\ AckIsEarned' /\ MatchInv'
  BY <1>1, NumberStep, AckStep, EarnedStep, MatchStep
<1>4. BeginInv' /\ AnswersMatchRequests'
  BY <1>1, BeginStep, AnswersStep
<1> QED
  BY <1>2, <1>3, <1>4

(* The inductive invariant of the channel holds whatever the threads, the   *)
(* requests, the streams and the dropped connections do: see its parts      *)
(* above.                                                                   *)
THEOREM Invariance == Spec => []IInv
<1>1. Init => IInv
  BY Initially
<1>2. IInv /\ [Next]_vars => IInv'
  BY Inductive
<1> QED
  BY <1>1, <1>2, PTL DEF Spec

(* Every reachable state of ChannelClient at both ends has its types: what  *)
(* is queued, under way or buffered is an envelope that the channel builds, *)
(* and ids on record were taken from next_message_id.                       *)
THEOREM TypeCorrect == Spec => []TypeOK
<1>1. IInv => TypeOK
  <2> SUFFICES ASSUME IInv PROVE TypeOK
    OBVIOUS
  <2> USE DEF IInv
  <2>1. \A m \in Frames : EnvelopeOK(m)
    BY DEF EnvelopeOK, Frames, Kinds
  <2>2. \A s \in Seq(Frames) : \A i \in DOMAIN s : EnvelopeOK(s[i])
    BY <2>1, LenProperties, ElementOfSeq
  <2>3. ASSUME NEW e \in Ends
        PROVE  /\ \A i \in DOMAIN link[e] : EnvelopeOK(link[e][i])
               /\ \A i \in DOMAIN buffer[e] : EnvelopeOK(buffer[e][i])
               /\ started[e] \in BOOLEAN
               /\ \A r \in responses[e] : r[1] < nextId[e]
    BY <2>2 DEF Typed, NumberInv
  <2>4. ASSUME NEW e \in Ends
        PROVE  sent[e] \subseteq 0 .. nextId[e] - 1 /\ received[e] \subseteq 0 .. nextId[Peer(e)] - 1
    <3>1. /\ nextId[e] \in Nat /\ nextId[Peer(e)] \in Nat /\ sent[e] \subseteq Nat
          /\ received[e] \subseteq Nat
      BY PeerFacts DEF Typed
    <3>2. \A id \in sent[e] : id < nextId[e]
      BY DEF NumberInv
    <3>3. \A id \in received[e] : id < nextId[Peer(e)]
      BY PeerFacts DEF NumberInv
    <3> QED
      BY <3>1, <3>2, <3>3
  <2>5. \A i \in DOMAIN outgoing : EnvelopeOK(outgoing[i])
    BY <2>2 DEF Typed
  <2>6. streams \subseteq 0 .. nextId["client"] - 1
    BY DEF Typed, NumberInv, Ends
  <2>7. disconnects \in 0 .. MaxDisconnects /\ phase \in {"connecting", "started", "pinging",
            "connected", "lost", "flushing", "resyncing", "flushed"}
    BY DEF Typed
  <2> QED
    BY <2>3, <2>4, <2>5, <2>6, <2>7 DEF TypeOK
<1> QED
  BY <1>1, Invariance, PTL

(* Cumulative acks are earned: with any number of background threads and of *)
(* dropped connections, a message leaves the buffer that a reconnection     *)
(* sends again only when the peer's reader has observed its id or a later   *)
(* one.                                                                     *)
THEOREM EarnedAcks == Spec => []AckIsEarned
<1>1. IInv => AckIsEarned
  BY DEF IInv
<1> QED
  BY <1>1, Invariance, PTL

(* Nothing that answers RemoteStarted, whose id is always 0, or a flush is  *)
(* ever taken for the response to a request, nor the other way round.       *)
THEOREM MatchedAnswers == Spec => []AnswersMatchRequests
<1>1. IInv => AnswersMatchRequests
  BY DEF IInv
<1> QED
  BY <1>1, Invariance, PTL
=============================================================================
