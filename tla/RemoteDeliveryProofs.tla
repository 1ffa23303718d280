----------------------- MODULE RemoteDeliveryProofs -----------------------
(***************************************************************************)
(* Why a dropped connection loses nothing that the foreground sent through *)
(* RemoteChannel, for any number of messages, requests, streams and of     *)
(* background threads of the server.                                       *)
(*                                                                         *)
(* The argument has six stages: up to the drop each direction is a queue   *)
(* in order, so that what an ack covers has arrived; until resync has sent *)
(* its flush nothing is read; the flush is the first thing the server      *)
(* reads, and has it send its buffer again; no ack that the client reads   *)
(* before the Ack of the flush covers anything that is still missing; on   *)
(* that Ack the client sends its buffer again before it reads on; and from *)
(* then on all that is missing is under way.                               *)
(***************************************************************************)
EXTENDS RemoteChannelProofs

(* The instances for which this holds.  A second drop can come while what   *)
(* is sent again is under way and its buffered copy is already gone, and a  *)
(* background thread of the client can put a message in front of the flush. *)
OneDrop == MaxDisconnects <= 1 /\ \A t \in Threads : ThreadEnd[t] = "server"

Foreground(e, id) == <<e, id>> \notin background

(* What is under way from e, in the order in which the peer reads it.       *)
Lane(e) == IF e = "client" THEN link["server"] ELSE link["client"] \o outgoing

(* No later id is ahead of a message of the foreground.                     *)
Before(e, x, y) ==
    y.kind \in Buffered /\ Foreground(e, y.id) /\ x.kind /= "started" => x.id < y.id
InOrder(e) ==
    \A i, j \in DOMAIN Lane(e) : i < j => Before(e, Lane(e)[i], Lane(e)[j])

(* Where the messages of the foreground are that have not arrived: under    *)
(* way, or in the buffer.                                                   *)
UnderWay(e) ==
    \A id \in sent[e] : Foreground(e, id) =>
        \/ id \in received[Peer(e)]
        \/ \E x \in Range(Lane(e)) : x.kind \in Buffered /\ x.id = id
Kept(e) ==
    \A id \in sent[e] : Foreground(e, id) =>
        id \in received[Peer(e)] \/ \E x \in Range(buffer[e]) : x.id = id

(* An ack that covers nothing that has not arrived.                         *)
Covered(e, ack) ==
    \A id \in sent[e] : Foreground(e, id) /\ id <= ack => id \in received[Peer(e)]
NoGaps(e) == \A ack \in received[Peer(e)] \union {0} : Covered(e, ack)

Flushes == {r \in responses["client"] : r[2] = "flush"}
IsFlushAck(m) == m.kind = "ack" /\ <<m.to, "flush">> \in responses["client"]

(* What the client reads up to the Ack of its flush.                        *)
Barrier ==
    \E k \in DOMAIN Lane("server") :
        /\ IsFlushAck(Lane("server")[k])
        /\ \A i \in 1 .. k : Covered("client", Lane("server")[i].ack)

BaseInv ==
    /\ \A e \in Ends : \A x \in Range(buffer[e]) : x.kind \in Buffered
    /\ \A t \in Threads : sending[t].at /= Idle => <<ThreadEnd[t], sending[t].id>> \in background
    /\ 0 \notin sent["client"]
    /\ \A x \in Range(Lane("server")) : x.kind /= "flush"
    /\ received["server"] = {} =>
          /\ BagToSet(handlers["client"]) = {}
          /\ \A x \in Travelling("server") : x.kind \notin {"req", "streamreq"}

(* Up to the drop.  The first ping's answer, which makes the client         *)
(* connected, is behind the message that may have the id 0.                 *)
FirstStage ==
    /\ disconnects = 0 /\ phase \in {"connecting", "started", "pinging", "connected"}
    /\ Flushes = {} /\ \A x \in Range(link["server"]) : x.kind /= "flush"
    /\ \A e \in Ends : /\ UnderWay(e) /\ InOrder(e)
                       /\ \A ack \in received[Peer(e)] : Covered(e, ack)
                       /\ phase = "connected" => Covered(e, 0)

CutStage ==
    /\ disconnects = 1 /\ phase \in {"lost", "flushing"} /\ Flushes = {}
    /\ link["server"] = <<>>
    /\ IF phase = "lost" THEN link["client"] = <<>> ELSE ~ started["client"]
    /\ \A e \in Ends : NoGaps(e)

AskedStage ==
    /\ disconnects = 1 /\ phase = "resyncing"
    /\ link["server"] /= <<>> /\ Head(link["server"]).kind = "flush"
    /\ Covered("server", Head(link["server"]).ack)
    /\ Flushes = {<<Head(link["server"]).id, "flush">>}
    /\ \A x \in Range(Lane("server")) : ~ IsFlushAck(x)
    /\ NoGaps("client") /\ Kept("server")

AnsweredStage ==
    /\ disconnects = 1 /\ phase = "resyncing"
    /\ \E f \in Nat : Flushes = {<<f, "flush">>}
    /\ Barrier /\ Kept("client") /\ UnderWay("server")

FlushedStage ==
    disconnects = 1 /\ phase = "flushed" /\ Kept("client") /\ UnderWay("server")

AgainStage ==
    disconnects = 1 /\ phase = "connected" /\ UnderWay("client") /\ UnderWay("server")

FlowInv ==
    FirstStage \/ CutStage \/ AskedStage \/ AnsweredStage \/ FlushedStage \/ AgainStage

DeliveryInv == IInv /\ BaseInv /\ FlowInv

-----------------------------------------------------------------------------
(* Sequences and lanes.                                                     *)

(* Joining two sequences commutes with taking the first element.            *)
LEMMA ConcatFacts ==
    ASSUME NEW S, NEW s \in Seq(S), NEW t \in Seq(S)
    PROVE  /\ s /= <<>> => /\ s \o t /= <<>> /\ Head(s \o t) = Head(s)
                           /\ Tail(s \o t) = Tail(s) \o t
           /\ t /= <<>> => Append(s, Head(t)) \o Tail(t) = s \o t
<1>1. /\ s \o t \in Seq(S) /\ Len(s \o t) = Len(s) + Len(t) /\ Len(s) \in Nat /\ Len(t) \in Nat
      /\ \A i \in 1 .. Len(s) + Len(t) : (s \o t)[i] = IF i <= Len(s) THEN s[i] ELSE t[i - Len(s)]
  BY ConcatProperties, LenProperties
<1>2. ASSUME s /= <<>>
      PROVE  s \o t /= <<>> /\ Head(s \o t) = Head(s) /\ Tail(s \o t) = Tail(s) \o t
  <2>1. Len(s) \in Nat \ {0} /\ Head(s) = s[1]
    BY <1>2, EmptySeq, LenProperties, HeadTailProperties
  <2>2. s \o t /= <<>>
    BY <1>1, <2>1, EmptySeq
  <2> DEFINE u == s \o t
  <2>3. u \in Seq(S) /\ u /= <<>> /\ Len(u) = Len(s) + Len(t) /\ u[1] = s[1]
    BY <1>1, <2>1, <2>2
  <2>4. \A i \in 1 .. Len(s) + Len(t) : u[i] = IF i <= Len(s) THEN s[i] ELSE t[i - Len(s)]
    BY <1>1
  <2> HIDE DEF u
  <2>5. Head(u) = u[1] /\ Tail(u) \in Seq(S) /\ Len(Tail(u)) = Len(u) - 1
        /\ \A i \in 1 .. Len(u) - 1 : Tail(u)[i] = u[i + 1]
    BY <2>3, HeadTailProperties
  <2>6. /\ Tail(s) \in Seq(S) /\ Len(Tail(s)) = Len(s) - 1
        /\ \A i \in 1 .. Len(s) - 1 : Tail(s)[i] = s[i + 1]
    BY <1>2, HeadTailProperties
  <2> DEFINE r == Tail(s)
  <2> HIDE DEF r
  <2>7. /\ r \o t \in Seq(S) /\ Len(r \o t) = Len(r) + Len(t)
        /\ \A i \in 1 .. Len(r) + Len(t) : (r \o t)[i] = IF i <= Len(r) THEN r[i] ELSE t[i - Len(r)]
    BY <2>6, ConcatProperties DEF r
  <2>8. Len(Tail(u)) = Len(r \o t)
    BY <1>1, <2>3, <2>5, <2>6, <2>7 DEF r
  <2>9. ASSUME NEW i \in 1 .. Len(Tail(u))
        PROVE  Tail(u)[i] = (r \o t)[i]
    <3>1. i \in 1 .. Len(s) + Len(t) - 1 /\ Tail(u)[i] = u[i + 1] /\ i + 1 \in 1 .. Len(s) + Len(t)
      BY <1>1, <2>3, <2>5
    <3>2. i \in 1 .. Len(r) + Len(t) /\ Len(r) = Len(s) - 1
      BY <1>1, <2>1, <2>6, <3>1 DEF r
    <3>3. CASE i + 1 <= Len(s)
      BY <1>1, <2>1, <2>4, <2>6, <2>7, <3>1, <3>2, <3>3 DEF r
    <3>4. CASE ~(i + 1 <= Len(s))
      <4>1. ~(i <= Len(r)) /\ i - Len(r) = i + 1 - Len(s)
        BY <1>1, <2>1, <3>2, <3>4
      <4> QED
        BY <2>4, <2>7, <3>1, <3>2, <3>4, <4>1
    <3> QED
      BY <3>3, <3>4
  <2>10. Tail(u) = r \o t
    BY <2>5, <2>7, <2>8, <2>9, SeqEqual
  <2> QED
    BY <2>1, <2>2, <2>3, <2>5, <2>10 DEF u, r
<1>3. ASSUME t /= <<>>
      PROVE  Append(s, Head(t)) \o Tail(t) = s \o t
  <2> DEFINE h == Head(t)
             r == Tail(t)
  <2>1. h \in S /\ r \in Seq(S) /\ t = <<h>> \o r
    <3>1. h \in S /\ r \in Seq(S) /\ Len(r) = Len(t) - 1 /\ h = t[1]
          /\ \A i \in 1 .. Len(t) - 1 : r[i] = t[i + 1]
      BY <1>3, HeadTailProperties
    <3>2. Len(t) \in Nat \ {0}
      BY <1>3, EmptySeq, LenProperties
    <3> HIDE DEF h, r
    <3>3. <<h>> \in Seq(S) /\ Len(<<h>>) = 1 /\ <<h>>[1] = h
      BY <3>1
    <3>4. /\ <<h>> \o r \in Seq(S) /\ Len(<<h>> \o r) = 1 + Len(r)
          /\ \A i \in 1 .. 1 + Len(r) : (<<h>> \o r)[i] = IF i <= 1 THEN h ELSE r[i - 1]
      BY <3>1, <3>3, ConcatProperties
    <3>5. Len(t) = Len(<<h>> \o r)
      BY <3>1, <3>2, <3>4
    <3>6. \A i \in 1 .. Len(t) : t[i] = (<<h>> \o r)[i]
      BY <3>1, <3>2, <3>4
    <3> QED
      BY <3>1, <3>4, <3>5, <3>6, SeqEqual
  <2> HIDE DEF h, r
  <2>2. Append(s, h) = s \o <<h>> /\ <<h>> \in Seq(S)
    BY <2>1, AppendIsConcat
  <2>3. (s \o <<h>>) \o r = s \o (<<h>> \o r)
    BY <2>1, <2>2, ConcatAssociative
  <2> QED
    BY <2>1, <2>2, <2>3 DEF h, r
<1> QED
  BY <1>2, <1>3

(* Joining is associative.                                                  *)
LEMMA Associative ==
    ASSUME NEW s \in Seq(Frames), NEW t \in Seq(Frames), NEW q \in Seq(Frames)
    PROVE  (s \o t) \o q = s \o (t \o q)
  BY ConcatAssociative

(* What the server queues is at the end of its lane.                        *)
LEMMA JoinLanes ==
    ASSUME link["client"] \in Seq(Frames), outgoing \in Seq(Frames), NEW q \in Seq(Frames)
    PROVE  link["client"] \o (outgoing \o q) = (link["client"] \o outgoing) \o q
  BY Associative

(* What is in a queue is its first element or behind it.                    *)
LEMMA HeadOrTail ==
    ASSUME NEW S, NEW s \in Seq(S), s /= <<>>, NEW x \in Range(s)
    PROVE  x = Head(s) \/ x \in Range(Tail(s))
<1>1. /\ Len(s) \in Nat /\ Head(s) = s[1] /\ Tail(s) \in Seq(S) /\ Len(Tail(s)) = Len(s) - 1
      /\ \A i \in 1 .. Len(s) - 1 : Tail(s)[i] = s[i + 1]
  BY HeadTailProperties, LenProperties
<1>2. PICK i \in 1 .. Len(s) : x = s[i]
  BY RangeFacts
<1>3. CASE i /= 1
  <2>1. i - 1 \in 1 .. Len(s) - 1 /\ Tail(s)[i - 1] = s[i]
    BY <1>1, <1>3
  <2>2. Range(Tail(s)) = {Tail(s)[j] : j \in 1 .. Len(s) - 1}
    BY <1>1, RangeEquality
  <2> QED
    BY <1>2, <2>1, <2>2
<1> QED
  BY <1>1, <1>2, <1>3

(* The lane of an end holds what moves from it.                             *)
LEMMA LaneFacts ==
    ASSUME Typed, NEW e \in Ends
    PROVE  /\ Lane(e) \in Seq(Frames) /\ Range(Lane(e)) = Moving(e)
           /\ Range(Lane(e)) \subseteq Travelling(e) /\ Range(Lane(e)) \subseteq Frames
<1>1. link["client"] \in Seq(Frames) /\ link["server"] \in Seq(Frames) /\ outgoing \in Seq(Frames)
  BY DEF Typed, Ends
<1>2. /\ link["client"] \o outgoing \in Seq(Frames)
      /\ Range(link["client"] \o outgoing) = Range(link["client"]) \union Range(outgoing)
  BY <1>1, RangeFacts
<1>3. Lane(e) \in Seq(Frames) /\ Range(Lane(e)) = Moving(e)
  BY <1>1, <1>2 DEF Lane, Moving, Ends, Peer
<1> QED
  BY <1>3, TravellingFacts DEF Travelling

(* Sending lengthens the sender's lane and leaves the other one alone.      *)
LEMMA SendLane ==
    ASSUME Typed, NEW e \in Ends, NEW q \in Seq(Frames), Transmit(e, link, q)
    PROVE  /\ Lane(Peer(e))' = Lane(Peer(e))
           /\ Lane(e)' = IF e = "client" /\ phase = "lost" THEN Lane(e) ELSE Lane(e) \o q
<1>1. link \in [Ends -> Seq(Frames)] /\ "client" \in Ends /\ "server" \in Ends /\ outgoing \in Seq(Frames)
  BY DEF Typed, Ends
<1>2. CASE e = "server"
  <2>1. outgoing' = outgoing \o q /\ link' = link
    BY <1>2 DEF Transmit
  <2>2. link["client"] \o (outgoing \o q) = (link["client"] \o outgoing) \o q
    BY <1>1, JoinLanes
  <2> QED
    BY <1>2, <2>1, <2>2 DEF Lane, Peer
<1>3. CASE e = "client"
  <2>1. /\ outgoing' = outgoing /\ link'["client"] = link["client"]
        /\ link'["server"] = IF phase = "lost" THEN link["server"] ELSE link["server"] \o q
    BY <1>1, <1>3 DEF Transmit
  <2> QED
    BY <1>3, <2>1 DEF Lane, Peer
<1> QED
  BY <1>2, <1>3 DEF Ends

(* Reading shortens the lane of the peer.                                   *)
LEMMA ReadLane ==
    ASSUME Typed, NEW e \in Ends, CanRead(e)
    PROVE  /\ Lane(Peer(e)) /= <<>> /\ Head(Lane(Peer(e))) = Head(link[e])
           /\ link' = Rest(e) /\ UNCHANGED outgoing =>
                 Lane(Peer(e))' = Tail(Lane(Peer(e))) /\ Lane(e)' = Lane(e)
           /\ \A q \in Seq(Frames) : Transmit(e, Rest(e), q) =>
                 /\ Lane(Peer(e))' = Tail(Lane(Peer(e)))
                 /\ Lane(e)' = IF e = "client" /\ phase = "lost" THEN Lane(e) ELSE Lane(e) \o q
<1>1. /\ link \in [Ends -> Seq(Frames)] /\ "client" \in Ends /\ "server" \in Ends
      /\ outgoing \in Seq(Frames) /\ link[e] \in Seq(Frames) /\ link[e] /= <<>>
  BY DEF Typed, Ends, CanRead
<1>2. /\ Rest(e) \in [Ends -> Seq(Frames)] /\ Rest(e)[e] = Tail(link[e])
      /\ \A d \in Ends : d /= e => Rest(e)[d] = link[d]
  <2>1. Tail(link[e]) \in Seq(Frames)
    BY <1>1, RangeFacts
  <2> QED
    BY <1>1, <2>1 DEF Rest
<1>3. CASE e = "server"
  <2>1. Lane(Peer(e)) = link["server"] /\ Lane(e) = link["client"] \o outgoing
    BY <1>3 DEF Lane, Peer
  <2>2. ASSUME link' = Rest(e)
        PROVE  Lane(Peer(e))' = Tail(link["server"]) /\ link'["client"] = link["client"]
    BY <1>1, <1>2, <1>3, <2>2 DEF Lane, Peer
  <2>3. ASSUME NEW q \in Seq(Frames), Transmit(e, Rest(e), q)
        PROVE  link' = Rest(e) /\ Lane(e)' = Lane(e) \o q
    <3>1. outgoing' = outgoing \o q /\ link' = Rest(e) /\ link'["client"] = link["client"]
      BY <1>1, <1>2, <1>3, <2>3 DEF Transmit
    <3>2. link["client"] \o (outgoing \o q) = (link["client"] \o outgoing) \o q
      BY <1>1, JoinLanes
    <3> QED
      BY <1>3, <3>1, <3>2 DEF Lane
  <2>4. ASSUME link' = Rest(e), UNCHANGED outgoing
        PROVE  Lane(e)' = Lane(e)
    BY <1>3, <2>2, <2>4 DEF Lane
  <2> QED
    BY <1>1, <1>3, <2>1, <2>2, <2>3, <2>4
<1>4. CASE e = "client"
  <2>1. Lane(Peer(e)) = link["client"] \o outgoing /\ Lane(e) = link["server"]
    BY <1>4 DEF Lane, Peer
  <2>2. /\ link["client"] \o outgoing /= <<>>
        /\ Head(link["client"] \o outgoing) = Head(link["client"])
        /\ Tail(link["client"] \o outgoing) = Tail(link["client"]) \o outgoing
    BY <1>1, <1>4, ConcatFacts
  <2>3. ASSUME link'["client"] = Tail(link["client"]), UNCHANGED outgoing
        PROVE  Lane(Peer(e))' = Tail(Lane(Peer(e)))
    BY <1>4, <2>1, <2>2, <2>3 DEF Lane, Peer
  <2>4. ASSUME link' = Rest(e), UNCHANGED outgoing
        PROVE  Lane(Peer(e))' = Tail(Lane(Peer(e))) /\ Lane(e)' = Lane(e)
    BY <1>1, <1>2, <1>4, <2>3, <2>4 DEF Lane
  <2>5. ASSUME NEW q \in Seq(Frames), Transmit(e, Rest(e), q)
        PROVE  /\ Lane(Peer(e))' = Tail(Lane(Peer(e)))
               /\ Lane(e)' = IF phase = "lost" THEN Lane(e) ELSE Lane(e) \o q
    <3>1. /\ outgoing' = outgoing /\ link'["client"] = Tail(link["client"])
          /\ link'["server"] = IF phase = "lost" THEN link["server"] ELSE link["server"] \o q
      BY <1>1, <1>2, <1>4, <2>5 DEF Transmit
    <3> QED
      BY <1>4, <2>1, <2>3, <3>1 DEF Lane
  <2> QED
    BY <1>4, <2>1, <2>2, <2>4, <2>5
<1> QED
  BY <1>3, <1>4 DEF Ends

-----------------------------------------------------------------------------
(* What a step other than a drop does to the lanes.                         *)

Still(e) == Lane(e)' = Lane(e) /\ received'[Peer(e)] = received[Peer(e)]

Adds(e) ==
    \E m \in Frames :
        /\ Lane(e)' = Lane(e) \o <<m>> /\ received'[Peer(e)] = received[Peer(e)]
        /\ m.kind \in Buffered => m.id = nextId[e] \/ ~ Foreground(e, m.id)
        /\ m.kind = "flush" => e = "client" /\ phase = "flushing"
        /\ m.kind = "ack" => ReceiveStarted(e)

Takes(e) ==
    /\ Receive(Peer(e)) /\ Lane(e) /= <<>> /\ Lane(e)' = Tail(Lane(e))
    /\ received'[Peer(e)] = received[Peer(e)] \union
           (IF Head(Lane(e)).kind \in {"started", "flush"} THEN {} ELSE {Head(Lane(e)).id})

Resends(e) ==
    /\ ReceiveFlush(e) \/ (e = "client" /\ Resend)
    /\ \E q \in Seq(Frames) :
          /\ Lane(e)' = Lane(e) \o q /\ received'[Peer(e)] = received[Peer(e)]
          /\ \A x \in Range(q) : x \in Range(buffer[e]) \/ x.kind = "ack"

(* Only what the ack of the envelope just read covers leaves a buffer.      *)
Drops(e) ==
    \A x \in Range(buffer[e]) \ Range(buffer'[e]) :
        /\ Takes(Peer(e)) /\ Head(Lane(Peer(e))).ack \in Nat
        /\ x.id <= Head(Lane(Peer(e))).ack

(* What the foreground sends has a new id, is buffered, and is under way    *)
(* unless there is no connection.                                           *)
Sends(e) ==
    \A id \in sent'[e] :
        \/ id \in sent[e] \/ <<e, id>> \in background'
        \/ /\ id = nextId[e] /\ \E x \in Range(buffer'[e]) : x.id = id
           /\ \/ e = "client" /\ phase = "lost"
              \/ \E x \in Range(Lane(e)') : x.kind \in Buffered /\ x.id = id

Shape ==
    /\ background \subseteq background'
    /\ \A e \in Ends : /\ Still(e) \/ Adds(e) \/ Takes(e) \/ Resends(e)
                       /\ Drops(e) /\ Sends(e)

(* A step that leaves a queue or a buffer alone.                            *)
LEMMA Unaffected ==
    /\ UNCHANGED buffer => \A e \in Ends : Drops(e)
    /\ UNCHANGED sent => \A e \in Ends : Sends(e)
    /\ UNCHANGED <<link, outgoing, received>> => \A e \in Ends : Still(e)
<1>1. UNCHANGED buffer => \A e \in Ends : Drops(e)
  BY DEF Drops
<1>2. UNCHANGED sent => \A e \in Ends : Sends(e)
  BY DEF Sends
<1>3. UNCHANGED <<link, outgoing, received>> => \A e \in Ends : Still(e)
  BY DEF Still, Lane
<1> QED
  BY <1>1, <1>2, <1>3

(* What two joined queues hold.                                             *)
LEMMA JoinRange ==
    ASSUME NEW s \in Seq(Frames), NEW q \in Seq(Frames)
    PROVE  Range(s \o q) = Range(s) \union Range(q)
  BY RangeConcatenation

(* One envelope on the way, by whichever part of the code.                  *)
LEMMA TransmitShape ==
    ASSUME Typed, NEW e \in Ends, NEW m \in Frames, Transmit(e, link, <<m>>), UNCHANGED received,
           m.kind \in Buffered => m.id = nextId[e] \/ ~ Foreground(e, m.id),
           m.kind = "flush" => e = "client" /\ phase = "flushing", m.kind /= "ack"
    PROVE  /\ \A d \in Ends : Still(d) \/ Adds(d)
           /\ (e = "client" /\ phase = "lost") \/ m \in Range(Lane(e)')
<1>1. <<m>> \in Seq(Frames) /\ Range(<<m>>) = {m}
  BY DEF Range
<1>2. /\ Lane(Peer(e))' = Lane(Peer(e))
      /\ Lane(e)' = IF e = "client" /\ phase = "lost" THEN Lane(e) ELSE Lane(e) \o <<m>>
  BY <1>1, SendLane
<1>3. Still(Peer(e))
  BY <1>2 DEF Still
<1>4. Still(e) \/ Adds(e)
  <2>1. CASE e = "client" /\ phase = "lost"
    BY <1>2, <2>1 DEF Still
  <2>2. CASE ~(e = "client" /\ phase = "lost")
    <3>1. Lane(e)' = Lane(e) \o <<m>> /\ received'[Peer(e)] = received[Peer(e)]
      BY <1>2, <2>2
    <3> QED
      BY <3>1 DEF Adds
  <2> QED
    BY <2>1, <2>2
<1>5. \A d \in Ends : d = e \/ d = Peer(e)
  BY DEF Ends, Peer
<1>6. Range(Lane(e) \o <<m>>) = Range(Lane(e)) \union {m}
  BY <1>1, LaneFacts, JoinRange
<1> QED
  BY <1>2, <1>3, <1>4, <1>5, <1>6

(* send_buffered on the foreground thread.                                  *)
LEMMA SendShape ==
    ASSUME Typed, NEW e \in Ends, NEW kind \in Buffered, NEW to \in Nat \union {NoId},
           NEW item \in 0 .. StreamLength, SendBuffered(e, kind, to, item),
           UNCHANGED <<received, background>>
    PROVE  Shape
<1> DEFINE m == Envelope(nextId[e], kind, maxReceived[e], to, item)
<1>1. \A d \in Ends : Range(buffer'[d]) = Range(buffer[d]) \union (IF d = e THEN {m} ELSE {})
  BY SendFacts
<1>2. m \in Frames /\ m.id = nextId[e] /\ m.kind = kind
  BY DEF Typed, Kinds, Envelope, Frames
<1>3. Transmit(e, link, <<m>>) /\ sent' = [sent EXCEPT ![e] = @ \union {nextId[e]}]
  BY DEF SendBuffered
<1>4. kind \notin {"flush", "ack"}
  BY DEF Buffered, Handled, Answers
<1> HIDE DEF m
<1>5. /\ \A d \in Ends : Still(d) \/ Adds(d)
      /\ (e = "client" /\ phase = "lost") \/ m \in Range(Lane(e)')
  BY <1>2, <1>3, <1>4, TransmitShape
<1>6. \A d \in Ends : Drops(d)
  BY <1>1 DEF Drops
<1>7. \A d \in Ends : Sends(d)
  <2>1. \A d \in Ends : \A id \in sent'[d] : id \in sent[d] \/ (d = e /\ id = nextId[e])
    BY <1>3 DEF Typed
  <2>2. m \in Range(buffer'[e])
    BY <1>1
  <2> QED
    BY <1>2, <1>5, <2>1, <2>2 DEF Sends
<1> QED
  BY <1>5, <1>6, <1>7 DEF Shape

(* Dropping what the ack of the envelope just read covers.                  *)
LEMMA DropShape ==
    ASSUME Typed, NEW e \in Ends, NEW m \in Frames, m = Head(Lane(Peer(e))), Takes(Peer(e)),
           buffer' = [buffer EXCEPT ![e] = Acknowledged(e, m)]
    PROVE  \A d \in Ends : Drops(d)
<1>1. \A d \in Ends : \A x \in Range(buffer[d]) \ Range(buffer'[d]) :
         d = e /\ x.id <= m.ack /\ m.ack \in Nat
  BY ApplyFacts
<1> QED
  BY <1>1 DEF Drops

(* Reading a message, a response or an item.                                *)
LEMMA ObserveShape ==
    ASSUME Typed, NEW e \in Ends, Receive(e), CanRead(e), NEW m, m = Head(link[e]),
           m.kind \notin {"started", "flush"}, Observe(e, m), link' = Rest(e),
           UNCHANGED <<outgoing, sent, background>>
    PROVE  Shape
<1>1. m \in Frames /\ Peer(e) \in Ends /\ Peer(Peer(e)) = e /\ Peer(e) /= e
  BY ReadFacts, PeerFacts
<1>2. /\ Lane(Peer(e)) /= <<>> /\ Head(Lane(Peer(e))) = m
      /\ Lane(Peer(e))' = Tail(Lane(Peer(e))) /\ Lane(e)' = Lane(e)
  BY ReadLane
<1>3. received'[e] = received[e] \union {m.id} /\ received'[Peer(e)] = received[Peer(e)]
  BY <1>1 DEF Observe, Typed
<1>4. Takes(Peer(e))
  BY <1>1, <1>2, <1>3 DEF Takes
<1>5. Still(e)
  BY <1>2, <1>3 DEF Still
<1>6. \A d \in Ends : Drops(d)
  BY <1>1, <1>2, <1>4, DropShape DEF Observe
<1>7. \A d \in Ends : Sends(d)
  BY Unaffected
<1>8. \A d \in Ends : d = e \/ d = Peer(e)
  BY DEF Ends, Peer
<1> QED
  BY <1>4, <1>5, <1>6, <1>7, <1>8 DEF Shape

(* Reading RemoteStarted, and its Ack.                                      *)
LEMMA StartedShape ==
    ASSUME Typed, NEW e \in Ends, ReceiveStarted(e)
    PROVE  Shape
<1> DEFINE m == Head(link[e])
           a == AckOf(e, m)
<1>1. /\ CanRead(e) /\ m.kind = "started" /\ buffer' = [buffer EXCEPT ![e] = Acknowledged(e, m)]
      /\ Transmit(e, Rest(e), <<a>>) /\ UNCHANGED <<sent, received, background>>
  BY DEF ReceiveStarted, histVars
<1>2. m \in Frames /\ Peer(e) \in Ends /\ Peer(Peer(e)) = e /\ Peer(e) /= e
  BY <1>1, ReadFacts, PeerFacts
<1>3. a.kind = "ack" /\ a \in Frames
  BY <1>2, AckOfFacts DEF AckOf, Control, Envelope
<1>4. "ack" \notin Buffered
  BY DEF Buffered, Handled, Answers
<1> HIDE DEF m, a
<1>5. <<a>> \in Seq(Frames)
  BY <1>3
<1>6. /\ Lane(Peer(e)) /= <<>> /\ Head(Lane(Peer(e))) = m
      /\ Lane(Peer(e))' = Tail(Lane(Peer(e)))
      /\ Lane(e)' = IF e = "client" /\ phase = "lost" THEN Lane(e) ELSE Lane(e) \o <<a>>
  BY <1>1, <1>5, ReadLane DEF m
<1>7. Takes(Peer(e))
  BY <1>1, <1>2, <1>6 DEF Takes, Receive
<1>8. Still(e) \/ Adds(e)
  BY <1>1, <1>3, <1>4, <1>6 DEF Still, Adds
<1>9. \A d \in Ends : Drops(d)
  BY <1>1, <1>2, <1>6, <1>7, DropShape
<1>10. \A d \in Ends : Sends(d)
  BY <1>1, Unaffected
<1>11. \A d \in Ends : d = e \/ d = Peer(e)
  BY DEF Ends, Peer
<1> QED
  BY <1>1, <1>7, <1>8, <1>9, <1>10, <1>11 DEF Shape

(* Reading a flush, and sending the buffer again.                           *)
LEMMA FlushShape ==
    ASSUME Typed, NEW e \in Ends, ReceiveFlush(e)
    PROVE  Shape
<1> DEFINE m == Head(link[e])
           a == AckOf(e, m)
           kept == Acknowledged(e, m)
           q == Append(kept, a)
<1>1. /\ CanRead(e) /\ m.kind = "flush" /\ buffer' = [buffer EXCEPT ![e] = Acknowledged(e, m)]
      /\ Transmit(e, Rest(e), q) /\ UNCHANGED <<sent, received, background>>
  BY DEF ReceiveFlush, histVars
<1>2. m \in Frames /\ Peer(e) \in Ends /\ Peer(Peer(e)) = e /\ Peer(e) /= e
  BY <1>1, ReadFacts, PeerFacts
<1>3. a.kind = "ack" /\ a \in Frames
  BY <1>2, AckOfFacts DEF AckOf, Control, Envelope
<1> HIDE DEF m, a
<1>4. kept \in Seq(Frames) /\ Range(kept) \subseteq Range(buffer[e])
  BY <1>2, AckFacts DEF Typed
<1> HIDE DEF kept
<1>5. q \in Seq(Frames) /\ \A x \in Range(q) : x \in Range(buffer[e]) \/ x.kind = "ack"
  BY <1>3, <1>4, RangeFacts
<1> HIDE DEF q
<1>6. /\ Lane(Peer(e)) /= <<>> /\ Head(Lane(Peer(e))) = m
      /\ Lane(Peer(e))' = Tail(Lane(Peer(e)))
      /\ Lane(e)' = IF e = "client" /\ phase = "lost" THEN Lane(e) ELSE Lane(e) \o q
  BY <1>1, <1>5, ReadLane DEF m
<1>7. Takes(Peer(e))
  BY <1>1, <1>2, <1>6 DEF Takes, Receive
<1>8. Still(e) \/ Resends(e)
  BY <1>1, <1>5, <1>6 DEF Still, Resends
<1>9. \A d \in Ends : Drops(d)
  BY <1>1, <1>2, <1>6, <1>7, DropShape
<1>10. \A d \in Ends : Sends(d)
  BY <1>1, Unaffected
<1>11. \A d \in Ends : d = e \/ d = Peer(e)
  BY DEF Ends, Peer
<1> QED
  BY <1>1, <1>7, <1>8, <1>9, <1>10, <1>11 DEF Shape

(* resync sends the buffer again.                                           *)
LEMMA ResendShape ==
    ASSUME Typed, Resend
    PROVE  Shape
<1>1. /\ "client" \in Ends /\ buffer["client"] \in Seq(Frames) /\ phase /= "lost"
      /\ Transmit("client", link, buffer["client"]) /\ UNCHANGED <<buffer, sent, received, background>>
  BY DEF Typed, Ends, Resend, endVars, histVars
<1>2. Lane("server")' = Lane("server") /\ Lane("client")' = Lane("client") \o buffer["client"]
  BY <1>1, SendLane DEF Peer
<1>3. Still("server")
  BY <1>1, <1>2 DEF Still
<1>4. Resends("client")
  BY <1>1, <1>2 DEF Resends
<1>5. \A d \in Ends : Drops(d) /\ Sends(d)
  BY <1>1, Unaffected
<1> QED
  BY <1>1, <1>3, <1>4, <1>5 DEF Shape, Ends

(* Writing moves an envelope within the server's lane.                      *)
LEMMA ServerWriteShape ==
    ASSUME Typed, ServerWrite
    PROVE  Shape
<1> USE DEF ServerWrite, endVars, histVars
<1>1. /\ link \in [Ends -> Seq(Frames)] /\ link["client"] \in Seq(Frames) /\ outgoing \in Seq(Frames)
      /\ outgoing /= <<>> /\ "client" \in Ends /\ "server" \in Ends
  BY DEF Typed, Ends
<1>2. /\ link'["client"] = Append(link["client"], Head(outgoing)) /\ link'["server"] = link["server"]
      /\ outgoing' = Tail(outgoing)
  BY <1>1
<1>3. Append(link["client"], Head(outgoing)) \o Tail(outgoing) = link["client"] \o outgoing
  BY <1>1, ConcatFacts
<1>4. \A d \in Ends : Still(d)
  BY <1>2, <1>3 DEF Still, Lane, Ends
<1>5. \A d \in Ends : Drops(d) /\ Sends(d)
  BY Unaffected
<1> QED
  BY <1>4, <1>5 DEF Shape

(* A background thread buffers a message.                                   *)
LEMMA PushBufferShape ==
    ASSUME Typed, BaseInv, NEW t \in Threads, PushBuffer(t)
    PROVE  Shape
<1> USE DEF PushBuffer, netVars
<1>1. /\ ThreadEnd[t] \in Ends /\ sending[t].at /= Idle /\ buffer \in [Ends -> Seq(Frames)]
      /\ sent \in [Ends -> SUBSET Nat]
  BY BoundsAssumption DEF Typed, Idle
<1>2. <<ThreadEnd[t], sending[t].id>> \in background'
  BY <1>1 DEF BaseInv
<1>3. \A d \in Ends : Sends(d)
  BY <1>1, <1>2 DEF Sends
<1>4. \A d \in Ends : Still(d)
  BY Unaffected
<1>5. \A d \in Ends : Range(buffer[d]) \subseteq Range(buffer'[d])
  <2> SUFFICES ASSUME NEW d \in Ends, d = ThreadEnd[t] PROVE Range(buffer[d]) \subseteq Range(buffer'[d])
    BY <1>1
  <2> DEFINE s == buffer[d]
             m == Control(sending[t].id, "msg", maxReceived[d], NoId)
  <2>1. buffer'[d] = Append(s, m) /\ s \in Seq(Frames)
    BY <1>1
  <2> HIDE DEF s, m
  <2>2. Len(s) \in Nat /\ DOMAIN s = 1 .. Len(s) /\ DOMAIN Append(s, m) = 1 .. Len(s) + 1
        /\ \A i \in 1 .. Len(s) : Append(s, m)[i] = s[i]
    BY <2>1
  <2>3. Range(s) \subseteq Range(Append(s, m))
    BY <2>2 DEF Range
  <2> QED
    BY <2>1, <2>3 DEF s
<1>6. \A d \in Ends : Drops(d)
  BY <1>5 DEF Drops
<1> QED
  BY <1>3, <1>4, <1>6 DEF Shape

(* A background thread sends a message.                                     *)
LEMMA PushQueueShape ==
    ASSUME Typed, NumberInv, BaseInv, NEW t \in Threads, PushQueue(t)
    PROVE  Shape
<1> DEFINE m == Control(sending[t].id, "msg", sending[t].ack, NoId)
<1>1. /\ ThreadEnd[t] \in Ends /\ sending[t].at /= Idle /\ sending[t] \in Steps
      /\ UNCHANGED <<buffer, sent, received, background>> /\ Transmit(ThreadEnd[t], link, <<m>>)
  BY BoundsAssumption DEF Typed, Idle, PushQueue, endVars, histVars
<1>2. sending[t].id \in Nat /\ ~ Foreground(ThreadEnd[t], sending[t].id)
  BY <1>1 DEF NumberInv, BaseInv, Foreground
<1>3. m \in Frames /\ m.kind = "msg" /\ m.id = sending[t].id
  BY <1>1, <1>2, BoundsAssumption DEF Control, Envelope, Frames, Kinds, Buffered, Handled, Steps
<1> HIDE DEF m
<1>4. \A d \in Ends : Still(d) \/ Adds(d)
  BY <1>1, <1>2, <1>3, TransmitShape
<1>5. \A d \in Ends : Drops(d) /\ Sends(d)
  BY <1>1, Unaffected
<1> QED
  BY <1>1, <1>4, <1>5 DEF Shape

(* A reader announces itself.                                               *)
LEMMA StartReaderShape ==
    ASSUME Typed, NEW e \in Ends, StartReader(e)
    PROVE  Shape
<1> DEFINE m == Control(0, "started", NoId, NoId)
<1>1. UNCHANGED <<buffer, sent, received, background>> /\ Transmit(e, link, <<m>>)
  BY DEF StartReader, endVars, histVars
<1>2. m \in Frames /\ m.kind = "started" /\ "started" \notin Buffered
  BY BoundsAssumption DEF Control, Envelope, Frames, Kinds, Buffered, Handled, Answers
<1> HIDE DEF m
<1>3. \A d \in Ends : Still(d) \/ Adds(d)
  BY <1>1, <1>2, TransmitShape
<1>4. \A d \in Ends : Drops(d) /\ Sends(d)
  BY <1>1, Unaffected
<1> QED
  BY <1>1, <1>3, <1>4 DEF Shape

(* resync sends its flush.                                                  *)
LEMMA ResyncShape ==
    ASSUME Typed, Resync
    PROVE  Shape
<1> DEFINE m == Control(nextId["client"], "flush", maxReceived["client"], NoId)
<1>1. /\ UNCHANGED <<buffer, sent, received, background>> /\ Transmit("client", link, <<m>>)
      /\ "client" \in Ends /\ phase = "flushing"
  BY DEF Resync, histVars, Ends
<1>2. m \in Frames /\ m.kind = "flush" /\ "flush" \notin Buffered
  BY BoundsAssumption DEF Control, Envelope, Frames, Kinds, Buffered, Handled, Answers, Typed, Ends
<1> HIDE DEF m
<1>3. \A d \in Ends : Still(d) \/ Adds(d)
  BY <1>1, <1>2, TransmitShape
<1>4. \A d \in Ends : Drops(d) /\ Sends(d)
  BY <1>1, Unaffected
<1> QED
  BY <1>1, <1>3, <1>4 DEF Shape

(* A handler answers.                                                       *)
LEMMA RespondShape ==
    ASSUME Typed, NEW e \in Ends, Respond(e)
    PROVE  Shape
<1>1. PICK h \in BagToSet(handlers[e]) :
        LET answer == CASE h.kind = "req" -> "resp"
                        [] h.kind = "streamreq" /\ h.done < StreamLength -> "item"
                        [] OTHER -> "end"
        IN  /\ SendBuffered(e, answer, h.id, IF answer = "item" THEN h.done + 1 ELSE 0)
            /\ UNCHANGED <<received, background>>
  BY DEF Respond
<1> DEFINE answer == CASE h.kind = "req" -> "resp"
                       [] h.kind = "streamreq" /\ h.done < StreamLength -> "item"
                       [] OTHER -> "end"
           item == IF answer = "item" THEN h.done + 1 ELSE 0
<1>2. h \in Running /\ StreamLength \in Nat
  BY BoundsAssumption DEF Typed
<1>3. h.id \in Nat /\ answer \in Buffered /\ item \in 0 .. StreamLength
  BY <1>2 DEF Running, Buffered, Answers, Handled
<1>4. SendBuffered(e, answer, h.id, item) /\ UNCHANGED <<received, background>>
  BY <1>1
<1> HIDE DEF answer, item
<1> QED
  BY <1>3, <1>4, SendShape

(* Every step but a drop has one of these shapes.                           *)
LEMMA StepShape ==
    ASSUME Typed, NumberInv, BaseInv, [Next]_vars, ~ Disconnect
    PROVE  Shape
<1>1. 0 \in 0 .. StreamLength /\ Handled \subseteq Buffered /\ "req" \in Buffered /\ "client" \in Ends
  BY BoundsAssumption DEF Buffered, Handled, Ends
<1>2. ASSUME NEW e \in Ends, NEW kind \in Handled, Send(e, kind)
      PROVE  Shape
  BY <1>1, <1>2, SendShape DEF Send
<1>3. CASE Ping
  BY <1>1, <1>3, SendShape DEF Ping
<1>4. ASSUME NEW e \in Ends, ReceiveMessage(e)
      PROVE  Shape
  BY <1>4, ObserveShape DEF Receive, ReceiveMessage, Handled
<1>5. ASSUME NEW e \in Ends, ReceiveResponse(e)
      PROVE  Shape
  BY <1>5, ObserveShape DEF Receive, ReceiveResponse
<1>6. ASSUME NEW e \in Ends, ReceiveStream(e)
      PROVE  Shape
  BY <1>6, ObserveShape DEF Receive, ReceiveStream
<1>7. ASSUME NEW t \in Threads, AllocateId(t)
      PROVE  Shape
  <2>1. UNCHANGED <<link, outgoing, received, buffer, sent>> /\ background \subseteq background'
    BY <1>7 DEF AllocateId, netVars
  <2> QED
    BY <2>1, Unaffected DEF Shape
<1>8. ASSUME Reconnect \/ DropStream \/ UNCHANGED vars
      PROVE  Shape
  <2>1. UNCHANGED <<link, outgoing, received, buffer, sent, background>>
    BY <1>8 DEF Reconnect, DropStream, vars, netVars, endVars, histVars
  <2> QED
    BY <2>1, Unaffected DEF Shape
<1>9. ASSUME NEW e \in Ends, StartReader(e) \/ Respond(e) \/ ReceiveFlush(e) \/ ReceiveStarted(e)
      PROVE  Shape
  BY <1>9, StartReaderShape, RespondShape, FlushShape, StartedShape
<1>10. ASSUME NEW t \in Threads, PushBuffer(t) \/ PushQueue(t)
       PROVE  Shape
  BY <1>10, PushBufferShape, PushQueueShape
<1>11. CASE ServerWrite \/ Resync \/ Resend
  BY <1>11, ServerWriteShape, ResyncShape, ResendShape
<1> QED
  BY <1>2, <1>3, <1>4, <1>5, <1>6, <1>7, <1>8, <1>9, <1>10, <1>11 DEF Next

-----------------------------------------------------------------------------
(* What holds in every stage.                                               *)

(* Only what goes through send_buffered is buffered.                        *)
LEMMA BufferKinds ==
    ASSUME Typed, NumberInv, BaseInv, [Next]_vars, NEW e \in Ends, NEW x \in Range(buffer'[e])
    PROVE  x.kind \in Buffered
<1> DEFINE Good == Range(buffer'[e]) \subseteq Range(buffer[e]) \/ x.kind \in Buffered
<1>1. 0 \in 0 .. StreamLength /\ Handled \subseteq Buffered /\ "req" \in Buffered /\ "client" \in Ends
  BY BoundsAssumption DEF Buffered, Handled, Ends
<1>2. ASSUME NEW d \in Ends, NEW kind \in Buffered, NEW to \in Nat \union {NoId},
             NEW item \in 0 .. StreamLength, SendBuffered(d, kind, to, item)
      PROVE  Good
  <2> DEFINE m == Envelope(nextId[d], kind, maxReceived[d], to, item)
  <2>1. Range(buffer'[e]) = Range(buffer[e]) \union (IF e = d THEN {m} ELSE {})
    BY <1>2, SendFacts
  <2>2. m.kind = kind
    BY DEF Envelope
  <2> HIDE DEF m
  <2> QED
    BY <2>1, <2>2 DEF BaseInv
<1>3. ASSUME NEW d \in Ends, CanRead(d), buffer' = [buffer EXCEPT ![d] = Acknowledged(d, Head(link[d]))]
      PROVE  Good
  BY <1>3, ReadFacts, ApplyFacts
<1>4. ASSUME NEW t \in Threads, PushBuffer(t)
      PROVE  Good
  <2> DEFINE d == ThreadEnd[t]
             m == Control(sending[t].id, "msg", maxReceived[d], NoId)
  <2>1. /\ d \in Ends /\ sending[t].at /= Idle /\ sending[t] \in Steps /\ maxReceived[d] \in Nat
        /\ buffer' = [buffer EXCEPT ![d] = Append(@, m)] /\ buffer \in [Ends -> Seq(Frames)]
    BY <1>4, BoundsAssumption DEF Typed, Idle, PushBuffer
  <2>2. sending[t].id \in Nat
    BY <2>1 DEF NumberInv
  <2>3. m \in Frames /\ m.kind = "msg" /\ "msg" \in Buffered
    BY <2>1, <2>2, BoundsAssumption DEF Control, Envelope, Frames, Kinds, Buffered, Handled
  <2> HIDE DEF m, d
  <2>4. Range(Append(buffer[d], m)) = Range(buffer[d]) \union {m}
    BY <2>1, <2>3, RangeFacts
  <2>5. buffer'[e] = IF e = d THEN Append(buffer[d], m) ELSE buffer[e]
    BY <2>1
  <2> QED
    BY <2>3, <2>4, <2>5 DEF BaseInv
<1>5. CASE UNCHANGED buffer
  BY <1>5 DEF BaseInv
<1> HIDE DEF Good
<1>6. ASSUME NEW d \in Ends, Respond(d)
      PROVE  Good
  <2>1. PICK h \in BagToSet(handlers[d]) :
          LET answer == CASE h.kind = "req" -> "resp"
                          [] h.kind = "streamreq" /\ h.done < StreamLength -> "item"
                          [] OTHER -> "end"
          IN  SendBuffered(d, answer, h.id, IF answer = "item" THEN h.done + 1 ELSE 0)
    BY <1>6 DEF Respond
  <2> DEFINE answer == CASE h.kind = "req" -> "resp"
                         [] h.kind = "streamreq" /\ h.done < StreamLength -> "item"
                         [] OTHER -> "end"
             item == IF answer = "item" THEN h.done + 1 ELSE 0
  <2>2. h \in Running /\ StreamLength \in Nat
    BY BoundsAssumption DEF Typed
  <2>3. h.id \in Nat /\ answer \in Buffered /\ item \in 0 .. StreamLength
    BY <2>2 DEF Running, Buffered, Answers, Handled
  <2>4. SendBuffered(d, answer, h.id, item)
    BY <2>1
  <2> HIDE DEF answer, item
  <2> QED
    BY <1>2, <2>3, <2>4
<1>7. ASSUME NEW d \in Ends,
             ReceiveFlush(d) \/ ReceiveStarted(d) \/ ReceiveMessage(d) \/ ReceiveResponse(d) \/ ReceiveStream(d)
      PROVE  Good
  BY <1>3, <1>7 DEF ReceiveFlush, ReceiveStarted, ReceiveMessage, ReceiveResponse, ReceiveStream, Observe
<1>8. ASSUME NEW d \in Ends, NEW kind \in Handled, Send(d, kind)
      PROVE  Good
  BY <1>1, <1>2, <1>8 DEF Send
<1>9. ASSUME Ping
      PROVE  Good
  BY <1>1, <1>2, <1>9 DEF Ping
<1>10. \/ UNCHANGED buffer \/ Ping \/ \E t \in Threads : PushBuffer(t)
       \/ \E d \in Ends : \/ Respond(d) \/ \E kind \in Handled : Send(d, kind)
                          \/ ReceiveFlush(d) \/ ReceiveStarted(d) \/ ReceiveMessage(d)
                          \/ ReceiveResponse(d) \/ ReceiveStream(d)
  BY DEF Next, vars, endVars, StartReader, AllocateId, PushQueue, ServerWrite, DropStream,
         Disconnect, Reconnect, Resync, Resend
<1>11. Good \/ UNCHANGED buffer
  BY <1>4, <1>6, <1>7, <1>8, <1>9, <1>10
<1> QED
  BY <1>5, <1>11 DEF Good, BaseInv

(* The client buffers nothing under the id 0: its first Ack has it.         *)
LEMMA ZeroStep ==
    ASSUME IInv, BaseInv, OneDrop, [Next]_vars
    PROVE  0 \notin sent'["client"]
<1> USE DEF IInv
<1>1. "client" \in Ends /\ nextId["client"] \in Nat /\ sent \in [Ends -> SUBSET Nat]
  BY DEF Typed, Ends
<1>2. ASSUME NEW kind, NEW to, NEW item, NEW e \in Ends, SendBuffered(e, kind, to, item),
             e = "client" => nextId["client"] > 0
      PROVE  0 \notin sent'["client"]
  BY <1>1, <1>2 DEF SendBuffered, BaseInv
<1>3. phase /= "connecting" => nextId["client"] > 0
  BY DEF BeginInv
<1>4. nextId["client"] = 0 => BagToSet(handlers["client"]) = {}
  <2>1. nextId["client"] = 0 => received["server"] = {}
    BY <1>1 DEF NumberInv, Typed, Ends, Peer
  <2> QED
    BY <2>1 DEF BaseInv
<1>5. ASSUME NEW e \in Ends, Respond(e)
      PROVE  0 \notin sent'["client"]
  BY <1>1, <1>2, <1>4, <1>5 DEF Respond
<1>6. ASSUME NEW e \in Ends, NEW kind \in Handled, Send(e, kind)
      PROVE  0 \notin sent'["client"]
  BY <1>2, <1>3, <1>6 DEF Send, MaySend
<1>7. CASE Ping
  BY <1>1, <1>2, <1>3, <1>7 DEF Ping
<1>8. ASSUME NEW t \in Threads, PushBuffer(t)
      PROVE  0 \notin sent'["client"]
  BY <1>1, <1>8 DEF PushBuffer, OneDrop, BaseInv
<1>9. CASE UNCHANGED sent
  BY <1>9 DEF BaseInv
<1>10. \/ UNCHANGED sent \/ Ping \/ \E t \in Threads : PushBuffer(t)
       \/ \E e \in Ends : Respond(e) \/ \E kind \in Handled : Send(e, kind)
  BY DEF Next, vars, histVars, StartReader, AllocateId, PushQueue, ServerWrite, DropStream,
         ReceiveFlush, ReceiveStarted, ReceiveMessage, ReceiveResponse, ReceiveStream,
         Disconnect, Reconnect, Resync, Resend
<1> QED
  BY <1>5, <1>6, <1>7, <1>8, <1>9, <1>10

(* The id of a background thread is on record as such.                      *)
LEMMA ThreadStep ==
    ASSUME Typed, BaseInv, [Next]_vars, NEW t \in Threads, sending'[t].at /= Idle
    PROVE  <<ThreadEnd[t], sending'[t].id>> \in background'
<1>1. sending \in [Threads -> Steps]
  BY DEF Typed
<1>2. ASSUME NEW u \in Threads, AllocateId(u)
      PROVE  <<ThreadEnd[t], sending'[t].id>> \in background'
  BY <1>1, <1>2 DEF AllocateId, BaseInv
<1>3. ASSUME NEW u \in Threads, PushBuffer(u)
      PROVE  <<ThreadEnd[t], sending'[t].id>> \in background'
  <2>1. sending[t].at /= Idle /\ sending'[t].id = sending[t].id /\ UNCHANGED background
    BY <1>1, <1>3 DEF PushBuffer, Steps, Idle
  <2> QED
    BY <2>1 DEF BaseInv
<1>4. ASSUME NEW u \in Threads, PushQueue(u)
      PROVE  <<ThreadEnd[t], sending'[t].id>> \in background'
  BY <1>1, <1>4 DEF PushQueue, BaseInv, histVars
<1>5. CASE UNCHANGED <<sending, background>>
  BY <1>5 DEF BaseInv
<1>6. \/ UNCHANGED <<sending, background>>
      \/ \E u \in Threads : AllocateId(u) \/ PushBuffer(u) \/ PushQueue(u)
  BY DEF Next, vars, histVars, StartReader, Respond, Send, ServerWrite, DropStream,
         ReceiveFlush, ReceiveStarted, ReceiveMessage, ReceiveResponse, ReceiveStream,
         Ping, Disconnect, Reconnect, Resync, Resend
<1> QED
  BY <1>2, <1>3, <1>4, <1>5, <1>6

(* What enters and what leaves a lane.                                      *)
LEMMA RangeStep ==
    ASSUME Typed, BaseInv, Shape, NEW e \in Ends
    PROVE  /\ \A x \in Range(Lane(e)) : x \in Range(Lane(e)') \/ (Takes(e) /\ x = Head(Lane(e)))
           /\ \A x \in Range(Lane(e)') :
                 \/ x \in Range(Lane(e))
                 \/ /\ x.kind = "flush" => e = "client" /\ phase = "flushing"
                    /\ x.kind = "ack" => ReceiveStarted(e) \/ Resends(e)
           /\ received[Peer(e)] \subseteq received'[Peer(e)]
<1>1. Lane(e) \in Seq(Frames)
  BY LaneFacts
<1>2. CASE Still(e)
  BY <1>2 DEF Still
<1>3. CASE Adds(e)
  <2>1. PICK m \in Frames :
          /\ Lane(e)' = Lane(e) \o <<m>> /\ received'[Peer(e)] = received[Peer(e)]
          /\ m.kind = "flush" => e = "client" /\ phase = "flushing"
          /\ m.kind = "ack" => ReceiveStarted(e)
    BY <1>3 DEF Adds
  <2>2. <<m>> \in Seq(Frames) /\ Range(<<m>>) = {m}
    BY DEF Range
  <2>3. Range(Lane(e)') = Range(Lane(e)) \union {m}
    BY <1>1, <2>1, <2>2, JoinRange
  <2> QED
    BY <2>1, <2>3
<1>4. CASE Takes(e)
  <2>1. /\ Lane(e) /= <<>> /\ Lane(e)' = Tail(Lane(e))
        /\ received[Peer(e)] \subseteq received'[Peer(e)]
    BY <1>4 DEF Takes
  <2>2. Range(Lane(e)') \subseteq Range(Lane(e))
    BY <1>1, <2>1, RangeFacts
  <2>3. \A x \in Range(Lane(e)) : x = Head(Lane(e)) \/ x \in Range(Lane(e)')
    BY <1>1, <2>1, HeadOrTail
  <2> QED
    BY <1>4, <2>1, <2>2, <2>3
<1>5. CASE Resends(e)
  <2>1. PICK q \in Seq(Frames) :
          /\ Lane(e)' = Lane(e) \o q /\ received'[Peer(e)] = received[Peer(e)]
          /\ \A x \in Range(q) : x \in Range(buffer[e]) \/ x.kind = "ack"
    BY <1>5 DEF Resends
  <2>2. Range(Lane(e)') = Range(Lane(e)) \union Range(q)
    BY <1>1, <2>1, JoinRange
  <2>3. \A x \in Range(q) : x.kind \in Buffered \/ x.kind = "ack"
    BY <2>1 DEF BaseInv
  <2>4. "flush" \notin Buffered /\ "ack" \notin Buffered
    BY DEF Buffered, Handled, Answers
  <2> QED
    BY <1>5, <2>1, <2>2, <2>3, <2>4
<1> QED
  BY <1>2, <1>3, <1>4, <1>5 DEF Shape

(* What the base of the argument says of the server before it has read      *)
(* anything is kept, and no flush comes from the server.                    *)
LEMMA BaseStep ==
    ASSUME IInv, BaseInv, OneDrop, [Next]_vars
    PROVE  BaseInv'
<1> USE DEF IInv
<1>1. Effect /\ "server" \in Ends /\ "client" \in Ends
  BY StepEffect DEF Ends
<1>2. \A e \in Ends : \A x \in Range(buffer'[e]) : x.kind \in Buffered
  BY BufferKinds
<1>3. \A t \in Threads : sending'[t].at /= Idle => <<ThreadEnd[t], sending'[t].id>> \in background'
  BY ThreadStep
<1>4. 0 \notin sent'["client"]
  BY ZeroStep
<1>5. ASSUME NEW x \in Range(Lane("server")')
      PROVE  x.kind /= "flush"
  <2>1. CASE ~ Disconnect
    <3>1. Shape
      BY <2>1, StepShape
    <3>2. \/ x \in Range(Lane("server"))
          \/ x.kind = "flush" => "server" = "client" /\ phase = "flushing"
      BY <1>1, <1>5, <3>1, RangeStep
    <3> QED
      BY <3>2 DEF BaseInv
  <2>2. CASE Disconnect
    <3>1. outgoing' = outgoing /\ link'["client"] = <<>> /\ outgoing \in Seq(Frames)
          /\ link["client"] \in Seq(Frames)
      BY <1>1, <2>2 DEF Disconnect, Typed
    <3>2. Lane("server")' = <<>> \o outgoing /\ Lane("server") = link["client"] \o outgoing
      BY <3>1 DEF Lane
    <3>3. <<>> \in Seq(Frames) /\ Range(<<>>) = {}
      BY EmptySeq DEF Range
    <3>4. /\ Range(<<>> \o outgoing) = Range(<<>>) \union Range(outgoing)
          /\ Range(link["client"] \o outgoing) = Range(link["client"]) \union Range(outgoing)
      BY <3>1, <3>3, JoinRange
    <3> QED
      BY <1>5, <3>2, <3>3, <3>4 DEF BaseInv
  <2> QED
    BY <2>1, <2>2
<1>6. ASSUME received'["server"] = {}
      PROVE  /\ BagToSet(handlers'["client"]) = {}
             /\ \A x \in Travelling("server")' : x.kind \notin {"req", "streamreq"}
  <2>1. received["server"] = {}
    BY <1>1, <1>6 DEF Effect, Observes
  <2>2. /\ BagToSet(handlers["client"]) = {}
        /\ \A x \in Travelling("server") : x.kind \notin {"req", "streamreq"}
    BY <2>1 DEF BaseInv
  <2>3. Peer("client") = "server"
    BY DEF Peer
  <2>4. BagToSet(handlers'["client"]) = {}
    BY <1>1, <2>2, <2>3 DEF Effect, Runs
  <2>5. \A x \in Travelling("server")' : x \in Travelling("server") \/ New("server", x)
    BY <1>1 DEF Effect, Travels
  <2>6. ASSUME NEW x, New("server", x)
        PROVE  x.kind \notin {"req", "streamreq"}
    BY <2>1, <2>6 DEF New
  <2> QED
    BY <2>2, <2>4, <2>5, <2>6
<1> QED
  BY <1>2, <1>3, <1>4, <1>5, <1>6 DEF BaseInv

-----------------------------------------------------------------------------
(* What a step other than a drop keeps of each part of the argument.        *)

(* What is under way stays under way or is read.                            *)
LEMMA UnderWayStep ==
    ASSUME Typed, BaseInv, Shape, NEW e \in Ends, UnderWay(e), ~(e = "client" /\ phase = "lost")
    PROVE  UnderWay(e)'
<1> SUFFICES ASSUME NEW id \in sent'[e], <<e, id>> \notin background',
                    id \notin received'[Peer(e)]
             PROVE  \E x \in Range(Lane(e)') : x.kind \in Buffered /\ x.id = id
  BY DEF UnderWay, Foreground
<1>1. Sends(e) /\ background \subseteq background'
  BY DEF Shape
<1>2. CASE id \notin sent[e]
  BY <1>1, <1>2 DEF Sends
<1>3. CASE id \in sent[e]
  <2>1. <<e, id>> \notin background /\ id \notin received[Peer(e)]
    BY <1>1, RangeStep
  <2>2. PICK x \in Range(Lane(e)) : x.kind \in Buffered /\ x.id = id
    BY <1>3, <2>1 DEF UnderWay, Foreground
  <2>3. x \in Range(Lane(e)') \/ (Takes(e) /\ x = Head(Lane(e)))
    BY RangeStep
  <2>4. x.kind \notin {"started", "flush"}
    BY <2>2 DEF Buffered, Handled, Answers
  <2> QED
    BY <2>2, <2>3, <2>4 DEF Takes
<1> QED
  BY <1>2, <1>3

(* What is buffered stays so until an ack that covers nothing missing.      *)
LEMMA KeptStep ==
    ASSUME Typed, BaseInv, Shape, NEW e \in Ends, Kept(e),
           Takes(Peer(e)) => Covered(e, Head(Lane(Peer(e))).ack)
    PROVE  Kept(e)'
<1> SUFFICES ASSUME NEW id \in sent'[e], <<e, id>> \notin background',
                    id \notin received'[Peer(e)]
             PROVE  \E x \in Range(buffer'[e]) : x.id = id
  BY DEF Kept, Foreground
<1>1. Sends(e) /\ Drops(e) /\ background \subseteq background'
  BY DEF Shape
<1>2. CASE id \notin sent[e]
  BY <1>1, <1>2 DEF Sends
<1>3. CASE id \in sent[e]
  <2>1. <<e, id>> \notin background /\ id \notin received[Peer(e)]
    BY <1>1, RangeStep
  <2>2. PICK x \in Range(buffer[e]) : x.id = id
    BY <1>3, <2>1 DEF Kept, Foreground
  <2>3. ASSUME x \notin Range(buffer'[e])
        PROVE  FALSE
    <3>1. Takes(Peer(e)) /\ id <= Head(Lane(Peer(e))).ack
      BY <1>1, <2>2, <2>3 DEF Drops
    <3> QED
      BY <1>3, <2>1, <3>1 DEF Covered, Foreground
  <2> QED
    BY <2>2, <2>3
<1> QED
  BY <1>2, <1>3

(* A new message has an id that no ack covers yet.                          *)
LEMMA CoveredStep ==
    ASSUME Typed, BaseInv, Shape, NEW e \in Ends, NEW a \in Int, a < nextId[e], Covered(e, a)
    PROVE  Covered(e, a)'
<1> SUFFICES ASSUME NEW id \in sent'[e], <<e, id>> \notin background', id <= a
             PROVE  id \in received'[Peer(e)]
  BY DEF Covered, Foreground
<1>1. Sends(e) /\ background \subseteq background' /\ received[Peer(e)] \subseteq received'[Peer(e)]
  BY RangeStep DEF Shape
<1>2. CASE id \in sent[e]
  BY <1>1, <1>2 DEF Covered, Foreground
<1>3. CASE id \notin sent[e]
  <2>1. id = nextId[e] /\ nextId[e] \in Nat
    BY <1>1, <1>3 DEF Sends, Typed
  <2> QED
    BY <2>1
<1> QED
  BY <1>2, <1>3

(* Both queues are first in, first out, and a new id is the largest.        *)
LEMMA OrderStep ==
    ASSUME Typed, NumberInv, Shape, NEW e \in Ends, InOrder(e), ~ Resends(e)
    PROVE  InOrder(e)'
<1> DEFINE s == Lane(e)
           r == Lane(e)'
           Ahead(x, y) == y.kind \in Buffered /\ <<e, y.id>> \notin background' /\ x.kind /= "started"
                              => x.id < y.id
<1>1. s \in Seq(Frames) /\ background \subseteq background'
  BY LaneFacts DEF Shape
<1>2. \A i, j \in DOMAIN s : i < j => Ahead(s[i], s[j])
  BY <1>1 DEF InOrder, Before, Foreground
<1>3. SUFFICES \A i, j \in DOMAIN r : i < j => Ahead(r[i], r[j])
  BY <1>3 DEF InOrder, Before, Foreground
<1>4. CASE Still(e)
  BY <1>2, <1>4 DEF Still
<1>5. CASE Takes(e)
  <2>1. s /= <<>> /\ r = Tail(s)
    BY <1>5 DEF Takes
  <2> HIDE DEF s, r, Ahead
  <2>2. /\ Len(s) \in Nat \ {0} /\ DOMAIN s = 1 .. Len(s) /\ DOMAIN r = 1 .. Len(s) - 1
        /\ \A i \in 1 .. Len(s) - 1 : r[i] = s[i + 1]
    BY <1>1, <2>1, EmptySeq, LenProperties, HeadTailProperties
  <2> QED
    BY <1>2, <2>2
<1>6. CASE Adds(e)
  <2>1. PICK m \in Frames :
          /\ r = s \o <<m>>
          /\ m.kind \in Buffered => m.id = nextId[e] \/ ~ Foreground(e, m.id)
    BY <1>6 DEF Adds
  <2>2. \A x \in Range(s) : x.kind /= "started" => x.id < nextId[e]
    BY LaneFacts DEF NumberInv
  <2>3. \A x \in Range(s) : Ahead(x, m)
    BY <1>1, <2>1, <2>2 DEF Foreground
  <2> HIDE DEF s, r, Ahead
  <2>4. <<m>> \in Seq(Frames) /\ Len(<<m>>) = 1 /\ <<m>>[1] = m /\ Len(s) \in Nat
        /\ DOMAIN s = 1 .. Len(s)
    BY <1>1, LenProperties
  <2>5. /\ r \in Seq(Frames) /\ Len(r) = Len(s) + 1 /\ DOMAIN r = 1 .. Len(r)
        /\ \A i \in 1 .. Len(s) + 1 : r[i] = IF i <= Len(s) THEN s[i] ELSE <<m>>[i - Len(s)]
    BY <1>1, <2>1, <2>4, ConcatProperties, LenProperties
  <2>6. r[Len(s) + 1] = m /\ \A i \in 1 .. Len(s) : r[i] = s[i] /\ s[i] \in Range(s)
    BY <1>1, <2>4, <2>5, RangeFacts
  <2> QED
    BY <1>2, <2>3, <2>4, <2>5, <2>6
<1> QED
  BY <1>4, <1>5, <1>6 DEF Shape

(* While each lane is in order, what was read covers what arrived.          *)
LEMMA FirstCovered ==
    ASSUME Typed, NumberInv, BaseInv, Shape, NEW e \in Ends, UnderWay(e), InOrder(e),
           \A ack \in received[Peer(e)] : Covered(e, ack)
    PROVE  \A ack \in received'[Peer(e)] : Covered(e, ack)'
<1>1. /\ Peer(e) \in Ends /\ received[Peer(e)] \subseteq Nat /\ nextId[e] \in Nat /\ sent[e] \subseteq Nat
      /\ \A a \in received[Peer(e)] : a < nextId[e]
  BY PeerFacts DEF Typed, NumberInv
<1>2. ASSUME NEW a \in received[Peer(e)]
      PROVE  Covered(e, a)'
  BY <1>1, <1>2, CoveredStep
<1>3. ASSUME NEW a \in received'[Peer(e)], a \notin received[Peer(e)]
      PROVE  Covered(e, a)'
  <2> DEFINE h == Head(Lane(e))
  <2>1. Takes(e) /\ a = h.id /\ h.kind \notin {"started", "flush"}
    <3>1. ~ Still(e) /\ ~ Adds(e) /\ ~ Resends(e)
      BY <1>3 DEF Still, Adds, Resends
    <3>2. Takes(e)
      BY <3>1 DEF Shape
    <3> QED
      BY <1>3, <3>2 DEF Takes
  <2>2. Lane(e) \in Seq(Frames) /\ Lane(e) /= <<>> /\ Range(Lane(e)) \subseteq Travelling(e)
    BY <2>1, LaneFacts DEF Takes
  <2>3. h \in Range(Lane(e)) /\ Range(Lane(e)) \subseteq Frames
    BY <2>2, RangeFacts
  <2>4. h.id < nextId[e] /\ h.id \in Nat
    BY <2>1, <2>2, <2>3 DEF NumberInv, Frames
  <2>5. ASSUME NEW x \in Range(Lane(e)), x.kind \in Buffered, Foreground(e, x.id), x.id <= h.id
        PROVE  x.id = h.id
    <3>1. PICK j \in 1 .. Len(Lane(e)) : x = Lane(e)[j]
      BY <2>2, <2>5, RangeFacts
    <3>2. DOMAIN Lane(e) = 1 .. Len(Lane(e)) /\ Len(Lane(e)) \in Nat \ {0} /\ h = Lane(e)[1]
      BY <2>2, LenProperties, EmptySeq, HeadTailProperties
    <3>3. j /= 1 => h.id < x.id
      BY <2>1, <2>5, <3>1, <3>2 DEF InOrder, Before
    <3>4. x.id \in Nat
      BY <2>3, <2>5 DEF Frames
    <3> QED
      BY <2>4, <2>5, <3>1, <3>2, <3>3, <3>4
  <2>6. Covered(e, a)'
    <3> SUFFICES ASSUME NEW id \in sent'[e], <<e, id>> \notin background', id <= a
                 PROVE  id \in received'[Peer(e)]
      BY DEF Covered, Foreground
    <3>1. Sends(e) /\ background \subseteq background' /\ received[Peer(e)] \subseteq received'[Peer(e)]
      BY RangeStep DEF Shape
    <3>2. id \in sent[e]
      BY <1>1, <2>1, <2>4, <3>1 DEF Sends
    <3>3. CASE id \notin received[Peer(e)]
      <4>1. PICK x \in Range(Lane(e)) : x.kind \in Buffered /\ x.id = id
        BY <3>1, <3>2, <3>3 DEF UnderWay, Foreground
      <4>2. id = a
        BY <2>1, <2>5, <3>1, <4>1 DEF Foreground
      <4> QED
        BY <1>3, <4>2
    <3> QED
      BY <3>1, <3>3
  <2> QED
    BY <2>6
<1> QED
  BY <1>2, <1>3

(* While the peer reads nothing, what it read goes on covering what arrived. *)
LEMMA GapsStep ==
    ASSUME Typed, NumberInv, BaseInv, Shape, NEW e \in Ends, NoGaps(e), nextId[e] > 0,
           received'[Peer(e)] = received[Peer(e)]
    PROVE  NoGaps(e)'
<1>1. /\ Peer(e) \in Ends /\ received[Peer(e)] \subseteq Nat /\ nextId[e] \in Nat
      /\ \A a \in received[Peer(e)] : a < nextId[e]
  BY PeerFacts DEF Typed, NumberInv
<1>2. ASSUME NEW a \in received[Peer(e)] \union {0}
      PROVE  Covered(e, a)'
  <2>1. a \in Int /\ a < nextId[e] /\ Covered(e, a)
    BY <1>1, <1>2 DEF NoGaps
  <2> QED
    BY <2>1, CoveredStep
<1> QED
  BY <1>2 DEF NoGaps

(* What has left a buffer although it is missing would be covered.          *)
LEMMA GapsKept ==
    ASSUME Typed, AckIsEarned, NEW e \in Ends, NoGaps(e)
    PROVE  Kept(e)
<1> SUFFICES ASSUME NEW id \in sent[e], Foreground(e, id), id \notin received[Peer(e)],
                    \A x \in Range(buffer[e]) : x.id /= id
             PROVE  FALSE
  BY DEF Kept
<1>1. id \notin Ids(buffer[e]) /\ id \in Nat /\ received[Peer(e)] \subseteq Nat
  BY PeerFacts DEF Ids, Range, Typed
<1>2. id /= 0
  BY <1>1 DEF NoGaps, Covered
<1>3. PICK r \in received[Peer(e)] : r >= id
  BY <1>1, <1>2 DEF AckIsEarned
<1>4. id <= r
  BY <1>1, <1>3
<1> QED
  BY <1>3, <1>4 DEF NoGaps, Covered

-----------------------------------------------------------------------------
(* How the stages follow each other.                                        *)

(* The client has the Ack of a flush that it waits for.                     *)
Answered == ReceiveResponse("client") /\ <<Head(link["client"]).to, "flush">> \in responses["client"]

(* How the state of the client's connection changes.                        *)
LEMMA PhaseStep ==
    ASSUME [Next]_vars
    PROVE  /\ \/ UNCHANGED phase
              \/ phase = "connecting" /\ phase' = "started"
              \/ phase = "started" /\ phase' = "pinging"
              \/ phase = "pinging" /\ phase' = "connected" /\ ReceiveResponse("client")
              \/ phase = "resyncing" /\ phase' = "flushed" /\ Answered
              \/ Disconnect \/ Reconnect \/ Resync \/ Resend
           /\ Disconnect \/ UNCHANGED disconnects
<1>1. ASSUME NEW e \in Ends, ReceiveResponse(e)
      PROVE  \/ UNCHANGED phase
             \/ phase = "pinging" /\ phase' = "connected" /\ ReceiveResponse("client")
             \/ phase = "resyncing" /\ phase' = "flushed" /\ Answered
  <2> DEFINE open == {r \in responses[e] : r[1] = Head(link[e]).to}
  <2>1. phase' = CASE e = "client" /\ phase = "pinging" /\ open /= {} -> "connected"
                   [] e = "client" /\ phase = "resyncing" /\ <<CurrentFlush, "flush">> \in open -> "flushed"
                   [] OTHER -> phase
    BY <1>1 DEF ReceiveResponse
  <2>2. <<CurrentFlush, "flush">> \in open => <<Head(link[e]).to, "flush">> \in responses[e]
    OBVIOUS
  <2>3. CASE e = "client" /\ phase = "pinging" /\ open /= {}
    BY <1>1, <2>1, <2>3
  <2>4. CASE e = "client" /\ phase = "resyncing" /\ <<CurrentFlush, "flush">> \in open
    BY <1>1, <2>1, <2>2, <2>4 DEF Answered
  <2> QED
    BY <2>1, <2>3, <2>4
<1>2. \A e \in Ends : ReceiveStarted(e) =>
         UNCHANGED phase \/ (phase = "connecting" /\ phase' = "started")
  BY DEF ReceiveStarted
<1>3. Ping => phase = "started" /\ phase' = "pinging"
  BY DEF Ping
<1>4. \/ UNCHANGED phase \/ Ping \/ Disconnect \/ Reconnect \/ Resync \/ Resend
      \/ \E e \in Ends : ReceiveStarted(e) \/ ReceiveResponse(e)
  BY DEF Next, vars, netVars, StartReader, Respond, Send, ReceiveFlush, ReceiveMessage,
         ReceiveStream, AllocateId, PushBuffer, PushQueue, ServerWrite, DropStream
<1>5. Disconnect \/ UNCHANGED disconnects
  BY DEF Next, vars, netVars, StartReader, Respond, Send, ReceiveFlush, ReceiveStarted,
         ReceiveMessage, ReceiveResponse, ReceiveStream, AllocateId, PushBuffer, PushQueue,
         ServerWrite, DropStream, Ping, Reconnect, Resync, Resend
<1> QED
  BY <1>1, <1>2, <1>3, <1>4, <1>5

(* A flush is opened by resync and closed by its Ack.                       *)
LEMMA FlushesStep ==
    ASSUME Typed, [Next]_vars, ~ Resync, ~ Answered
    PROVE  Flushes' = Flushes
<1>1. responses \in [Ends -> SUBSET (Nat \X {"req", "flush"})] /\ "client" \in Ends
  BY DEF Typed, Ends
<1>2. ASSUME NEW e \in Ends, NEW kind, NEW to, NEW item, SendBuffered(e, kind, to, item)
      PROVE  Flushes' = Flushes
  <2>1. responses'["client"] \in {responses["client"],
                                  responses["client"] \union {<<nextId["client"], "req">>}}
    BY <1>1, <1>2 DEF SendBuffered
  <2> QED
    BY <2>1 DEF Flushes
<1>3. ASSUME NEW e \in Ends, ReceiveResponse(e)
      PROVE  Flushes' = Flushes
  <2>1. responses' = [responses EXCEPT ![e] = @ \ {r \in responses[e] : r[1] = Head(link[e]).to}]
    BY <1>3 DEF ReceiveResponse
  <2>2. CASE e /= "client"
    BY <1>1, <2>1, <2>2 DEF Flushes
  <2>3. CASE e = "client"
    <3>1. responses'["client"] =
            responses["client"] \ {r \in responses["client"] : r[1] = Head(link["client"]).to}
      BY <1>1, <2>1, <2>3
    <3>2. <<Head(link["client"]).to, "flush">> \notin responses["client"]
      BY <1>3, <2>3 DEF Answered
    <3>3. \A r \in Flushes : r = <<r[1], "flush">> /\ r \in responses["client"]
      BY <1>1 DEF Flushes
    <3>4. \A r \in Flushes : r \in responses'["client"]
      BY <3>1, <3>2, <3>3
    <3> QED
      BY <3>1, <3>4 DEF Flushes
  <2> QED
    BY <2>2, <2>3
<1>4. UNCHANGED responses => Flushes' = Flushes
  BY DEF Flushes
<1>5. \/ UNCHANGED responses
      \/ \E e \in Ends : \/ ReceiveResponse(e)
                         \/ \E kind, to, item : SendBuffered(e, kind, to, item)
  <2>1. \A e \in Ends : Respond(e) => \E kind, to, item : SendBuffered(e, kind, to, item)
    BY DEF Respond
  <2>2. \A e \in Ends, kind \in Handled : Send(e, kind) => SendBuffered(e, kind, NoId, 0)
    BY DEF Send
  <2>3. Ping => SendBuffered("client", "req", NoId, 0)
    BY DEF Ping
  <2>4. \/ UNCHANGED responses \/ Ping
        \/ \E e \in Ends : ReceiveResponse(e) \/ Respond(e) \/ \E kind \in Handled : Send(e, kind)
    BY DEF Next, vars, endVars, StartReader, ReceiveFlush, ReceiveStarted, ReceiveMessage,
           ReceiveStream, AllocateId, PushBuffer, PushQueue, ServerWrite, DropStream,
           Disconnect, Reconnect, Resend
  <2> QED
    BY <1>1, <2>1, <2>2, <2>3, <2>4
<1> QED
  BY <1>2, <1>3, <1>4, <1>5

(* It is an Ack: no response is taken for it.                               *)
LEMMA AnsweredFacts ==
    ASSUME Typed, MatchInv, Answered
    PROVE  /\ Lane("server") /= <<>> /\ Head(Lane("server")) = Head(link["client"])
           /\ IsFlushAck(Head(Lane("server")))
<1>1. "client" \in Ends /\ "server" \in Ends /\ Peer("client") = "server" /\ Peer("server") = "client"
      /\ CanRead("client")
  BY DEF Ends, Peer, Answered, ReceiveResponse
<1>2. Lane("server") /= <<>> /\ Head(Lane("server")) = Head(link["client"])
  BY <1>1, ReadLane
<1>3. Head(link["client"]) \in Travelling("server")
  BY <1>1, ReadFacts
<1>4. Head(link["client"]).kind \in {"resp", "ack"}
  BY DEF Answered, ReceiveResponse
<1>5. Head(link["client"]).kind /= "resp"
  BY <1>1, <1>3 DEF MatchInv, Answered
<1> QED
  BY <1>2, <1>4, <1>5 DEF IsFlushAck, Answered

(* No second drop, and whatever the stage the step has one of the shapes.   *)
LEMMA NoSecondDrop ==
    ASSUME IInv, BaseInv, OneDrop, [Next]_vars, disconnects = 1
    PROVE  ~ Disconnect /\ Shape /\ disconnects' = 1
<1>1. ~ Disconnect
  BY BoundsAssumption DEF Disconnect, OneDrop
<1> QED
  BY <1>1, PhaseStep, StepShape DEF IInv

(* On the Ack the client sends its buffer again before it reads on.         *)
LEMMA FlushedStep ==
    ASSUME IInv, BaseInv, OneDrop, [Next]_vars, FlushedStage
    PROVE  FlushedStage' \/ AgainStage'
<1> USE DEF FlushedStage
<1>1. Shape /\ ~ Disconnect /\ disconnects' = 1 /\ Typed /\ "client" \in Ends /\ "server" \in Ends
      /\ Peer("client") = "server"
  BY NoSecondDrop DEF IInv, Ends, Peer
<1>2. UnderWay("server")'
  BY <1>1, UnderWayStep
<1>3. ~ Takes("server")
  BY DEF Takes, Receive, Peer, CanRead, ReceiveFlush, ReceiveStarted, ReceiveMessage,
         ReceiveResponse, ReceiveStream
<1>4. Kept("client")'
  BY <1>1, <1>3, KeptStep
<1>5. CASE Resend
  <2>1. /\ Transmit("client", link, buffer["client"]) /\ UNCHANGED <<sent, background, received>>
        /\ phase' = "connected" /\ buffer["client"] \in Seq(Frames)
    BY <1>1, <1>5 DEF Resend, histVars, Typed
  <2>2. Lane("client")' = Lane("client") \o buffer["client"] /\ Lane("client") \in Seq(Frames)
    BY <1>1, <2>1, SendLane, LaneFacts
  <2>3. Range(buffer["client"]) \subseteq Range(Lane("client")')
    BY <2>1, <2>2, JoinRange
  <2>4. \A x \in Range(buffer["client"]) : x.kind \in Buffered
    BY <1>1 DEF BaseInv
  <2>5. UnderWay("client")'
    BY <2>1, <2>3, <2>4 DEF UnderWay, Kept, Foreground
  <2> QED
    BY <1>1, <1>2, <2>1, <2>5 DEF AgainStage
<1>6. CASE ~ Resend
  <2>1. phase' = phase
    BY <1>1, <1>6, PhaseStep DEF Reconnect, Resync
  <2> QED
    BY <1>1, <1>2, <1>4, <2>1
<1> QED
  BY <1>5, <1>6

(* From then on everything missing is under way.                            *)
LEMMA AgainStep ==
    ASSUME IInv, BaseInv, OneDrop, [Next]_vars, AgainStage
    PROVE  AgainStage'
<1> USE DEF AgainStage
<1>1. Shape /\ ~ Disconnect /\ disconnects' = 1 /\ Typed /\ "client" \in Ends /\ "server" \in Ends
  BY NoSecondDrop DEF IInv, Ends
<1>2. UnderWay("server")' /\ UnderWay("client")'
  BY <1>1, UnderWayStep
<1>3. phase' = phase
  BY <1>1, PhaseStep DEF Reconnect, Resync, Resend
<1> QED
  BY <1>1, <1>2, <1>3

(* An ack under way is below the counter of what it acknowledges.           *)
LEMMA AckBelow ==
    ASSUME IInv, NEW e \in Ends, nextId[Peer(e)] > 0, NEW x \in Range(Lane(e))
    PROVE  x.ack \in Int /\ x.ack < nextId[Peer(e)] /\ x.ack \in received[e] \union {0, NoId}
<1> USE DEF IInv
<1>1. x \in Travelling(e) /\ Peer(e) \in Ends /\ Peer(Peer(e)) = e /\ received[e] \subseteq Nat
      /\ nextId[Peer(e)] \in Nat
  BY LaneFacts, PeerFacts DEF Typed
<1>2. x.ack \in received[e] \union {0, NoId}
  BY <1>1 DEF AckInv
<1>3. \A id \in received[e] : id < nextId[Peer(e)]
  BY <1>1 DEF NumberInv
<1> QED
  BY <1>1, <1>2, <1>3 DEF NoId

(* Until the client has the Ack of the flush it reads no ack that covers    *)
(* anything that has not arrived.                                           *)
LEMMA BarrierStep ==
    ASSUME IInv, BaseInv, Shape, Barrier, ~ Answered, phase /= "connecting", Flushes' = Flushes
    PROVE  Barrier'
<1> USE DEF IInv
<1>before. PICK s : s = Lane("server")
  OBVIOUS
<1>after. PICK r : r = Lane("server")'
  OBVIOUS
<1>1. "client" \in Ends /\ "server" \in Ends /\ Peer("server") = "client" /\ s \in Seq(Frames)
      /\ Peer("client") = "server"
  BY <1>before, LaneFacts DEF Ends, Peer
<1>2. PICK k \in DOMAIN s :
        IsFlushAck(s[k]) /\ \A i \in 1 .. k : Covered("client", s[i].ack)
  BY <1>before DEF Barrier
<1>3. Len(s) \in Nat /\ DOMAIN s = 1 .. Len(s)
  BY <1>1, LenProperties
<1>4. \A x : IsFlushAck(x) => IsFlushAck(x)'
  BY DEF Flushes, IsFlushAck
<1>5. nextId["client"] > 0
  BY DEF BeginInv
<1>6. ASSUME NEW i \in 1 .. k
      PROVE  Covered("client", s[i].ack) /\ \A a : a = s[i].ack => Covered("client", a)'
  <2>1. i \in 1 .. Len(s) /\ Covered("client", s[i].ack)
    BY <1>2, <1>3
  <2>2. s[i] \in Range(s)
    BY <1>1, <2>1, RangeFacts
  <2>3. s[i].ack \in Int /\ s[i].ack < nextId["client"]
    BY <1>before, <1>1, <1>5, <2>2, AckBelow
  <2> QED
    BY <1>1, <2>1, <2>3, CoveredStep
<1>7. ASSUME NEW n \in 0 .. k - 1, r \in Seq(Frames), Len(r) + n >= k,
             \A i \in 1 .. k - n : r[i] = s[i + n]
      PROVE  Barrier'
  <2>1. k - n \in DOMAIN r /\ r[k - n] = s[k] /\ k \in Nat
    BY <1>3, <1>7, LenProperties
  <2>2. \A i \in 1 .. k - n : i + n \in 1 .. k
    BY <1>3, <1>7
  <2>3. ASSUME NEW i \in 1 .. k - n
        PROVE  Covered("client", Lane("server")[i].ack)'
    <3>1. i + n \in 1 .. k /\ r[i] = s[i + n]
      BY <1>7, <2>2, <2>3
    <3>2. PICK a : a = s[i + n].ack
      OBVIOUS
    <3>3. Covered("client", a)' /\ a = Lane("server")'[i].ack
      BY <1>after, <1>6, <3>1, <3>2
    <3> QED
      BY <3>3 DEF Covered
  <2>4. IsFlushAck(Lane("server")[k - n])'
    <3>1. IsFlushAck(s[k])
      BY <1>2
    <3>2. PICK x : x = s[k] /\ x = Lane("server")'[k - n]
      BY <1>after, <2>1
    <3>3. IsFlushAck(x)'
      BY <1>4, <3>1, <3>2
    <3> QED
      BY <3>2, <3>3 DEF IsFlushAck
  <2> QED
    BY <1>after, <2>1, <2>3, <2>4 DEF Barrier
<1>8. ASSUME NEW q \in Seq(Frames), r = s \o q
      PROVE  Barrier'
  <2>1. /\ r \in Seq(Frames) /\ Len(r) = Len(s) + Len(q) /\ Len(q) \in Nat
        /\ \A i \in 1 .. Len(s) + Len(q) : r[i] = IF i <= Len(s) THEN s[i] ELSE q[i - Len(s)]
    BY <1>1, <1>8, ConcatProperties, LenProperties
  <2>2. 0 \in 0 .. k - 1 /\ Len(r) + 0 >= k /\ \A i \in 1 .. k - 0 : r[i] = s[i + 0]
    BY <1>3, <2>1
  <2> QED
    BY <1>7, <2>1, <2>2
<1>9. CASE Still("server")
  <2>1. r = s /\ 0 \in 0 .. k - 1 /\ Len(r) + 0 >= k /\ \A i \in 1 .. k - 0 : r[i] = s[i + 0]
    BY <1>3, <1>9, <1>before, <1>after DEF Still
  <2> QED
    BY <1>1, <1>7, <2>1
<1>10. CASE Adds("server")
  <2>1. PICK m \in Frames : r = s \o <<m>>
    BY <1>10, <1>before, <1>after DEF Adds
  <2>2. <<m>> \in Seq(Frames)
    OBVIOUS
  <2> QED
    BY <1>8, <2>1, <2>2
<1>11. CASE Resends("server")
  BY <1>8, <1>11, <1>before, <1>after DEF Resends
<1>12. CASE Takes("server")
  <2>1. s /= <<>> /\ r = Tail(s) /\ Receive("client")
    BY <1>1, <1>12, <1>before, <1>after DEF Takes
  <2>2. /\ Len(s) \in Nat \ {0} /\ r \in Seq(Frames) /\ Len(r) = Len(s) - 1 /\ Head(s) = s[1]
        /\ \A i \in 1 .. Len(s) - 1 : r[i] = s[i + 1]
    BY <1>1, <2>1, EmptySeq, LenProperties, HeadTailProperties
  <2>3. k /= 1
    <3> SUFFICES ASSUME k = 1 PROVE FALSE
      OBVIOUS
    <3>1. CanRead("client")
      BY <2>1 DEF Receive, ReceiveFlush, ReceiveStarted, ReceiveMessage, ReceiveResponse, ReceiveStream
    <3>2. Head(link["client"]) = Head(s)
      BY <1>before, <1>1, <3>1, ReadLane
    <3>3. IsFlushAck(Head(link["client"]))
      BY <1>2, <2>2, <3>2
    <3>4. ReceiveResponse("client")
      BY <2>1, <3>3 DEF IsFlushAck, Receive, ReceiveFlush, ReceiveStarted, ReceiveMessage,
                         ReceiveStream, Handled
    <3> QED
      BY <3>3, <3>4 DEF Answered, IsFlushAck
  <2>4. 1 \in 0 .. k - 1 /\ Len(r) + 1 >= k /\ \A i \in 1 .. k - 1 : r[i] = s[i + 1]
    BY <1>3, <2>2, <2>3
  <2> QED
    BY <1>7, <2>2, <2>4
<1> QED
  BY <1>1, <1>9, <1>10, <1>11, <1>12 DEF Shape

(* The Ack of the flush is read behind what the server sent again.          *)
LEMMA AnsweredStep ==
    ASSUME IInv, BaseInv, OneDrop, [Next]_vars, AnsweredStage
    PROVE  AnsweredStage' \/ FlushedStage'
<1> USE DEF AnsweredStage, IInv
<1>1. Shape /\ ~ Disconnect /\ disconnects' = 1 /\ Typed /\ "client" \in Ends /\ "server" \in Ends
      /\ Peer("client") = "server" /\ Lane("server") \in Seq(Frames)
  BY NoSecondDrop, LaneFacts DEF Ends, Peer
<1>2. UnderWay("server")'
  BY <1>1, UnderWayStep
<1>3. Takes("server") => Covered("client", Head(Lane("server")).ack)
  <2>1. PICK k \in DOMAIN Lane("server") :
          \A i \in 1 .. k : Covered("client", Lane("server")[i].ack)
    BY DEF Barrier
  <2>2. DOMAIN Lane("server") = 1 .. Len(Lane("server")) /\ Len(Lane("server")) \in Nat
    BY <1>1, LenProperties
  <2>3. 1 \in 1 .. k /\ Lane("server") /= <<>>
    BY <1>1, <2>1, <2>2, EmptySeq
  <2>4. Head(Lane("server")) = Lane("server")[1]
    BY <1>1, <2>3, HeadTailProperties
  <2> QED
    BY <2>1, <2>3, <2>4
<1>4. Kept("client")'
  BY <1>1, <1>3, KeptStep
<1>5. PICK f \in Nat : Flushes = {<<f, "flush">>}
  OBVIOUS
<1>6. CASE Answered
  <2> DEFINE to == Head(link["client"]).to
  <2>1. <<to, "flush">> \in responses["client"] /\ ReceiveResponse("client")
    BY <1>6 DEF Answered
  <2>2. to = f
    <3>1. <<to, "flush">> \in Flushes
      BY <2>1 DEF Flushes
    <3> QED
      BY <1>5, <3>1
  <2>3. f \in 0 .. nextId["client"] /\ nextId["client"] \in Nat
    BY <1>1, <2>1, <2>2 DEF NumberInv, Typed
  <2>4. \A r \in responses["client"] : r[2] = "flush" => r[1] = f
    BY <1>5 DEF Flushes
  <2>5. CurrentFlush = f
    <3>1. /\ <<f, "flush">> \in responses["client"]
          /\ \A r \in responses["client"] : r[2] = "flush" => r[1] <= f
      BY <2>1, <2>2, <2>4
    <3>2. \A id : <<id, "flush">> \in responses["client"] => id = f
      BY <2>4
    <3> QED
      BY <2>3, <3>1, <3>2 DEF CurrentFlush
  <2>6. <<CurrentFlush, "flush">> \in {r \in responses["client"] : r[1] = to}
    BY <2>1, <2>2, <2>5
  <2>7. phase' = "flushed"
    BY <2>1, <2>6 DEF ReceiveResponse
  <2> QED
    BY <1>1, <1>2, <1>4, <2>7 DEF FlushedStage
<1>7. CASE ~ Answered
  <2>1. phase' = phase
    BY <1>1, <1>7, PhaseStep DEF Reconnect, Resync, Resend
  <2>2. Flushes' = Flushes
    BY <1>1, <1>7, FlushesStep DEF Resync
  <2>3. Barrier'
    BY <1>1, <1>7, <2>2, BarrierStep
  <2> QED
    BY <1>1, <1>2, <1>4, <1>5, <2>1, <2>2, <2>3
<1> QED
  BY <1>6, <1>7

(* The server reads the flush: all it keeps goes on its way again, and the  *)
(* Ack behind it.                                                           *)
LEMMA FlushRead ==
    ASSUME IInv, BaseInv, AskedStage, ReceiveFlush("server"), disconnects' = 1
    PROVE  AnsweredStage'
<1> USE DEF AskedStage, IInv
<1> DEFINE m == Head(link["server"])
           a == AckOf("server", m)
           kept == Acknowledged("server", m)
           q == Append(kept, a)
<1>1. "client" \in Ends /\ "server" \in Ends /\ Peer("server") = "client" /\ Peer("client") = "server"
      /\ CanRead("server") /\ Lane("server") \in Seq(Frames)
  BY LaneFacts DEF Ends, Peer, ReceiveFlush
<1>2. /\ buffer' = [buffer EXCEPT !["server"] = kept] /\ Transmit("server", Rest("server"), q)
      /\ UNCHANGED <<phase, responses, sent, received, background>>
  BY DEF ReceiveFlush, histVars
<1>3. m \in Frames /\ a \in Frames /\ a.kind = "ack" /\ a.to = m.id /\ a.ack = NoId
  BY <1>1, ReadFacts, AckOfFacts DEF AckOf, Control, Envelope
<1>4. /\ kept \in Seq(Frames) /\ Range(kept) \subseteq Range(buffer["server"])
      /\ \A x \in Range(buffer["server"]) \ Range(kept) : x.id <= m.ack
  <2>1. buffer["server"] \in Seq(Frames)
    BY <1>1 DEF Typed
  <2> QED
    BY <1>3, <2>1, AckFacts
<1>5. Covered("server", m.ack) /\ Flushes = {<<m.id, "flush">>} /\ m.id \in Nat
  BY <1>3 DEF Frames
<1> HIDE DEF m, a, kept
<1>6. q \in Seq(Frames) /\ Range(q) = Range(kept) \union {a} /\ Len(q) = Len(kept) + 1
      /\ q[Len(kept) + 1] = a /\ Len(kept) \in Nat
  BY <1>3, <1>4, RangeFacts, AppendProperties, LenProperties
<1> HIDE DEF q
<1>7. /\ Lane("server")' = Lane("server") \o q
      /\ Range(Lane("server") \o q) = Range(Lane("server")) \union Range(q)
  <2>1. Lane("server")' = Lane("server") \o q
    BY <1>1, <1>2, <1>6, ReadLane
  <2>2. Range(Lane("server") \o q) = Range(Lane("server")) \union Range(q)
    BY <1>1, <1>6, JoinRange
  <2> QED
    BY <2>1, <2>2
<1>8. Flushes' = {<<m.id, "flush">>} /\ phase' = "resyncing"
  BY <1>2, <1>5 DEF Flushes
<1>9. UnderWay("server")'
  <2> SUFFICES ASSUME NEW id \in sent["server"], Foreground("server", id),
                      id \notin received["client"]
               PROVE  \E x \in Range(Lane("server")') : x.kind \in Buffered /\ x.id = id
    BY <1>1, <1>2 DEF UnderWay, Foreground
  <2>1. PICK x \in Range(buffer["server"]) : x.id = id
    BY <1>1 DEF Kept
  <2>2. x \in Range(kept)
    BY <1>1, <1>4, <1>5, <2>1 DEF Covered
  <2>3. x \in Range(Lane("server")')
    BY <1>6, <1>7, <2>2
  <2>4. x.kind \in Buffered
    BY <1>1, <2>1 DEF BaseInv
  <2> QED
    BY <2>1, <2>3, <2>4
<1>10. NoGaps("client")'
  BY <1>1, <1>2 DEF NoGaps, Covered, Foreground
<1>11. Kept("client")'
  <2>1. Kept("client")
    BY <1>1, GapsKept
  <2>2. buffer'["client"] = buffer["client"]
    BY <1>1, <1>2 DEF Typed
  <2> QED
    BY <1>1, <1>2, <2>1, <2>2 DEF Kept, Foreground
<1>12. Barrier'
  <2>1. PICK r : r = Lane("server")'
    OBVIOUS
  <2>2. PICK s \in Seq(Frames) : s = Lane("server")
    BY <1>1
  <2>3. Len(r) \in Nat \ {0} /\ DOMAIN r = 1 .. Len(r) /\ r[Len(r)] = a /\ r \in Seq(Frames)
    <3>1. /\ s \o q \in Seq(Frames) /\ Len(s \o q) = Len(s) + Len(q) /\ Len(s) \in Nat
          /\ \A i \in 1 .. Len(s) + Len(q) : (s \o q)[i] = IF i <= Len(s) THEN s[i] ELSE q[i - Len(s)]
      BY <1>6, <2>2, ConcatProperties, LenProperties
    <3>2. r = s \o q
      BY <1>7, <2>1, <2>2
    <3>3. /\ r \in Seq(Frames) /\ Len(r) = Len(s) + Len(q)
          /\ \A i \in 1 .. Len(s) + Len(q) : r[i] = IF i <= Len(s) THEN s[i] ELSE q[i - Len(s)]
      BY <3>1, <3>2
    <3> QED
      BY <1>6, <3>1, <3>3, LenProperties
  <2>4. IsFlushAck(Lane("server")[Len(r)])'
    <3>1. <<m.id, "flush">> \in responses'["client"]
      BY <1>8 DEF Flushes
    <3>2. Lane("server")'[Len(r)] = a
      BY <2>1, <2>3
    <3> QED
      BY <1>3, <3>1, <3>2 DEF IsFlushAck
  <2>5. ASSUME NEW i \in 1 .. Len(r)
        PROVE  Covered("client", Lane("server")[i].ack)'
    <3>1. PICK x : x = r[i]
      OBVIOUS
    <3>2. x \in Range(Lane("server")) \union Range(buffer["server"]) \union {a}
      <4>1. x \in Range(r)
        BY <2>3, <2>5, <3>1, RangeFacts
      <4> QED
        BY <1>4, <1>6, <1>7, <2>1, <4>1
    <3>3. Range(Lane("server")) \subseteq Travelling("server")
      BY <1>1, LaneFacts
    <3>4. x \in Travelling("server") \/ x = a
      BY <3>2, <3>3 DEF Travelling
    <3>5. x.ack \in received'["server"] \union {0, NoId}
      BY <1>1, <1>2, <1>3, <3>4 DEF AckInv
    <3>6. PICK k : k = x.ack
      OBVIOUS
    <3>7. Covered("client", k)'
      <4>1. CASE k \in received'["server"] \union {0}
        BY <1>1, <1>10, <4>1 DEF NoGaps
      <4>2. CASE k = NoId
        <5>1. sent'["client"] \subseteq Nat
          BY <1>1, <1>2 DEF Typed
        <5> QED
          BY <4>2, <5>1 DEF Covered, NoId
      <4> QED
        BY <3>5, <3>6, <4>1, <4>2
    <3>8. k = Lane("server")'[i].ack
      BY <2>1, <3>1, <3>6
    <3> QED
      BY <3>7, <3>8 DEF Covered
  <2> QED
    BY <2>1, <2>3, <2>4, <2>5 DEF Barrier
<1> QED
  BY <1>5, <1>8, <1>9, <1>11, <1>12 DEF AnsweredStage

(* The flush stays the first thing that the server reads.                   *)
LEMMA AskedStep ==
    ASSUME IInv, BaseInv, OneDrop, [Next]_vars, AskedStage
    PROVE  AskedStage' \/ AnsweredStage'
<1> USE DEF AskedStage, IInv
<1> DEFINE m == Head(link["server"])
<1>1. Shape /\ ~ Disconnect /\ disconnects' = 1 /\ "client" \in Ends /\ "server" \in Ends
      /\ Peer("client") = "server" /\ Peer("server") = "client" /\ Lane("client") = link["server"]
      /\ Lane("client") \in Seq(Frames) /\ Lane("server") \in Seq(Frames)
  BY NoSecondDrop, LaneFacts DEF Ends, Peer, Lane
<1>2. CASE ReceiveFlush("server")
  BY <1>1, <1>2, FlushRead
<1>3. CASE ~ ReceiveFlush("server")
  <2>1. ~ Takes("client") /\ ~ ReceiveStarted("server")
    BY <1>1, <1>3 DEF Takes, Receive, ReceiveStarted, ReceiveMessage, ReceiveResponse, ReceiveStream,
                      Handled
  <2>2. ~ Resends("server")
    BY <1>3 DEF Resends
  <2>3. ~ Resends("client")
    <3>1. ~ ReceiveFlush("client")
      <4> SUFFICES ASSUME ReceiveFlush("client") PROVE FALSE
        OBVIOUS
      <4>1. CanRead("client") /\ Head(link["client"]).kind = "flush"
        BY DEF ReceiveFlush
      <4>2. Lane("server") /= <<>> /\ Head(Lane("server")) = Head(link["client"])
        BY <1>1, <4>1, ReadLane
      <4>3. Head(Lane("server")) \in Range(Lane("server"))
        BY <1>1, <4>2, RangeFacts
      <4> QED
        BY <4>1, <4>2, <4>3 DEF BaseInv
    <3> QED
      BY <3>1 DEF Resends, Resend
  <2>4. ~ Answered
    <3> SUFFICES ASSUME Answered PROVE FALSE
      OBVIOUS
    <3>1. Lane("server") /= <<>> /\ IsFlushAck(Head(Lane("server")))
      BY AnsweredFacts
    <3>2. Head(Lane("server")) \in Range(Lane("server"))
      BY <1>1, <3>1, RangeFacts
    <3> QED
      BY <3>1, <3>2
  <2>5. phase' = phase
    BY <1>1, <2>4, PhaseStep DEF Reconnect, Resync, Resend
  <2>6. Flushes' = Flushes
    BY <2>4, FlushesStep DEF Resync
  <2>7. link'["server"] /= <<>> /\ Head(link'["server"]) = m
        /\ received'["server"] = received["server"]
    <3>1. Lane("client")' = link'["server"]
      BY DEF Lane
    <3>2. Still("client") \/ Adds("client")
      BY <1>1, <2>1, <2>3 DEF Shape
    <3>3. CASE Still("client")
      BY <1>1, <3>1, <3>3 DEF Still
    <3>4. CASE Adds("client")
      <4>1. PICK y \in Frames :
              Lane("client")' = Lane("client") \o <<y>> /\ received'["server"] = received["server"]
        BY <1>1, <3>4 DEF Adds
      <4>2. <<y>> \in Seq(Frames)
        OBVIOUS
      <4>3. Lane("client") \o <<y>> /= <<>> /\ Head(Lane("client") \o <<y>>) = Head(Lane("client"))
        BY <1>1, <4>2, ConcatFacts
      <4> QED
        BY <1>1, <3>1, <4>1, <4>3
    <3> QED
      BY <3>2, <3>3, <3>4
  <2>8. nextId["server"] > 0 /\ nextId["client"] > 0
    BY <1>1 DEF BeginInv, Typed
  <2>9. NoGaps("client")'
    BY <1>1, <2>7, <2>8, GapsStep
  <2>10. Kept("server")'
    BY <1>1, <2>1, KeptStep
  <2>11. Covered("server", Head(link["server"]).ack)'
    <3>1. m \in Range(Lane("client"))
      BY <1>1, RangeFacts
    <3>2. m.ack \in Int /\ m.ack < nextId["server"]
      BY <1>1, <2>8, <3>1, AckBelow
    <3>3. PICK k : k = m.ack
      OBVIOUS
    <3>4. Covered("server", k)'
      BY <1>1, <3>2, <3>3, CoveredStep
    <3>5. k = Head(link'["server"]).ack
      BY <2>7, <3>3
    <3> QED
      BY <3>4, <3>5 DEF Covered
  <2>12. \A x \in Range(Lane("server")') : ~ IsFlushAck(x)'
    <3>1. \A x : IsFlushAck(x)' => IsFlushAck(x)
      BY <2>6 DEF Flushes, IsFlushAck
    <3>2. \A x \in Range(Lane("server")') : x \in Range(Lane("server")) \/ x.kind /= "ack"
      BY <1>1, <2>1, <2>2, RangeStep
    <3>3. \A x : IsFlushAck(x) => x.kind = "ack"
      BY DEF IsFlushAck
    <3> QED
      BY <3>1, <3>2, <3>3
  <2>13. Flushes' = {<<Head(link'["server"]).id, "flush">>} /\ Head(link'["server"]).kind = "flush"
    BY <2>6, <2>7
  <2> QED
    BY <1>1, <2>5, <2>7, <2>9, <2>10, <2>11, <2>12, <2>13
<1> QED
  BY <1>2, <1>3

(* While there is no connection, and until the flush of resync is sent,     *)
(* nothing is put on the way to the server and nothing is read.             *)
LEMMA QuietLinks ==
    ASSUME Typed, OneDrop, [Next]_vars, ~ Disconnect, ~ Resync, phase \in {"lost", "flushing"},
           \A e \in Ends : ~ CanRead(e)
    PROVE  /\ link'["server"] = link["server"]
           /\ phase = "lost" => link' = link
           /\ phase = "flushing" => started'["client"] = started["client"]
<1> DEFINE Quiet == link' = link \/ (phase = "flushing" /\ link'["server"] = link["server"])
<1>1. link = [e \in Ends |-> link[e]] /\ "client" \in Ends /\ "server" \in Ends
      /\ started \in [Ends -> BOOLEAN]
  BY DEF Typed, Ends
<1>2. ASSUME NEW e \in Ends, NEW q, Transmit(e, link, q), ForegroundFree(e)
      PROVE  Quiet
  <2>1. e = "server" \/ phase = "lost"
    BY <1>2 DEF ForegroundFree, Ends
  <2> QED
    BY <1>1, <1>2, <2>1 DEF Transmit
<1>3. ASSUME NEW e \in Ends, NEW kind, NEW to, NEW item, SendBuffered(e, kind, to, item),
             ForegroundFree(e)
      PROVE  Quiet
  BY <1>2, <1>3 DEF SendBuffered
<1>4. ASSUME NEW t \in Threads, PushQueue(t)
      PROVE  Quiet
  BY <1>1, <1>4 DEF PushQueue, OneDrop, Transmit
<1>5. ASSUME ServerWrite
      PROVE  Quiet
  BY <1>1, <1>5 DEF ServerWrite
<1>6. ASSUME UNCHANGED link
      PROVE  Quiet
  BY <1>6
<1> HIDE DEF Quiet
<1>7. ASSUME NEW e \in Ends, StartReader(e) \/ Respond(e) \/ \E kind \in Handled : Send(e, kind)
      PROVE  Quiet
  BY <1>2, <1>3, <1>7 DEF StartReader, Respond, Send
<1>8. \A e \in Ends : ~ ReceiveFlush(e) /\ ~ ReceiveStarted(e) /\ ~ ReceiveMessage(e)
                      /\ ~ ReceiveResponse(e) /\ ~ ReceiveStream(e)
  BY DEF ReceiveFlush, ReceiveStarted, ReceiveMessage, ReceiveResponse, ReceiveStream
<1>9. ~ Ping /\ ~ Resend
  BY DEF Ping, Resend
<1>10. \A t \in Threads : AllocateId(t) \/ PushBuffer(t) => UNCHANGED link
  BY DEF AllocateId, PushBuffer, netVars
<1>11. DropStream \/ Reconnect \/ UNCHANGED vars => UNCHANGED link
  BY DEF DropStream, Reconnect, vars, netVars
<1>12. Quiet
  BY <1>4, <1>5, <1>6, <1>7, <1>8, <1>9, <1>10, <1>11 DEF Next
<1>13. ASSUME phase = "flushing"
       PROVE  started'["client"] = started["client"]
  <2>1. \A e \in Ends : StartReader(e) => e /= "client" /\ started' = [started EXCEPT ![e] = TRUE]
    BY <1>13 DEF StartReader, ForegroundFree
  <2>2. \A e \in Ends : StartReader(e) => started'["client"] = started["client"]
    BY <1>1, <2>1
  <2>3. ~ Reconnect
    BY <1>13 DEF Reconnect
  <2>4. UNCHANGED started \/ \E e \in Ends : StartReader(e)
    BY <1>8, <1>9, <2>3 DEF Next, vars, netVars, Respond, Send, AllocateId, PushBuffer, PushQueue,
       ServerWrite, DropStream
  <2> QED
    BY <2>2, <2>4
<1> QED
  BY <1>12, <1>13 DEF Quiet

(* Nothing moves until resync has sent its flush.                           *)
LEMMA CutStep ==
    ASSUME IInv, BaseInv, OneDrop, [Next]_vars, CutStage
    PROVE  CutStage' \/ AskedStage'
<1> USE DEF CutStage, IInv
<1>1. Shape /\ ~ Disconnect /\ disconnects' = 1 /\ "client" \in Ends /\ "server" \in Ends
      /\ Peer("client") = "server" /\ Peer("server") = "client"
  BY NoSecondDrop DEF Ends, Peer
<1>2. nextId["server"] > 0 /\ nextId["client"] > 0 /\ nextId["client"] \in Nat
  BY <1>1 DEF BeginInv, Typed
<1>3. \A e \in Ends : ~ CanRead(e)
  BY DEF CanRead, Ends
<1>4. CASE Resync
  <2> DEFINE f == Control(nextId["client"], "flush", maxReceived["client"], NoId)
  <2>1. /\ phase' = "resyncing" /\ Transmit("client", link, <<f>>) /\ phase = "flushing"
        /\ responses' = [responses EXCEPT !["client"] = @ \union {<<nextId["client"], "flush">>}]
        /\ UNCHANGED <<buffer, sent, received, background>>
    BY <1>4 DEF Resync, histVars
  <2>2. f \in Frames /\ f.kind = "flush" /\ f.id = nextId["client"] /\ f.ack = maxReceived["client"]
    BY <1>1, BoundsAssumption DEF Control, Envelope, Frames, Kinds, Typed
  <2> HIDE DEF f
  <2>3. link'["server"] = <<f>> /\ Lane("server")' = Lane("server")
    <3>1. <<f>> \in Seq(Frames)
      BY <2>2
    <3>2. Lane("server")' = Lane("server") /\ Lane("client")' = Lane("client") \o <<f>>
      BY <1>1, <2>1, <3>1, SendLane
    <3>3. Lane("client")' = link'["server"] /\ Lane("client") = <<>>
      BY DEF Lane
    <3>4. <<>> \o <<f>> = <<f>>
      BY <3>1, ConcatEmptySeq
    <3> QED
      BY <3>2, <3>3, <3>4
  <2>4. link'["server"] /= <<>> /\ Head(link'["server"]) = f
    BY <2>3
  <2>5. Flushes' = {<<f.id, "flush">>}
    BY <1>1, <2>1, <2>2 DEF Flushes, Typed
  <2>6. Kept("server")' /\ NoGaps("client")'
    <3>1. Kept("server")
      BY <1>1, GapsKept
    <3> QED
      BY <1>1, <2>1, <3>1 DEF Kept, NoGaps, Covered, Foreground
  <2>7. Covered("server", Head(link["server"]).ack)'
    <3>1. PICK k : k = f.ack
      OBVIOUS
    <3>2. k \in received["client"] \union {0}
      BY <1>1, <2>2, <3>1 DEF AckInv
    <3>3. Covered("server", k)'
      BY <1>1, <2>1, <3>2 DEF NoGaps, Covered, Foreground
    <3> QED
      BY <2>4, <3>1, <3>3 DEF Covered
  <2>8. \A x \in Range(Lane("server")') : ~ IsFlushAck(x)'
    <3> SUFFICES ASSUME NEW x \in Range(Lane("server")), x.kind = "ack",
                        <<x.to, "flush">> \in responses'["client"]
                 PROVE  FALSE
      BY <2>3 DEF IsFlushAck
    <3>1. x \in Travelling("server")
      BY <1>1, LaneFacts
    <3>2. x.to = 0 \/ x.to < nextId["client"]
      BY <1>1, <3>1 DEF MatchInv
    <3>3. <<x.to, "flush">> \in Flushes'
      BY DEF Flushes
    <3>4. x.to = nextId["client"]
      BY <2>2, <2>5, <3>3
    <3> QED
      BY <1>2, <3>2, <3>4
  <2> QED
    BY <1>1, <2>1, <2>2, <2>4, <2>5, <2>6, <2>7, <2>8 DEF AskedStage
<1>5. CASE ~ Resync
  <2>1. /\ link'["server"] = <<>>
        /\ phase = "lost" => link'["client"] = <<>>
        /\ phase = "flushing" => ~ started'["client"]
    BY <1>1, <1>3, <1>5, QuietLinks
  <2>2. ~ Answered /\ \A e \in Ends : ~ Takes(e)
    BY <1>1, <1>3, PeerFacts DEF Answered, Takes, Receive, ReceiveFlush, ReceiveStarted,
                                 ReceiveMessage, ReceiveResponse, ReceiveStream
  <2>3. Flushes' = {}
    BY <1>5, <2>2, FlushesStep
  <2>4. \A e \in Ends : received'[Peer(e)] = received[Peer(e)]
    BY <1>1, <2>2 DEF Shape, Still, Adds, Resends
  <2>5. \A e \in Ends : NoGaps(e)'
    <3>1. \A e \in Ends : nextId[e] > 0
      BY <1>2 DEF Ends
    <3> QED
      BY <1>1, <2>4, <3>1, GapsStep
  <2>6. CASE Reconnect
    BY <1>1, <2>1, <2>3, <2>5, <2>6 DEF Reconnect, Typed
  <2>7. CASE ~ Reconnect
    <3>1. phase' = phase
      BY <1>1, <1>5, <2>7, PhaseStep DEF Resend
    <3>2. IF phase' = "lost" THEN link'["client"] = <<>> ELSE ~ started'["client"]
      BY <2>1, <3>1
    <3> QED
      BY <1>1, <2>1, <2>3, <2>5, <3>1, <3>2
  <2> QED
    BY <2>6, <2>7
<1> QED
  BY <1>4, <1>5

(* A flush that an end reads was under way to it.                           *)
LEMMA FlushUnderWay ==
    ASSUME Typed, NEW e \in Ends, ReceiveFlush(e)
    PROVE  \E x \in Range(Lane(Peer(e))) : x.kind = "flush"
<1>1. CanRead(e) /\ Head(link[e]).kind = "flush"
  BY DEF ReceiveFlush
<1>2. Lane(Peer(e)) /= <<>> /\ Head(Lane(Peer(e))) = Head(link[e]) /\ Lane(Peer(e)) \in Seq(Frames)
  BY <1>1, ReadLane, LaneFacts, PeerFacts
<1>3. Head(Lane(Peer(e))) \in Range(Lane(Peer(e)))
  BY <1>2, RangeFacts
<1> QED
  BY <1>1, <1>2, <1>3

(* Until the drop both lanes are in order.                                  *)
LEMMA FirstStep ==
    ASSUME IInv, BaseInv, OneDrop, [Next]_vars, FirstStage
    PROVE  FirstStage' \/ CutStage'
<1> USE DEF FirstStage, IInv
<1>1. "client" \in Ends /\ "server" \in Ends /\ Peer("client") = "server" /\ Peer("server") = "client"
      /\ Lane("client") = link["server"]
  BY DEF Ends, Peer, Lane
<1>2. CASE Disconnect
  <2>1. /\ phase = "connected" /\ phase' = "lost" /\ disconnects' = 1
        /\ link'["client"] = <<>> /\ link'["server"] = <<>>
        /\ UNCHANGED <<responses, sent, received, background>>
    BY <1>1, <1>2 DEF Disconnect, endVars, histVars
  <2>2. \A e \in Ends : NoGaps(e)'
    BY <2>1 DEF NoGaps, Covered, Foreground
  <2>3. Flushes' = {}
    BY <2>1 DEF Flushes
  <2> QED
    BY <2>1, <2>2, <2>3 DEF CutStage
<1>3. CASE ~ Disconnect
  <2>1. Shape /\ disconnects' = 0
    BY <1>3, StepShape, PhaseStep
  <2>2. \A e \in Ends : ~ ReceiveFlush(e)
    <3>1. ~ ReceiveFlush("server")
      BY <1>1, FlushUnderWay
    <3>2. ~ ReceiveFlush("client")
      BY <1>1, FlushUnderWay DEF BaseInv
    <3> QED
      BY <3>1, <3>2 DEF Ends
  <2>3. \A e \in Ends : ~ Resends(e)
    BY <2>2 DEF Resends, Resend
  <2>4. ~ Answered
    <3> SUFFICES ASSUME Answered PROVE FALSE
      OBVIOUS
    <3>1. <<Head(link["client"]).to, "flush">> \in Flushes
      BY DEF Answered, Flushes
    <3> QED
      BY <3>1
  <2>5. Flushes' = {}
    BY <2>4, FlushesStep DEF Resync
  <2>6. /\ phase' \in {"connecting", "started", "pinging", "connected"}
        /\ phase' = "connected" => phase = "connected" \/ ReceiveResponse("client")
    BY <1>3, <2>4, PhaseStep DEF Reconnect, Resync, Resend
  <2>7. \A x \in Range(link'["server"]) : x.kind /= "flush"
    <3>1. Lane("client")' = link'["server"]
      BY DEF Lane
    <3>2. \A x \in Range(Lane("client")') : x \in Range(Lane("client")) \/ x.kind /= "flush"
      BY <1>1, <2>1, RangeStep
    <3> QED
      BY <1>1, <3>1, <3>2
  <2>8. \A e \in Ends : UnderWay(e)' /\ InOrder(e)'
    BY <2>1, <2>3, UnderWayStep, OrderStep
  <2>9. \A e \in Ends : \A ack \in received'[Peer(e)] : Covered(e, ack)'
    BY <2>1, FirstCovered
  <2>10. ASSUME phase' = "connected", NEW e \in Ends
         PROVE  Covered(e, 0)'
    <3>1. CASE phase = "connected"
      <4>1. nextId[e] > 0
        BY <1>1, <3>1 DEF BeginInv, Typed, Ends
      <4> QED
        BY <2>1, <3>1, <4>1, CoveredStep
    <3>2. Typed'
      BY StepEffect DEF Effect
    <3>3. CASE e = "client"
      <4>1. 0 \notin sent'["client"] /\ sent'["client"] \subseteq Nat
        BY <1>1, <3>2, ZeroStep DEF Typed
      <4> QED
        BY <3>3, <4>1 DEF Covered
    <3>4. CASE e = "server" /\ ReceiveResponse("client")
      <4>1. PICK a : a = Head(link["client"]).id
        OBVIOUS
      <4>2. a \in received'["client"] /\ received'["client"] \subseteq Nat
        BY <1>1, <3>2, <3>4, <4>1 DEF ReceiveResponse, Observe, Typed
      <4>3. Covered("server", a)' /\ sent'["server"] \subseteq Nat
        BY <1>1, <2>9, <3>2, <4>2 DEF Typed
      <4> QED
        BY <3>4, <4>2, <4>3 DEF Covered
    <3> QED
      BY <2>6, <2>10, <3>1, <3>3, <3>4 DEF Ends
  <2> QED
    BY <2>1, <2>5, <2>6, <2>7, <2>8, <2>9, <2>10
<1> QED
  BY <1>2, <1>3

-----------------------------------------------------------------------------
(* Nothing that the foreground sent is lost.                                *)

(* The invariant of the stages holds at first, ...                          *)
LEMMA DeliveryInitially ==
    ASSUME Init
    PROVE  DeliveryInv
<1>1. IInv
  BY Initially
<1>2. <<>> \in Seq(Frames) /\ Range(<<>>) = {} /\ "client" \in Ends /\ "server" \in Ends
      /\ <<>> \o <<>> = <<>>
  BY EmptySeq, ConcatEmptySeq DEF Range, Ends
<1>3. \A e \in Ends : Lane(e) = <<>> /\ buffer[e] = <<>>
  BY <1>2 DEF Init, Lane, Ends
<1>4. Travelling("server") = {}
  BY <1>2, PeerFacts DEF Init, Travelling, Moving, Peer
<1>5. BagToSet(handlers["client"]) = {}
  BY <1>2, BagFacts DEF Init
<1>6. BaseInv
  BY <1>2, <1>3, <1>4, <1>5 DEF Init, BaseInv
<1>7. \A e \in Ends : InOrder(e)
  BY <1>3, EmptySeq DEF InOrder
<1>8. \A e \in Ends : UnderWay(e) /\ \A ack \in received[Peer(e)] : Covered(e, ack)
  BY PeerFacts DEF Init, UnderWay, Covered
<1>9. FirstStage
  BY <1>2, <1>7, <1>8 DEF Init, FirstStage, Flushes
<1> QED
  BY <1>1, <1>6, <1>9 DEF DeliveryInv, FlowInv

(* ... and every step keeps it.                                             *)
LEMMA DeliveryInductive ==
    ASSUME OneDrop, DeliveryInv, [Next]_vars
    PROVE  DeliveryInv'
<1> USE DEF DeliveryInv
<1>1. IInv' /\ BaseInv'
  BY Inductive, BaseStep
<1>2. FlowInv'
  BY FirstStep, CutStep, AskedStep, AnsweredStep, FlushedStep, AgainStep DEF FlowInv
<1> QED
  BY <1>1, <1>2

(* In every stage what has not arrived is under way or buffered.            *)
LEMMA NothingMissing ==
    ASSUME DeliveryInv
    PROVE  ForegroundNotLost
<1> USE DEF DeliveryInv, IInv
<1> SUFFICES ASSUME NEW e \in Ends, NEW id \in sent[e], Foreground(e, id)
             PROVE  Accounted(e, id)
  BY DEF ForegroundNotLost, Foreground
<1>1. "client" \in Ends /\ "server" \in Ends /\ Peer("client") = "server" /\ Peer("server") = "client"
  BY DEF Ends, Peer
<1>2. CASE UnderWay(e)
  <2> SUFFICES ASSUME NEW x \in Range(Lane(e)), x.kind \in Buffered, x.id = id
               PROVE  id \in InFlight(e)
    BY <1>2 DEF UnderWay, Accounted
  <2>1. \A s : \A y \in Range(s) : y.kind \in Buffered => y.id \in BufferedIds(s)
    BY DEF Range, BufferedIds
  <2>2. x \in Range(link[Peer(e)]) \/ (e = "server" /\ x \in Range(outgoing))
    BY LaneFacts DEF Moving
  <2> QED
    BY <2>1, <2>2 DEF InFlight
<1>3. CASE Kept(e)
  <2> SUFFICES ASSUME NEW x \in Range(buffer[e]), x.id = id
               PROVE  id \in Ids(buffer[e])
    BY <1>3 DEF Kept, Accounted
  <2> QED
    BY DEF Range, Ids
<1>4. NoGaps(e) => Kept(e)
  BY GapsKept
<1>5. UnderWay(e) \/ Kept(e)
  BY <1>1, <1>4 DEF FlowInv, FirstStage, CutStage, AskedStage, AnsweredStage, FlushedStage, AgainStage,
     Ends
<1> QED
  BY <1>2, <1>3, <1>5

(* Through one dropped connection, whatever the numbers of messages,        *)
(* requests, streams and of the server's background threads, the channel    *)
(* is always in one of the six stages of FlowInv.                           *)
THEOREM Stages ==
    ASSUME OneDrop
    PROVE  Spec => []DeliveryInv
<1>1. Init => DeliveryInv
  BY DeliveryInitially
<1>2. DeliveryInv /\ [Next]_vars => DeliveryInv'
  BY DeliveryInductive
<1> QED
  BY <1>1, <1>2, PTL DEF Spec

(* A message, request, response or stream item that send_buffered accepted  *)
(* on a foreground thread is never lost through one dropped connection: it  *)
(* has been observed by the peer's reader, is on its way to it, or is in    *)
(* the buffer that resync has sent again.                                   *)
THEOREM ForegroundKept ==
    ASSUME OneDrop
    PROVE  Spec => []ForegroundNotLost
<1>1. DeliveryInv => ForegroundNotLost
  BY NothingMissing
<1> QED
  BY <1>1, Stages, PTL
=============================================================================
