------------------------- MODULE WatchChannelProofs -------------------------
(***************************************************************************)
(* Proofs about WatchChannel, for any set of receivers and any bounds: its *)
(* types, that no waker leaks and no wake-up is lost, that a change that   *)
(* was told is a change, and that its steps are steps of a WatchCell.      *)
(*                                                                         *)
(* The invariants are proved from one inductive invariant.  Wakers carries *)
(* what the comments of the code appeal to: the waker ids of different     *)
(* futures differ (so that a future removes only its own), a registered    *)
(* receiver has seen the current version (so that a poll that finds a      *)
(* newer one may forget its id), and outside send nothing is left to wake. *)
(***************************************************************************)
EXTENDS WatchChannel, TLAPS

Wakers ==
    /\ \A w \in wakers : /\ w.id \in 1 .. nextWaker
                         /\ at[w.task] = "waiting"
                         /\ pending[w.task] = w.id
                         /\ seen[w.task] = version
                         /\ ~closed
    /\ \A r \in Receivers : pending[r] <= nextWaker
    /\ \A r, q \in Receivers :
          pending[r] = pending[q] /\ pending[r] /= NoWaker => r = q
    /\ sender /= "waking" => toWake = {}
    /\ sender = "idle" => ~closed
    /\ sender = "waking" => ~closed

(* A receiver that has not seen the current version, or was told of it, has *)
(* not read the current value.                                              *)
Unread ==
    \A r \in Receivers :
        /\ last[r] <= value + 1
        /\ seen[r] /= version => last[r] <= value
        /\ told[r] => last[r] <= value

Inv == TypeOK /\ Wakers /\ NoWakeupLost /\ Unread

-----------------------------------------------------------------------------
(* Removing the waker of one future leaves those of the others alone.       *)
LEMMA WithoutOthers ==
    ASSUME TypeOK, Wakers, NEW r \in Receivers, NEW w \in wakers, w.task /= r
    PROVE  w \in Without(wakers, pending[r])
<1>1. w.id /= NoWaker /\ w.id = pending[w.task] /\ w.task \in Receivers
  BY DEF Wakers, TypeOK, Waker, NoWaker
<1>2. w.id /= pending[r]
  BY <1>1 DEF Wakers
<1> QED
  BY <1>2 DEF Without

(* What is left after the removal was there before and is somebody else's.  *)
LEMMA WithoutOwn ==
    ASSUME TypeOK, Wakers, NEW r \in Receivers, NEW w \in Without(wakers, pending[r])
    PROVE  w \in wakers /\ w.task \in Receivers /\ w.task /= r
<1>1. w \in wakers /\ w.id /= pending[r]
  BY DEF Without
<1> QED
  BY <1>1 DEF Wakers, TypeOK, Waker

-----------------------------------------------------------------------------
(* A new channel satisfies the inductive invariant.                         *)
LEMMA InitInv == Init => Inv
<1> SUFFICES ASSUME Init PROVE Inv
  OBVIOUS
<1>1. TypeOK
  <2>1. woken \in [Receivers -> BOOLEAN] /\ told \in [Receivers -> BOOLEAN]
    BY Zenon DEF Init
  <2>2. PICK r \in Receivers :
            at = [q \in Receivers |-> IF q = r THEN "idle" ELSE "absent"]
    BY DEF Init
  <2>3. at \in [Receivers -> {"absent", "idle", "waiting"}]
    BY <2>2
  <2>4. seen \in [Receivers -> Nat] /\ pending \in [Receivers -> Nat]
        /\ last \in [Receivers -> Nat] /\ \A q \in Receivers : seen[q] <= version
    BY DEF Init, NoWaker
  <2> QED
    BY <2>1, <2>3, <2>4 DEF Init, TypeOK
<1>2. Wakers
  BY DEF Init, Wakers, NoWaker
<1>3. NoWakeupLost
  BY DEF Init, NoWakeupLost
<1>4. Unread
  <2>1. value = 0 /\ \A r \in Receivers : last[r] = 0
    BY DEF Init
  <2>2. \A r \in Receivers : last[r] <= value + 1 /\ last[r] <= value
    <3> TAKE r \in Receivers
    <3>1. last[r] = 0 /\ value = 0
      BY <2>1
    <3> QED
      BY <3>1
  <2> QED
    BY <2>2, Zenon DEF Unread
<1> QED
  BY <1>1, <1>2, <1>3, <1>4 DEF Inv

(* Every step of the channel preserves the types.                           *)
LEMMA TypeStep == TypeOK /\ [Next]_vars => TypeOK'
<1> SUFFICES ASSUME TypeOK, [Next]_vars PROVE TypeOK'
  OBVIOUS
<1> USE DEF TypeOK, stateVars, receiverVars
<1>1. CASE Send
  BY <1>1 DEF Send
<1>2. CASE SendNoReceiver
  BY <1>2 DEF SendNoReceiver
<1>3. CASE WakeOne
  BY <1>3 DEF WakeOne, Awaken
<1>4. CASE SendReturns
  BY <1>4 DEF SendReturns
<1>5. CASE DropSender
  BY <1>5 DEF DropSender, Awaken
<1>6. ASSUME NEW r \in Receivers, NewReceiver(r) PROVE TypeOK'
  BY <1>6 DEF NewReceiver
<1>7. ASSUME NEW r \in Receivers, DropReceiver(r) PROVE TypeOK'
  BY <1>7 DEF DropReceiver
<1>8. ASSUME NEW r \in Receivers, Borrow(r) PROVE TypeOK'
  BY <1>8 DEF Borrow
<1>9. ASSUME NEW r \in Receivers, Changed(r) PROVE TypeOK'
  BY <1>9 DEF Changed
<1>10. ASSUME NEW r \in Receivers, DropChanged(r) PROVE TypeOK'
  BY <1>10 DEF DropChanged, Finish, Without, NoWaker
<1>11. ASSUME NEW r \in Receivers, PollReady(r) PROVE TypeOK'
  BY <1>11 DEF PollReady, Finish, NoWaker
<1>12. ASSUME NEW r \in Receivers, PollClosed(r) PROVE TypeOK'
  BY <1>12 DEF PollClosed, Finish, Without, NoWaker
<1>13. ASSUME NEW r \in Receivers, PollPending(r) PROVE TypeOK'
  BY <1>13 DEF PollPending, Without, Waker
<1>14. ASSUME NEW r \in Receivers, NEW q \in Receivers, CloneReceiver(r, q) PROVE TypeOK'
  BY <1>14 DEF CloneReceiver
<1>15. CASE UNCHANGED vars
  BY <1>15 DEF vars
<1> QED
  BY <1>1, <1>2, <1>3, <1>4, <1>5, <1>6, <1>7, <1>8, <1>9, <1>10, <1>11, <1>12,
     <1>13, <1>14, <1>15 DEF Next

(* Every step preserves what is known of the wakers: a poll replaces the    *)
(* waker of its own future, a drop removes it, a send takes all of them.    *)
LEMMA WakersStep == TypeOK /\ Wakers /\ [Next]_vars => Wakers'
<1> SUFFICES ASSUME TypeOK, Wakers, [Next]_vars PROVE Wakers'
  OBVIOUS
<1> USE DEF stateVars, receiverVars
<1>1. CASE Send
  BY <1>1 DEF Send, Wakers
<1>2. CASE SendNoReceiver
  BY <1>2 DEF SendNoReceiver, Wakers
<1>3. CASE WakeOne
  BY <1>3 DEF WakeOne, Wakers
<1>4. CASE SendReturns
  BY <1>4 DEF SendReturns, Wakers
<1>5. CASE DropSender
  BY <1>5 DEF DropSender, Wakers
<1>6. ASSUME NEW r \in Receivers, NewReceiver(r) PROVE Wakers'
  BY <1>6 DEF NewReceiver, Wakers, TypeOK, Waker
<1>7. ASSUME NEW r \in Receivers, DropReceiver(r) PROVE Wakers'
  BY <1>7 DEF DropReceiver, Wakers, TypeOK, Waker
<1>8. ASSUME NEW r \in Receivers, Borrow(r) PROVE Wakers'
  BY <1>8 DEF Borrow, Wakers, TypeOK, Waker
<1>9. ASSUME NEW r \in Receivers, Changed(r) PROVE Wakers'
  BY <1>9 DEF Changed, Wakers, TypeOK, Waker
<1>10. ASSUME NEW r \in Receivers,
              wakers' = Without(wakers, pending[r]), Finish(r),
              UNCHANGED <<version, closed, nextWaker, sender, toWake, seen>>
       PROVE  Wakers'
  <2>1. \A w \in wakers' : /\ w.id \in 1 .. nextWaker
                            /\ at'[w.task] = "waiting"
                            /\ pending'[w.task] = w.id
                            /\ seen[w.task] = version
                            /\ ~closed
    BY <1>10, WithoutOwn DEF Finish, Wakers, TypeOK
  <2>2. \A q \in Receivers : pending'[q] <= nextWaker
    BY <1>10 DEF Finish, Wakers, TypeOK, NoWaker
  <2>3. \A p, q \in Receivers :
            pending'[p] = pending'[q] /\ pending'[p] /= NoWaker => p = q
    BY <1>10 DEF Finish, Wakers, TypeOK
  <2> QED
    BY <1>10, <2>1, <2>2, <2>3 DEF Wakers
<1>11. ASSUME NEW r \in Receivers, PollReady(r) PROVE Wakers'
  <2>1. \A w \in wakers : w.task \in Receivers /\ w.task /= r
    BY <1>11 DEF PollReady, Wakers, TypeOK, Waker
  <2>2. \A p, q \in Receivers :
            pending'[p] = pending'[q] /\ pending'[p] /= NoWaker => p = q
    BY <1>11 DEF PollReady, Finish, Wakers, TypeOK
  <2> QED
    BY <1>11, <2>1, <2>2 DEF PollReady, Finish, Wakers, TypeOK, NoWaker
<1>12. ASSUME NEW r \in Receivers, PollPending(r) PROVE Wakers'
  <2> DEFINE new == [id |-> nextWaker + 1, task |-> r]
  <2>1. ASSUME NEW w \in wakers'
        PROVE  /\ w.id \in 1 .. nextWaker'
               /\ at'[w.task] = "waiting"
               /\ pending'[w.task] = w.id
               /\ seen'[w.task] = version'
               /\ ~closed'
    <3>1. CASE w = new
      BY <3>1, <1>12 DEF PollPending, TypeOK
    <3>2. CASE w \in Without(wakers, pending[r])
      BY <3>2, <1>12, WithoutOwn DEF PollPending, Wakers, TypeOK
    <3> QED
      BY <3>1, <3>2, <2>1, <1>12 DEF PollPending
  <2>2. \A q \in Receivers : pending'[q] <= nextWaker'
    BY <1>12 DEF PollPending, Wakers, TypeOK
  <2>3. \A p, q \in Receivers :
            pending'[p] = pending'[q] /\ pending'[p] /= NoWaker => p = q
    BY <1>12 DEF PollPending, Wakers, TypeOK
  <2> QED
    BY <1>12, <2>1, <2>2, <2>3 DEF PollPending, Wakers
<1>13. ASSUME NEW r \in Receivers, NEW q \in Receivers, CloneReceiver(r, q) PROVE Wakers'
  BY <1>13 DEF CloneReceiver, Wakers, TypeOK, Waker
<1>14. CASE UNCHANGED vars
  BY <1>14 DEF vars, Wakers
<1>15. ASSUME NEW r \in Receivers, DropChanged(r) PROVE Wakers'
  BY <1>10, <1>15 DEF DropChanged
<1>16. ASSUME NEW r \in Receivers, PollClosed(r) PROVE Wakers'
  BY <1>10, <1>16 DEF PollClosed
<1> QED
  BY <1>1, <1>2, <1>3, <1>4, <1>5, <1>6, <1>7, <1>8, <1>9, <1>11, <1>12, <1>13,
     <1>14, <1>15, <1>16 DEF Next

(* Every step preserves NoWakeupLost: what leaves the map of wakers without *)
(* being scheduled belongs to a future that is over.                        *)
LEMMA WakeupsStep ==
    TypeOK /\ Wakers /\ NoWakeupLost /\ [Next]_vars => NoWakeupLost'
<1> SUFFICES ASSUME TypeOK, Wakers, NoWakeupLost, [Next]_vars,
                    NEW q \in Receivers, at'[q] = "waiting", ~Scheduled(q)'
             PROVE  Registered(q)' /\ seen'[q] = version' /\ ~closed'
  BY DEF NoWakeupLost
<1> USE DEF stateVars, receiverVars
<1>0. at[q] = "waiting" /\ ~Scheduled(q) => Registered(q) /\ seen[q] = version /\ ~closed
  BY DEF NoWakeupLost
<1>1. CASE Send
  BY <1>0, <1>1 DEF Send, Scheduled, Registered, Wakers
<1>2. CASE SendNoReceiver
  BY <1>0, <1>2 DEF SendNoReceiver, Scheduled, Registered
<1>3. CASE WakeOne
  <2>1. PICK w \in toWake : woken' = Awaken({w}) /\ toWake' = toWake \ {w}
    BY <1>3 DEF WakeOne
  <2>2. ~woken[q] /\ w.task /= q
    BY <1>3, <2>1 DEF WakeOne, Awaken, Scheduled
  <2>3. ~Scheduled(q)
    BY <2>1, <2>2 DEF Scheduled
  <2> QED
    BY <1>0, <1>3, <2>3 DEF WakeOne, Registered
<1>4. CASE SendReturns
  BY <1>0, <1>4 DEF SendReturns, Scheduled, Registered
<1>5. CASE DropSender
  <2>1. ~woken[q] /\ ~Registered(q)
    BY <1>5 DEF DropSender, Awaken, Scheduled, Registered
  <2> QED
    BY <1>0, <1>5, <2>1 DEF DropSender, Scheduled, Wakers
<1>6. ASSUME NEW r \in Receivers, NewReceiver(r) PROVE Registered(q)' /\ seen'[q] = version' /\ ~closed'
  BY <1>0, <1>6 DEF NewReceiver, Scheduled, Registered, TypeOK
<1>7. ASSUME NEW r \in Receivers, DropReceiver(r) PROVE Registered(q)' /\ seen'[q] = version' /\ ~closed'
  BY <1>0, <1>7 DEF DropReceiver, Scheduled, Registered, TypeOK
<1>8. ASSUME NEW r \in Receivers, Borrow(r) PROVE Registered(q)' /\ seen'[q] = version' /\ ~closed'
  BY <1>0, <1>8 DEF Borrow, Scheduled, Registered, TypeOK
<1>9. ASSUME NEW r \in Receivers, Changed(r) PROVE Registered(q)' /\ seen'[q] = version' /\ ~closed'
  BY <1>0, <1>9 DEF Changed, Scheduled, Registered, TypeOK
<1>10. ASSUME NEW r \in Receivers, wakers' = Without(wakers, pending[r]), Finish(r),
              UNCHANGED <<version, closed, toWake, seen>>
       PROVE  Registered(q)' /\ seen'[q] = version' /\ ~closed'
  <2>1. q /= r /\ at[q] = "waiting" /\ ~Scheduled(q)
    BY <1>10 DEF Finish, Scheduled, TypeOK
  <2>2. PICK w \in wakers : w.task = q
    BY <1>0, <2>1 DEF Registered
  <2>3. w \in wakers'
    BY <1>10, <2>1, <2>2, WithoutOthers
  <2> QED
    BY <1>0, <1>10, <2>1, <2>2, <2>3 DEF Registered
<1>11. ASSUME NEW r \in Receivers, PollReady(r) PROVE Registered(q)' /\ seen'[q] = version' /\ ~closed'
  <2>1. q /= r /\ at[q] = "waiting" /\ ~Scheduled(q)
    BY <1>11 DEF PollReady, Finish, Scheduled, TypeOK
  <2> QED
    BY <1>0, <1>11, <2>1 DEF PollReady, Registered, TypeOK
<1>12. ASSUME NEW r \in Receivers, PollPending(r) PROVE Registered(q)' /\ seen'[q] = version' /\ ~closed'
  <2>1. CASE q = r
    <3>1. [id |-> nextWaker + 1, task |-> r] \in wakers'
      BY <1>12 DEF PollPending
    <3>2. [id |-> nextWaker + 1, task |-> r].task = q
      BY <2>1
    <3> QED
      BY <1>12, <2>1, <3>1, <3>2 DEF PollPending, Registered
  <2>2. CASE q /= r
    <3>1. at[q] = "waiting" /\ ~Scheduled(q)
      BY <1>12, <2>2 DEF PollPending, Scheduled, TypeOK
    <3>2. PICK w \in wakers : w.task = q
      BY <1>0, <3>1 DEF Registered
    <3>3. w \in wakers'
      BY <1>12, <2>2, <3>2, WithoutOthers DEF PollPending
    <3> QED
      BY <1>0, <1>12, <3>1, <3>2, <3>3 DEF PollPending, Registered
  <2> QED
    BY <2>1, <2>2
<1>13. ASSUME NEW r \in Receivers, NEW p \in Receivers, CloneReceiver(r, p) PROVE Registered(q)' /\ seen'[q] = version' /\ ~closed'
  BY <1>0, <1>13 DEF CloneReceiver, Scheduled, Registered, TypeOK
<1>14. CASE UNCHANGED vars
  BY <1>0, <1>14 DEF vars, Scheduled, Registered
<1>15. ASSUME NEW r \in Receivers, DropChanged(r) PROVE Registered(q)' /\ seen'[q] = version' /\ ~closed'
  BY <1>10, <1>15 DEF DropChanged
<1>16. ASSUME NEW r \in Receivers, PollClosed(r) PROVE Registered(q)' /\ seen'[q] = version' /\ ~closed'
  BY <1>10, <1>16 DEF PollClosed
<1> QED
  BY <1>1, <1>2, <1>3, <1>4, <1>5, <1>6, <1>7, <1>8, <1>9, <1>11, <1>12, <1>13,
     <1>14, <1>15, <1>16 DEF Next

(* Every step preserves Unread: a send makes every reading an old one.      *)
LEMMA UnreadStep == TypeOK /\ Unread /\ [Next]_vars => Unread'
<1> SUFFICES ASSUME TypeOK, Unread, [Next]_vars, NEW q \in Receivers
             PROVE  /\ last'[q] <= value' + 1
                    /\ seen'[q] /= version' => last'[q] <= value'
                    /\ told'[q] => last'[q] <= value'
  BY DEF Unread
<1> DEFINE Goal == /\ last'[q] <= value' + 1
                   /\ seen'[q] /= version' => last'[q] <= value'
                   /\ told'[q] => last'[q] <= value'
<1> USE DEF stateVars, receiverVars, TypeOK, Unread
<1>1. CASE Send
  BY <1>1 DEF Send
<1>2. CASE SendNoReceiver
  BY <1>2 DEF SendNoReceiver
<1>3. CASE WakeOne
  BY <1>3 DEF WakeOne
<1>4. CASE SendReturns
  BY <1>4 DEF SendReturns
<1>5. CASE DropSender
  BY <1>5 DEF DropSender
<1>6. ASSUME NEW r \in Receivers, NewReceiver(r) PROVE Goal
  BY <1>6 DEF NewReceiver
<1>7. ASSUME NEW r \in Receivers, DropReceiver(r) PROVE Goal
  BY <1>7 DEF DropReceiver
<1>8. ASSUME NEW r \in Receivers, Borrow(r) PROVE Goal
  BY <1>8 DEF Borrow
<1>9. ASSUME NEW r \in Receivers, Changed(r) PROVE Goal
  BY <1>9 DEF Changed
<1>10. ASSUME NEW r \in Receivers, DropChanged(r) PROVE Goal
  BY <1>10 DEF DropChanged
<1>11. ASSUME NEW r \in Receivers, PollReady(r) PROVE Goal
  BY <1>11 DEF PollReady
<1>12. ASSUME NEW r \in Receivers, PollClosed(r) PROVE Goal
  BY <1>12 DEF PollClosed
<1>13. ASSUME NEW r \in Receivers, PollPending(r) PROVE Goal
  BY <1>13 DEF PollPending
<1>14. ASSUME NEW r \in Receivers, NEW p \in Receivers, CloneReceiver(r, p) PROVE Goal
  BY <1>14 DEF CloneReceiver
<1>15. CASE UNCHANGED vars
  BY <1>15 DEF vars
<1> QED
  BY <1>1, <1>2, <1>3, <1>4, <1>5, <1>6, <1>7, <1>8, <1>9, <1>10, <1>11, <1>12,
     <1>13, <1>14, <1>15 DEF Next

(* The inductive invariant holds in every state of the channel.             *)
THEOREM Invariance == Spec => []Inv
<1>1. Inv /\ [Next]_vars => Inv'
  BY TypeStep, WakersStep, WakeupsStep, UnreadStep DEF Inv
<1> QED
  BY <1>1, InitInv, PTL DEF Spec

(* The shared state and the receivers keep their types, and no receiver has *)
(* seen a version that send has not made.                                   *)
THEOREM TypeCorrect == Spec => []TypeOK
<1>1. Inv => TypeOK
  BY DEF Inv
<1> QED
  BY <1>1, Invariance, PTL

(* However often a Changed future is polled, and whether it returns or is   *)
(* dropped, it leaves no waker behind in the sender's map.                  *)
THEOREM NoLeak == Spec => []NoWakerLeaks
<1>1. Inv => NoWakerLeaks
  BY DEF Inv, Wakers, NoWakerLeaks
<1> QED
  BY <1>1, Invariance, PTL

(* Although send calls the wakers outside the lock, no receiver is left     *)
(* waiting for a wake-up that has already been given away.                  *)
THEOREM NoLostWakeup == Spec => []NoWakeupLost
<1>1. Inv => NoWakeupLost
  BY DEF Inv
<1> QED
  BY <1>1, Invariance, PTL

(* changed() returns Ok only when borrow() will find an unread value.       *)
THEOREM ChangesAreReal == Spec => []ChangeIsReal
<1>1. Inv => ChangeIsReal
  BY DEF Inv, Unread, ChangeIsReal
<1> QED
  BY <1>1, Invariance, PTL

-----------------------------------------------------------------------------
(* Every step of the channel is a step of the watch cell, or none.          *)
LEMMA CellStep == Inv /\ [Next]_vars => [Cell!CellNext]_(Cell!cellVars)
<1> SUFFICES ASSUME Inv, [Next]_vars PROVE [Cell!CellNext]_(Cell!cellVars)
  OBVIOUS
<1>0. TypeOK /\ Wakers
  BY DEF Inv
<1> USE <1>0 DEF stateVars, receiverVars, Cell!cellVars
<1>1. CASE Send
  <2>1. Cell!Publish
    BY <1>1 DEF Send, Cell!Publish, Wakers
  <2> QED
    BY <2>1 DEF Cell!CellNext
<1>2. CASE SendNoReceiver
  BY <1>2 DEF SendNoReceiver
<1>3. CASE WakeOne
  BY <1>3 DEF WakeOne
<1>4. CASE SendReturns
  BY <1>4 DEF SendReturns
<1>5. CASE DropSender
  <2>1. Cell!Close
    BY <1>5 DEF DropSender, Cell!Close, Wakers
  <2> QED
    BY <2>1 DEF Cell!CellNext
<1>6. ASSUME NEW r \in Receivers, NewReceiver(r) PROVE Cell!CellNext
  <2>1. version \in 0 .. version /\ seen' = [seen EXCEPT ![r] = version]
    BY <1>6 DEF NewReceiver, TypeOK
  <2>2. Cell!Join(r)
    BY <1>6, <2>1 DEF NewReceiver, Cell!Join, Cell!Move
  <2> QED
    BY <2>2 DEF Cell!CellNext
<1>7. ASSUME NEW r \in Receivers, DropReceiver(r) PROVE Cell!CellNext
  <2>1. Cell!Leave(r)
    BY <1>7 DEF DropReceiver, Cell!Leave, Cell!Move
  <2> QED
    BY <2>1 DEF Cell!CellNext
<1>8. ASSUME NEW r \in Receivers, Borrow(r) PROVE Cell!CellNext
  <2>1. Cell!Look(r)
    BY <1>8 DEF Borrow, Cell!Look
  <2> QED
    BY <2>1 DEF Cell!CellNext
<1>9. ASSUME NEW r \in Receivers, Changed(r) PROVE Cell!CellNext
  <2>1. Cell!Wait(r)
    BY <1>9 DEF Changed, Cell!Wait, Cell!Move
  <2> QED
    BY <2>1 DEF Cell!CellNext
<1>10. ASSUME NEW r \in Receivers, DropChanged(r) PROVE Cell!CellNext
  <2>1. Cell!GiveUp(r)
    BY <1>10 DEF DropChanged, Finish, Cell!GiveUp, Cell!Move
  <2> QED
    BY <2>1 DEF Cell!CellNext
<1>11. ASSUME NEW r \in Receivers, PollReady(r) PROVE Cell!CellNext
  <2>1. Cell!Notice(r)
    BY <1>11 DEF PollReady, Finish, Cell!Notice, Cell!Move
  <2> QED
    BY <2>1 DEF Cell!CellNext
<1>12. ASSUME NEW r \in Receivers, PollClosed(r) PROVE Cell!CellNext
  <2>1. Cell!NoticeClose(r)
    BY <1>12 DEF PollClosed, Finish, Cell!NoticeClose, Cell!Move
  <2> QED
    BY <2>1 DEF Cell!CellNext
<1>13. ASSUME NEW r \in Receivers, PollPending(r) PROVE UNCHANGED Cell!cellVars
  BY <1>13 DEF PollPending
<1>14. ASSUME NEW r \in Receivers, NEW q \in Receivers, CloneReceiver(r, q)
       PROVE  Cell!CellNext
  <2>1. seen[r] \in 0 .. version /\ seen' = [seen EXCEPT ![q] = seen[r]]
    BY <1>14 DEF CloneReceiver, TypeOK
  <2>2. Cell!Join(q)
    BY <1>14, <2>1 DEF CloneReceiver, Cell!Join, Cell!Move
  <2> QED
    BY <2>2 DEF Cell!CellNext
<1>15. CASE UNCHANGED vars
  BY <1>15 DEF vars
<1> QED
  BY <1>1, <1>2, <1>3, <1>4, <1>5, <1>6, <1>7, <1>8, <1>9, <1>10, <1>11, <1>12,
     <1>13, <1>14, <1>15 DEF Next

(* The channel with its lock, wakers and unlocked wake-ups implements the   *)
(* safety part of the watch cell.                                           *)
THEOREM ImplementsCell == Spec => Cell!CellSafety
<1>1. Init => Cell!CellInit
  <2> SUFFICES ASSUME Init PROVE Cell!CellInit
    OBVIOUS
  <2>1. PICK r \in Receivers :
            at = [q \in Receivers |-> IF q = r THEN "idle" ELSE "absent"]
    BY DEF Init
  <2>2. at \in [Receivers -> {"absent", "idle"}]
    BY <2>1
  <2> QED
    BY <2>2 DEF Init, Cell!CellInit
<1> QED
  BY <1>1, CellStep, Invariance, PTL DEF Spec, Cell!CellSafety
=============================================================================
