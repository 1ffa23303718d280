---------------------------- MODULE WatchChannel ----------------------------
(***************************************************************************)
(* The watch channel of crates/watch/src/watch.rs: one Sender, any number  *)
(* of Receivers, and a lock around value, version, wakers and closed.      *)
(*                                                                         *)
(* A step is what happens under one acquisition of the lock.  Sender::send *)
(* releases it before it wakes anybody: the wakers it has taken are then   *)
(* called one by one while receivers are polled, dropped and cloned.       *)
(***************************************************************************)
EXTENDS Naturals

CONSTANTS
    Receivers,   \* handles that may come to exist, each with a task of its own
    MaxSends,    \* how often the sender sends (a bound)
    MaxWakers    \* how many wakers are registered (a bound)

ASSUME BoundsAssumption == MaxSends \in Nat /\ MaxWakers \in Nat

VARIABLES
    value,     \* State::value: how many values were sent, so that later is larger
    version,   \* State::version
    closed,    \* State::closed
    wakers,    \* State::wakers: the id and the receiver whose task it wakes
    nextWaker, \* State::next_waker_id
    sender,    \* "idle", "waking" inside send, or "gone"
    toWake,    \* the wakers that send has taken and not yet called
    at,        \* "absent"; "idle", a Receiver; "waiting", borrowed by a Changed
    seen,      \* Receiver::version
    pending,   \* Changed::pending_waker_id, or NoWaker
    woken,     \* the executor will poll the task of this receiver
    told,      \* history: changed() returned Ok and the value was not read since
    last       \* history: one more than the value last read, 0 if none was

stateVars == <<value, version, closed, wakers, nextWaker>>
receiverVars == <<at, seen, pending, woken, told, last>>
vars == <<stateVars, sender, toWake, receiverVars>>

NoWaker == 0    \* ids start at 1: post_inc returns the incremented id
Waker == [id : Nat, task : Receivers]

Without(ws, id) == {w \in ws : w.id /= id}

(* channel() makes a sender and one receiver, Receiver::constant a receiver *)
(* whose sender never was, and which therefore is never closed either.      *)
Init ==
    /\ value = 0
    /\ version = 0
    /\ closed = FALSE
    /\ wakers = {}
    /\ nextWaker = 0
    /\ sender \in {"idle", "gone"}
    /\ toWake = {}
    /\ \E r \in Receivers : at = [q \in Receivers |-> IF q = r THEN "idle" ELSE "absent"]
    /\ seen = [r \in Receivers |-> 0]
    /\ pending = [r \in Receivers |-> NoWaker]
    /\ woken = [r \in Receivers |-> FALSE]
    /\ told = [r \in Receivers |-> FALSE]
    /\ last = [r \in Receivers |-> 0]

-----------------------------------------------------------------------------
(* The sender. *)

(* send() with a receiver around: store, number and take the wakers.        *)
Send ==
    /\ sender = "idle"
    /\ value < MaxSends
    /\ \E r \in Receivers : at[r] /= "absent"
    /\ value' = value + 1
    /\ version' = version + 1
    /\ wakers' = {}
    /\ toWake' = wakers
    /\ sender' = "waking"
    /\ UNCHANGED <<closed, nextWaker, receiverVars>>

(* send() when the Arc has no other owner: the value is stored all the      *)
(* same, the version is not touched and the caller gets NoReceiverError.    *)
SendNoReceiver ==
    /\ sender = "idle"
    /\ value < MaxSends
    /\ \A r \in Receivers : at[r] = "absent"
    /\ value' = value + 1
    /\ UNCHANGED <<version, closed, wakers, nextWaker, sender, toWake, receiverVars>>

(* Waking a task that does not wait here any more does nothing here.        *)
Awaken(ws) ==
    [r \in Receivers |-> woken[r] \/ (at[r] = "waiting" /\ \E w \in ws : w.task = r)]

(* Mutant: send wakes the first waiter only.                                *)
WakeFirst ==
    /\ sender = "waking"
    /\ \E w \in toWake :
          /\ \A u \in toWake : w.id <= u.id
          /\ woken' = Awaken({w})
    /\ toWake' = {}
    /\ UNCHANGED <<stateVars, sender, at, seen, pending, told, last>>

(* send(), outside the lock: the next waker in the order of the map.        *)
WakeOne ==
    /\ sender = "waking"
    /\ \E w \in toWake :
          /\ \A u \in toWake : w.id <= u.id
          /\ woken' = Awaken({w})
          /\ toWake' = toWake \ {w}
    /\ UNCHANGED <<stateVars, sender, at, seen, pending, told, last>>

SendReturns ==
    /\ sender = "waking"
    /\ toWake = {}
    /\ sender' = "idle"
    /\ UNCHANGED <<stateVars, toWake, receiverVars>>

(* Mutant: the sender closes without waking anybody.                        *)
DropSenderQuietly ==
    /\ sender = "idle"
    /\ sender' = "gone"
    /\ closed' = TRUE
    /\ wakers' = {}
    /\ UNCHANGED <<value, version, nextWaker, toWake, receiverVars>>

(* Drop for Sender: everything, the wake-ups included, under the lock.      *)
DropSender ==
    /\ sender = "idle"
    /\ sender' = "gone"
    /\ closed' = TRUE
    /\ wakers' = {}
    /\ woken' = Awaken(wakers)
    /\ UNCHANGED <<value, version, nextWaker, toWake, at, seen, pending, told, last>>

-----------------------------------------------------------------------------
(* The receivers. *)

(* Sender::receiver(): a receiver that has seen the current version.        *)
NewReceiver(r) ==
    /\ sender = "idle"
    /\ at[r] = "absent"
    /\ at' = [at EXCEPT ![r] = "idle"]
    /\ seen' = [seen EXCEPT ![r] = version]
    /\ told' = [told EXCEPT ![r] = FALSE]
    /\ last' = [last EXCEPT ![r] = 0]
    /\ UNCHANGED <<stateVars, sender, toWake, pending, woken>>

(* Receiver::clone: q starts from what r has seen.                          *)
CloneReceiver(r, q) ==
    /\ at[r] = "idle"
    /\ at[q] = "absent"
    /\ at' = [at EXCEPT ![q] = "idle"]
    /\ seen' = [seen EXCEPT ![q] = seen[r]]
    /\ told' = [told EXCEPT ![q] = told[r]]
    /\ last' = [last EXCEPT ![q] = last[r]]
    /\ UNCHANGED <<stateVars, sender, toWake, pending, woken>>

DropReceiver(r) ==
    /\ at[r] = "idle"
    /\ at' = [at EXCEPT ![r] = "absent"]
    /\ UNCHANGED <<stateVars, sender, toWake, seen, pending, woken, told, last>>

(* Mutant: reading does not count as having seen the version.               *)
BorrowUnseen(r) ==
    /\ at[r] = "idle"
    /\ last' = [last EXCEPT ![r] = value + 1]
    /\ told' = [told EXCEPT ![r] = FALSE]
    /\ UNCHANGED <<stateVars, sender, toWake, at, seen, pending, woken>>

(* Mutant: reading counts the next version as seen too.                     *)
BorrowAhead(r) ==
    /\ at[r] = "idle"
    /\ seen' = [seen EXCEPT ![r] = version + 1]
    /\ last' = [last EXCEPT ![r] = value + 1]
    /\ told' = [told EXCEPT ![r] = FALSE]
    /\ UNCHANGED <<stateVars, sender, toWake, at, pending, woken>>

(* borrow(), also as the second half of recv(), in which the sender may     *)
(* have sent again since changed() returned.                                *)
Borrow(r) ==
    /\ at[r] = "idle"
    /\ seen' = [seen EXCEPT ![r] = version]
    /\ last' = [last EXCEPT ![r] = value + 1]
    /\ told' = [told EXCEPT ![r] = FALSE]
    /\ UNCHANGED <<stateVars, sender, toWake, at, pending, woken>>

(* changed(), awaited by a task that is about to poll it.                   *)
Changed(r) ==
    /\ at[r] = "idle"
    /\ at' = [at EXCEPT ![r] = "waiting"]
    /\ woken' = [woken EXCEPT ![r] = TRUE]
    /\ UNCHANGED <<stateVars, sender, toWake, seen, pending, told, last>>

Finish(r) ==
    /\ at' = [at EXCEPT ![r] = "idle"]
    /\ pending' = [pending EXCEPT ![r] = NoWaker]
    /\ woken' = [woken EXCEPT ![r] = FALSE]

(* Changed::poll, when there is a newer version.  The waker is not removed: *)
(* the sender has taken it.                                                 *)
PollReady(r) ==
    /\ at[r] = "waiting"
    /\ version /= seen[r]
    /\ seen' = [seen EXCEPT ![r] = version]
    /\ told' = [told EXCEPT ![r] = TRUE]
    /\ Finish(r)
    /\ UNCHANGED <<stateVars, sender, toWake, last>>

(* Changed::poll, when the sender is gone, and the drop of the future that  *)
(* has returned, which removes its waker if it has one.                     *)
PollClosed(r) ==
    /\ at[r] = "waiting"
    /\ version = seen[r]
    /\ closed
    /\ wakers' = Without(wakers, pending[r])
    /\ Finish(r)
    /\ UNCHANGED <<value, version, closed, nextWaker, sender, toWake, seen, told, last>>

(* Mutant: a second poll registers a second waker.                          *)
PollPendingTwice(r) ==
    /\ at[r] = "waiting"
    /\ version = seen[r]
    /\ ~closed
    /\ nextWaker < MaxWakers
    /\ nextWaker' = nextWaker + 1
    /\ wakers' = wakers \union {[id |-> nextWaker + 1, task |-> r]}
    /\ pending' = [pending EXCEPT ![r] = nextWaker + 1]
    /\ woken' = [woken EXCEPT ![r] = FALSE]
    /\ UNCHANGED <<value, version, closed, sender, toWake, at, seen, told, last>>

(* Changed::poll, when there is nothing yet: the waker of an earlier poll,  *)
(* which nobody may have woken, is replaced.                                *)
PollPending(r) ==
    /\ at[r] = "waiting"
    /\ version = seen[r]
    /\ ~closed
    /\ nextWaker < MaxWakers
    /\ nextWaker' = nextWaker + 1
    /\ wakers' = Without(wakers, pending[r]) \union {[id |-> nextWaker + 1, task |-> r]}
    /\ pending' = [pending EXCEPT ![r] = nextWaker + 1]
    /\ woken' = [woken EXCEPT ![r] = FALSE]
    /\ UNCHANGED <<value, version, closed, sender, toWake, at, seen, told, last>>

(* Drop for Changed before it has returned (a select! took another branch). *)
DropChanged(r) ==
    /\ at[r] = "waiting"
    /\ wakers' = Without(wakers, pending[r])
    /\ Finish(r)
    /\ UNCHANGED <<value, version, closed, nextWaker, sender, toWake, seen, told, last>>

(* A task may be polled for other reasons than its waker.                   *)
Poll(r) == PollReady(r) \/ PollClosed(r) \/ PollPending(r)

Next ==
    \/ Send \/ SendNoReceiver \/ WakeOne \/ SendReturns \/ DropSender
    \/ \E r \in Receivers :
          \/ NewReceiver(r) \/ DropReceiver(r) \/ Borrow(r)
          \/ Changed(r) \/ DropChanged(r)
          \/ PollReady(r) \/ PollClosed(r) \/ PollPending(r)
          \/ \E q \in Receivers : CloneReceiver(r, q)

Spec == Init /\ [][Next]_vars

(* send() runs to its end, and the executor polls the tasks that were woken.*)
(* Nobody is made to send, and no task is polled without a reason.          *)
Fairness ==
    /\ WF_vars(WakeOne)
    /\ \A r \in Receivers : WF_vars(woken[r] /\ Poll(r))

FairSpec == Spec /\ Fairness

-----------------------------------------------------------------------------
(* Types of the shared state and of every receiver's.                       *)
TypeOK ==
    /\ value \in Nat /\ version \in Nat /\ nextWaker \in Nat
    /\ version <= value
    /\ closed \in BOOLEAN
    /\ wakers \subseteq Waker
    /\ toWake \subseteq Waker
    /\ sender \in {"idle", "waking", "gone"}
    /\ at \in [Receivers -> {"absent", "idle", "waiting"}]
    /\ seen \in [Receivers -> Nat]
    /\ pending \in [Receivers -> Nat]
    /\ woken \in [Receivers -> BOOLEAN]
    /\ told \in [Receivers -> BOOLEAN]
    /\ last \in [Receivers -> Nat]
    /\ \A r \in Receivers : seen[r] <= version

(* A registered waker is the one its receiver's unfinished future would     *)
(* remove: none stays behind when a future is polled again, returns or is   *)
(* dropped, and a receiver never has two.                                   *)
NoWakerLeaks ==
    \A w \in wakers : at[w.task] = "waiting" /\ pending[w.task] = w.id

Scheduled(r) == woken[r] \/ \E w \in toWake : w.task = r
Registered(r) == \E w \in wakers : w.task = r

(* No wake-up is lost: a receiver that waits and that nobody is about to    *)
(* poll is registered with the sender, and has nothing to be told yet.      *)
NoWakeupLost ==
    \A r \in Receivers :
        at[r] = "waiting" /\ ~Scheduled(r) =>
            Registered(r) /\ seen[r] = version /\ ~closed

(* Whoever was told of a change finds a value it has not read before, also  *)
(* when the sender sent again, or others read, before it looks.             *)
ChangeIsReal == \A r \in Receivers : told[r] => last[r] <= value

(* The channel is a watch cell: changes are told only once and only when    *)
(* there is one, the close is told only after the last change, and a        *)
(* receiver that waits is always told in the end.                           *)
Cell == INSTANCE WatchCell
CellSpec == Cell!CellSpec
=============================================================================
