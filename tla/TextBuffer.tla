----------------------------- MODULE TextBuffer -----------------------------
(***************************************************************************)
(* The replicated text buffer of crates/text/src/text.rs, with the clocks  *)
(* of crates/clock/src/clock.rs, the undo map of undo_map.rs and the       *)
(* queue of deferred operations of operation_queue.rs.                     *)
(*                                                                         *)
(* Every replica edits its own copy at once and broadcasts the operation.  *)
(* The network may delay, reorder and duplicate operations.  A replica     *)
(* applies an operation when its version vector covers the one the         *)
(* operation was made under, and defers it until then.                     *)
(*                                                                         *)
(* A fragment of the model is one character: the code keeps runs of        *)
(* characters together and splits them where an edit cuts them, which the  *)
(* properties cannot tell apart.  A character is named by the timestamp of *)
(* its insertion and its offset in it.  An edit has one range.             *)
(***************************************************************************)
EXTENDS Integers, Sequences, SequencesExt, FiniteSets, FiniteSetsExt

CONSTANTS
    Replicas,     \* replica ids, ReplicaId::LOCAL = 0 among them
    BaseLength,   \* characters of the base text
    Grouping,     \* {FALSE}: group_interval is zero; BOOLEAN: it is not
    MaxInsert,    \* characters one edit inserts at most (a bound)
    MaxEdits,     \* edits of all replicas together (a bound)
    MaxUndos,     \* undos and redos of all replicas together (a bound)
    MaxPushes,    \* transactions taken over from a peer (a bound)
    MaxBatch,     \* operations one call of apply_ops brings (a bound)
    MaxWaits      \* calls of wait_for_version (a bound)

Local == 0   \* ReplicaId::LOCAL, the author of the base text

ASSUME ReplicasAssumption ==
    /\ Local \in Replicas
    /\ Replicas \subseteq Nat
    /\ Grouping \subseteq BOOLEAN
    /\ {BaseLength, MaxInsert, MaxEdits, MaxUndos, MaxPushes, MaxBatch, MaxWaits}
          \subseteq Nat

VARIABLES
    buf,       \* buf[r]: the buffer of replica r
    undoStack, \* undo_stack, transactions as [edits, final]
    redoStack, \* redo_stack
    ops,       \* the operations that were ever broadcast
    pushes,    \* how many transactions were pushed
    waits,     \* how many waits were started
    applied,   \* history: applied[r], timestamps of the operations in buf[r]
    deps,      \* history: deps[ts], what the author of ts had applied before
    erased,    \* history: erased[ts], the characters the author of ts deleted
    seen       \* history: seen[ts], the fragments the author of ts had before it

vars == <<buf, undoStack, redoStack, ops, pushes, waits, applied, deps, erased, seen>>

-----------------------------------------------------------------------------
(* clock::Lamport and clock::Global.                                        *)

(* Mutant: equal counters are not told apart by the replica id.             *)
BeforeByValue(s, t) == s[1] < t[1]

Before(s, t) == s[1] < t[1] \/ (s[1] = t[1] /\ s[2] < t[2])

Tick(clock) == clock + 1
ObserveClock(clock, ts) == (IF clock > ts[1] THEN clock ELSE ts[1]) + 1

Observed(version, ts) == version[ts[2]] >= ts[1]
ObservedAll(version, other) == \A r \in Replicas : version[r] >= other[r]
Observe(version, ts) ==
    [version EXCEPT ![ts[2]] = IF @ > ts[1] THEN @ ELSE ts[1]]

-----------------------------------------------------------------------------
(* The undo map: every undo or redo of an edit leaves an entry, the largest *)
(* count rules, and an odd count means undone.                              *)

CountOf(entries) == Max({0} \cup {u.count : u \in entries})

UndoCount(undos, edit) == CountOf({u \in undos : u.edit = edit})
IsUndone(undos, edit) == UndoCount(undos, edit) % 2 = 1
WasUndone(undos, edit, version) ==
    CountOf({u \in undos : u.edit = edit /\ Observed(version, u.undo)}) % 2 = 1

(* Fragment::is_visible and Fragment::was_visible.                          *)
IsVisible(f, undos) ==
    /\ ~ IsUndone(undos, f.ts)
    /\ \A d \in f.dels : IsUndone(undos, d)

(* Mutant: a deletion the author had seen counts even when it was undone.   *)
WasVisibleIgnoringUndos(f, version, undos) ==
    /\ Observed(version, f.ts)
    /\ ~ WasUndone(undos, f.ts, version)
    /\ \A d \in f.dels : ~ Observed(version, d)

WasVisible(f, version, undos) ==
    /\ Observed(version, f.ts)
    /\ ~ WasUndone(undos, f.ts, version)
    /\ \A d \in f.dels : Observed(version, d) => WasUndone(undos, d, version)

-----------------------------------------------------------------------------
(* Fragments.                                                               *)

NewFragments(ts, n) ==
    [i \in 1..n |-> [ts |-> ts, off |-> i, dels |-> {}, visible |-> TRUE,
                     maxUndos |-> [r \in Replicas |-> 0]]]

Char(f) == <<f.ts, f.off>>

Delete(f, ts) == [f EXCEPT !.dels = @ \cup {ts}, !.visible = FALSE]

(* The position of the n-th fragment among those at the positions in S.     *)
Nth(S, n) == CHOOSE i \in S : Cardinality({j \in S : j <= i}) = n

VisibleAt(frags) == {i \in DOMAIN frags : frags[i].visible}

(* The characters at the positions in S, in their order.                    *)
CharsAt(frags, S) == [n \in 1..Cardinality(S) |-> Char(frags[Nth(S, n)])]

(* The visible text, as the characters it consists of.                      *)
Text(frags) == CharsAt(frags, VisibleAt(frags))

(* The new text goes in after position `at`; of the fragments from there to *)
(* position `upTo`, those in `dead` are deleted.                            *)
Splice(frags, at, upTo, new, dead, ts) ==
    SubSeq(frags, 1, at) \o new
    \o [i \in 1..(upTo - at) |->
          IF at + i \in dead THEN Delete(frags[at + i], ts) ELSE frags[at + i]]
    \o SubSeq(frags, upTo + 1, Len(frags))

(* The full offsets of the visible range s..e: every deleted fragment that  *)
(* precedes the next visible one is passed before the new text goes in.     *)
FullStart(frags, s) ==
    IF s = Cardinality(VisibleAt(frags)) THEN Len(frags)
    ELSE Nth(VisibleAt(frags), s + 1) - 1
FullEnd(frags, s, e) ==
    IF e = s THEN FullStart(frags, s) ELSE Nth(VisibleAt(frags), e)

(* Where the remote edit `op` inserts: right after the character that       *)
(* preceded it at its author, and after the concurrent insertions with a    *)
(* higher timestamp that are already there.                                 *)
ObservedAt(frags, version) == {i \in DOMAIN frags : Observed(version, frags[i].ts)}

(* Mutant: concurrent insertions at the same place are not skipped.         *)
RemoteStartNoSkip(frags, op) ==
    IF op.start = 0 THEN 0 ELSE Nth(ObservedAt(frags, op.version), op.start)

RemoteStart(frags, op) ==
    LET after == IF op.start = 0 THEN 0
                 ELSE Nth(ObservedAt(frags, op.version), op.start)
    IN  Max({i \in after..Len(frags) :
               \A j \in after + 1..i : Before(op.ts, frags[j].ts)})

RemoteEnd(frags, op) ==
    IF op.end = op.start THEN RemoteStart(frags, op)
    ELSE Nth(ObservedAt(frags, op.version), op.end)

ApplyRemoteEdit(b, op) ==
    LET at == RemoteStart(b.frags, op)
        upTo == RemoteEnd(b.frags, op)
        dead == {i \in at + 1..upTo : WasVisible(b.frags[i], op.version, b.undos)}
    IN  [b EXCEPT !.frags =
            Splice(@, at, upTo, NewFragments(op.ts, op.len), dead, op.ts)]

(* Mutant: only the insertions of the edits are looked at, not what they    *)
(* deleted.                                                                 *)
ApplyUndoInsertionsOnly(b, op) ==
    LET edits == DOMAIN op.counts
        undos == b.undos \cup
                   {[edit |-> e, undo |-> op.ts, count |-> op.counts[e]] : e \in edits}
        shown(f) == IF f.ts \in edits
                    THEN [f EXCEPT !.visible = IsVisible(f, undos),
                                   !.maxUndos = Observe(@, op.ts)]
                    ELSE f
    IN  [b EXCEPT !.undos = undos,
                  !.frags = [i \in DOMAIN b.frags |-> shown(b.frags[i])]]

(* apply_undo: the entries go into the undo map, and the fragments that the *)
(* edits inserted or deleted are shown or hidden anew, and marked.          *)
ApplyUndo(b, op) ==
    LET edits == DOMAIN op.counts
        undos == b.undos \cup
                   {[edit |-> e, undo |-> op.ts, count |-> op.counts[e]] : e \in edits}
        touched(f) == f.ts \in edits \/ f.dels \cap edits # {}
        shown(f) == IF touched(f)
                    THEN [f EXCEPT !.visible = IsVisible(f, undos),
                                   !.maxUndos = Observe(@, op.ts)]
                    ELSE f
    IN  [b EXCEPT !.undos = undos,
                  !.frags = [i \in DOMAIN b.frags |-> shown(b.frags[i])]]

-----------------------------------------------------------------------------
(* Applying and deferring operations.                                       *)

(* The calls of wait_for_version that this version satisfies return.        *)
StillWaiting(waiting, version) == {w \in waiting : ~ ObservedAll(version, w)}

(* Mutant: an undo does not wake those who wait for a version.              *)
ApplyOpSilentUndo(b, op) ==
    LET c == IF Observed(b.version, op.ts) THEN b
             ELSE LET d == IF op.kind = "edit" THEN ApplyRemoteEdit(b, op)
                                               ELSE ApplyUndo(b, op)
                  IN  [d EXCEPT !.version = Observe(@, op.ts),
                                !.clock = ObserveClock(@, op.ts)]
    IN  IF op.kind = "edit"
        THEN [c EXCEPT !.waiting = StillWaiting(@, c.version)] ELSE c

ApplyOp(b, op) ==
    LET c == IF Observed(b.version, op.ts) THEN b
             ELSE LET d == IF op.kind = "edit" THEN ApplyRemoteEdit(b, op)
                                               ELSE ApplyUndo(b, op)
                  IN  [d EXCEPT !.version = Observe(@, op.ts),
                                !.clock = ObserveClock(@, op.ts)]
    IN  [c EXCEPT !.waiting = StillWaiting(@, c.version)]

(* Mutant: an undo does not wait for the operations it builds on.           *)
CanApplyOpEagerUndo(b, op) ==
    /\ op.ts[2] \notin b.deferredReplicas
    /\ op.kind = "edit" => ObservedAll(b.version, op.version)

CanApplyOp(b, op) ==
    /\ op.ts[2] \notin b.deferredReplicas
    /\ ObservedAll(b.version, op.version)

(* Mutant: the author of a deferred operation is not remembered.            *)
ApplyOrDeferUnrecorded(b, op) ==
    IF CanApplyOp(b, op) THEN ApplyOp(b, op)
    ELSE [b EXCEPT !.deferred = @ \cup {op}]

ApplyOrDefer(b, op) ==
    IF CanApplyOp(b, op) THEN ApplyOp(b, op)
    ELSE [b EXCEPT !.deferredReplicas = @ \cup {op.ts[2]},
                   !.deferred = @ \cup {op}]

(* The operations of a sequence, one after the other.                       *)
EachInTurn(b, s) ==
    LET after[n \in 0..Len(s)] == IF n = 0 THEN b ELSE ApplyOrDefer(after[n - 1], s[n])
    IN  after[Len(s)]

(* OperationQueue: each operation once, drained in the order of timestamps. *)
InOrder(queue) ==
    [i \in 1..Cardinality(queue) |->
       CHOOSE o \in queue : Cardinality({p \in queue : Before(p.ts, o.ts)}) = i - 1]

(* Mutant: deferred_replicas is not cleared before the pass.                *)
FlushDeferredOpsNoClear(b) ==
    EachInTurn([b EXCEPT !.deferred = {}], InOrder(b.deferred))

(* flush_deferred_ops: one pass over the queue, in the order of timestamps. *)
FlushDeferredOps(b) ==
    EachInTurn([b EXCEPT !.deferred = {}, !.deferredReplicas = {}], InOrder(b.deferred))

(* Mutant: the queue is not looked at again after a batch.                  *)
ApplyAllNoFlush(b, batch) == EachInTurn(b, batch)

ApplyAll(b, batch) == FlushDeferredOps(EachInTurn(b, batch))

-----------------------------------------------------------------------------
BaseTs == <<1, Local>>   \* Lamport::new(ReplicaId::LOCAL)

(* Buffer::new: every replica starts with the same base text.               *)
NewBuffer(r) ==
    [clock |-> IF BaseLength > 0 THEN ObserveClock(1, BaseTs) ELSE 1,
     version |-> [q \in Replicas |-> IF q = Local /\ BaseLength > 0 THEN 1 ELSE 0],
     frags |-> NewFragments(BaseTs, BaseLength),
     undos |-> {},
     deferred |-> {},
     deferredReplicas |-> {},
     waiting |-> {}]

Init ==
    /\ buf = [r \in Replicas |-> NewBuffer(r)]
    /\ undoStack = [r \in Replicas |-> <<>>]
    /\ redoStack = [r \in Replicas |-> <<>>]
    /\ ops = {}
    /\ pushes = 0
    /\ waits = 0
    /\ applied = [r \in Replicas |-> {}]
    /\ deps = [t \in {} |-> {}]
    /\ erased = [t \in {} |-> {}]
    /\ seen = [t \in {} |-> <<>>]

OpsOf(kind) == {op \in ops : op.kind = kind}

(* What a new operation of r leaves behind everywhere else: it is           *)
(* broadcast, and the histories remember what it rests on.                  *)
Broadcast(r, op, chars) ==
    /\ ops' = ops \cup {op}
    /\ applied' = [applied EXCEPT ![r] = @ \cup {op.ts}]
    /\ deps' = [t \in DOMAIN deps \cup {op.ts} |->
                  IF t = op.ts THEN applied[r] ELSE deps[t]]
    /\ erased' = [t \in DOMAIN erased \cup {op.ts} |->
                    IF t = op.ts THEN chars ELSE erased[t]]
    /\ seen' = [t \in DOMAIN seen \cup {op.ts} |->
                  IF t = op.ts THEN buf[r].frags ELSE seen[t]]

(* The transaction of an edit joins the previous one when less than         *)
(* group_interval has passed and that one was not finalized.                *)
PushEdit(stack, ts, grouped) ==
    IF grouped
    THEN [stack EXCEPT ![Len(stack)].edits = @ \cup {ts}]
    ELSE Append(stack, [edits |-> {ts}, final |-> FALSE])

(* Buffer::edit: the transaction takes the first tick, the edit the second. *)
Edit(r, s, e, n, grouped) ==
    LET b == buf[r]
        ts == <<Tick(b.clock), r>>
        from == FullStart(b.frags, s)
        to == FullEnd(b.frags, s, e)
        dead == {i \in from + 1..to : b.frags[i].visible}
    IN  /\ Cardinality(OpsOf("edit")) < MaxEdits
        /\ s < e \/ n > 0
        /\ grouped => undoStack[r] # <<>> /\ ~ Last(undoStack[r]).final
        /\ buf' = [buf EXCEPT ![r].clock = Tick(Tick(@)),
                              ![r].version = Observe(@, ts),
                              ![r].frags = Splice(@, from, to,
                                             NewFragments(ts, n), dead, ts)]
        /\ undoStack' = [undoStack EXCEPT ![r] = PushEdit(@, ts, grouped)]
        /\ redoStack' = [redoStack EXCEPT ![r] = <<>>]
        /\ Broadcast(r, [kind |-> "edit", ts |-> ts, version |-> b.version,
                         start |-> from, end |-> to, len |-> n],
                     {Char(b.frags[i]) : i \in dead})
        /\ UNCHANGED <<pushes, waits>>

(* undo_or_redo: the counts of the transaction's edits go up by one.        *)
UndoOrRedo(r, transaction) ==
    LET b == buf[r]
        ts == <<b.clock, r>>
        op == [kind |-> "undo", ts |-> ts, version |-> b.version,
               counts |-> [e \in transaction.edits |-> UndoCount(b.undos, e) + 1]]
    IN  /\ Cardinality(OpsOf("undo")) < MaxUndos
        /\ buf' = [buf EXCEPT ![r] =
              ApplyUndo([b EXCEPT !.clock = Tick(@), !.version = Observe(@, ts)], op)]
        /\ Broadcast(r, op, {})
        /\ UNCHANGED <<pushes, waits>>

(* undo (the last transaction) and undo_transaction (any other).            *)
Undo(r, i) ==
    /\ UndoOrRedo(r, undoStack[r][i])
    /\ undoStack' = [undoStack EXCEPT ![r] = RemoveAt(@, i)]
    /\ redoStack' = [redoStack EXCEPT ![r] = Append(@, undoStack[r][i])]

Redo(r) ==
    /\ redoStack[r] # <<>>
    /\ UndoOrRedo(r, Last(redoStack[r]))
    /\ redoStack' = [redoStack EXCEPT ![r] = Front(@)]
    /\ undoStack' = [undoStack EXCEPT ![r] = Append(@, Last(redoStack[r]))]

(* push_transaction: a peer did the edit at this replica's request (a       *)
(* completion, a format), the replica has waited for the edit to arrive,    *)
(* and takes the transaction, finalized, into its own history.              *)
PushTransaction(r, op) ==
    /\ pushes < MaxPushes
    /\ op.ts[2] # r
    /\ Observed(buf[r].version, op.ts)
    /\ undoStack' = [undoStack EXCEPT ![r] =
                       Append(@, [edits |-> {op.ts}, final |-> TRUE])]
    /\ pushes' = pushes + 1
    /\ UNCHANGED <<buf, redoStack, ops, waits, applied, deps, erased,
                   seen>>

(* wait_for_version: a request carries the version its sender had seen.     *)
WaitForVersion(r, q) ==
    /\ waits < MaxWaits
    /\ ~ ObservedAll(buf[r].version, buf[q].version)
    /\ buf' = [buf EXCEPT ![r].waiting = @ \cup {buf[q].version}]
    /\ waits' = waits + 1
    /\ UNCHANGED <<undoStack, redoStack, ops, pushes, applied, deps, erased,
                   seen>>

Batches == UNION {[1..n -> ops] : n \in 1..MaxBatch}

(* apply_ops.                                                               *)
ApplyOps(r, batch) ==
    /\ \A i \in DOMAIN batch : batch[i].ts[2] # r
    /\ buf' = [buf EXCEPT ![r] = ApplyAll(@, batch)]
    /\ applied' = [applied EXCEPT ![r] =
                     @ \cup {op.ts : op \in (buf[r].deferred \cup ToSet(batch))
                                                \ buf'[r].deferred}]
    /\ UNCHANGED <<undoStack, redoStack, ops, pushes, waits, deps, erased, seen>>

Next ==
    \E r \in Replicas :
       \/ \E s \in 0..Cardinality(VisibleAt(buf[r].frags)) :
          \E e \in s..Cardinality(VisibleAt(buf[r].frags)) :
          \E n \in 0..MaxInsert, grouped \in Grouping : Edit(r, s, e, n, grouped)
       \/ \E i \in DOMAIN undoStack[r] : Undo(r, i)
       \/ Redo(r)
       \/ \E op \in OpsOf("edit") : PushTransaction(r, op)
       \/ \E q \in Replicas : WaitForVersion(r, q)
       \/ \E batch \in Batches : ApplyOps(r, batch)

Spec == Init /\ [][Next]_vars

(* The network brings every operation to every replica sooner or later: it  *)
(* travels over the reliable, ordered connections of a project.  Brought    *)
(* once is enough; whether it is then applied is up to the replica.         *)
Brought(r) ==
    \A op \in ops : op.ts \in applied[r] \/ op \in buf[r].deferred

FairSpec == Spec /\ \A r \in Replicas : []<>Brought(r)

-----------------------------------------------------------------------------
Timestamps == Nat \X Replicas
Versions == [Replicas -> Nat]

(* The state has the shape of Buffer, and of the History behind it.         *)
TypeOK ==
    /\ \A r \in Replicas :
         /\ buf[r].clock \in Nat
         /\ buf[r].version \in Versions
         /\ \A f \in ToSet(buf[r].frags) :
              /\ f.ts \in Timestamps
              /\ f.dels \subseteq Timestamps
              /\ f.visible \in BOOLEAN
              /\ f.maxUndos \in Versions
         /\ buf[r].deferred \subseteq ops
         /\ buf[r].deferredReplicas = {op.ts[2] : op \in buf[r].deferred}
         /\ buf[r].waiting \subseteq Versions
         /\ \A t \in ToSet(undoStack[r] \o redoStack[r]) :
              t.edits # {} /\ t.edits \subseteq applied[r]
    /\ \A o, p \in ops : o.ts = p.ts => o = p

(* Two replicas that have applied the same operations, in whatever order    *)
(* and however often they arrived, hold the same buffer: the same           *)
(* characters, in the same order, the same ones visible                     *)
(* (apply_remote_edit, apply_undo).                                         *)
Convergence ==
    \A r, q \in Replicas :
        applied[r] = applied[q] => buf[r].frags = buf[q].frags

(* Replicas never disagree on the order of two characters they both have,   *)
(* not even while each still misses operations of the other, and no         *)
(* character is there twice: this is why an anchor stays meaningful         *)
(* everywhere (the tie-break of apply_remote_edit).                         *)
SameOrder ==
    \A r, q \in Replicas :
    \A i \in DOMAIN buf[r].frags, k \in DOMAIN buf[q].frags :
        Char(buf[r].frags[i]) = Char(buf[q].frags[k]) =>
            \A j \in DOMAIN buf[r].frags, l \in DOMAIN buf[q].frags :
                Char(buf[r].frags[j]) = Char(buf[q].frags[l]) => (i < j <=> k < l)

(* A version vector covers a timestamp exactly when that operation has been *)
(* applied: the one number per replica loses nothing although operations    *)
(* arrive out of order (can_apply_op, observed).                            *)
VersionIsExact ==
    \A r \in Replicas, op \in ops :
        Observed(buf[r].version, op.ts) <=> op.ts \in applied[r]

(* Nothing that could be applied is left in the queue: one pass over        *)
(* deferred_ops is enough, however long the chain of operations that waited *)
(* for each other (flush_deferred_ops).                                     *)
NothingReadyDeferred ==
    \A r \in Replicas : \A op \in buf[r].deferred :
        ~ ObservedAll(buf[r].version, op.version)

(* A remote replica deletes exactly the characters the author saw in the    *)
(* range it deleted, whatever was inserted, deleted or undone meanwhile     *)
(* (was_visible).                                                           *)
ErasedIsExact ==
    \A r \in Replicas : \A t \in applied[r] :
        {Char(f) : f \in {g \in ToSet(buf[r].frags) : t \in g.dels}} = erased[t]

(* The visible flag kept in a fragment is the visibility its insertion, its *)
(* deletions and the undo map define (Fragment::is_visible).                *)
VisibleIsExact ==
    \A r \in Replicas : \A f \in ToSet(buf[r].frags) :
        f.visible = IsVisible(f, buf[r].undos)

(* wait_for_version never sleeps through the operation it waits for: no     *)
(* wait is open for a version the replica has reached (apply_op).           *)
WaitersServed ==
    \A r \in Replicas : StillWaiting(buf[r].waiting, buf[r].version) = buf[r].waiting

(* The version vectors and the deferral queue implement causal delivery:    *)
(* no replica applies an operation before everything its author had applied *)
(* (apply_ops implements the abstract CausalOps).                           *)
Causal == INSTANCE CausalOps WITH made <- deps
CausalDelivery == Causal!Spec

(* Once the edits stop, all replicas come to the same text for good         *)
(* (apply_ops, under delivery of every operation at least once).            *)
EventuallyTheSame ==
    <>[] (\A r, q \in Replicas : buf[r].frags = buf[q].frags)

=============================================================================
