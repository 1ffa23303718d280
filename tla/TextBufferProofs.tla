-------------------------- MODULE TextBufferProofs --------------------------
(***************************************************************************)
(* The replicas of the text buffer agree: for every number of replicas and *)
(* of edits, for every order in which the operations arrive.               *)
(*                                                                         *)
(* The proof looks at views: the fragments of a replica under its version, *)
(* and the fragments the author of an operation had, under the version of  *)
(* the operation.  Which characters a view has, which of them are deleted  *)
(* and which are shown depends on its version alone (View).  Their order   *)
(* follows from where each insertion was placed: between a fragment and    *)
(* the one its author put it after there are only fragments that take      *)
(* precedence (Placed), which leaves any two views in the same order.      *)
(***************************************************************************)
EXTENDS TextQueries, FiniteSetTheorems, SequenceTheorems, WellFoundedInduction, TLAPS

-----------------------------------------------------------------------------
(* A world is what was ever broadcast, with its history: a record of ops,   *)
(* seen and erased.  The definitions take it as a parameter, so that what   *)
(* is proved of them holds before and after a step.                         *)

Stamps(O) == {op.ts : op \in O}

(* The operations that a version covers.                                    *)
Covered(w, v) == {op \in w.ops : Observed(v, op.ts)}

(* The version of the base text.                                            *)
BaseVersion == [q \in Replicas |-> IF q = Local /\ BaseLength > 0 THEN 1 ELSE 0]

(* The characters that the operations under v have inserted.                *)
CharsOf(w, v) ==
    ({BaseTs} \X (1 .. BaseLength)) \cup
    UNION {{op.ts} \X (1 .. op.len) : op \in {o \in Covered(w, v) : o.kind = "edit"}}

(* The undo map that the operations under v leave.                          *)
EntriesOf(w, v) ==
    UNION {{[edit |-> e, undo |-> op.ts, count |-> op.counts[e]] : e \in DOMAIN op.counts} :
              op \in {o \in Covered(w, v) : o.kind = "undo"}}

(* op undoes or redoes the insertion or a deletion of character c.          *)
Touches(w, op, c) ==
    op.kind = "undo" /\ \E e \in DOMAIN op.counts : c[1] = e \/ c \in w.erased[e]

(* m is the last of replica q's operations under v that touch c.            *)
LastTouch(w, v, c, q, m) ==
    /\ \A op \in Covered(w, v) : op.ts[2] = q /\ Touches(w, op, c) => op.ts[1] <= m
    /\ m = 0 \/ \E op \in Covered(w, v) : op.ts = <<m, q>> /\ Touches(w, op, c)

-----------------------------------------------------------------------------
(* Where the characters are.                                                *)

(* f takes precedence over g: later insertions go first.                    *)
Higher(f, g) == Before(g.ts, f.ts) \/ (f.ts = g.ts /\ f.off < g.off)

(* The author of t put it after fragment j of F, or in front for j = 0.     *)
IsAnchor(w, F, t, j) ==
    IF j = 0 THEN t = BaseTs \/ \E op \in w.ops : op.ts = t /\ op.start = 0
    ELSE \E op \in w.ops :
            op.ts = t /\ op.start > 0 /\ Char(F[j]) = Char(w.seen[t][op.start])

Placed(w, F, i) ==
    \E j \in 0 .. i - 1 :
        /\ IsAnchor(w, F, F[i].ts, j)
        /\ \A k \in j + 1 .. i - 1 : Higher(F[k], F[i])

(* F and G have the characters that they share in the same order.           *)
Agree(F, G) ==
    \A i, j \in DOMAIN F, k, l \in DOMAIN G :
        Char(F[i]) = Char(G[k]) /\ Char(F[j]) = Char(G[l]) => (i < j <=> k < l)

Fragments == [ts : Timestamps, off : Nat, dels : SUBSET Timestamps,
              visible : BOOLEAN, maxUndos : Versions]

(* Fragment f is what a buffer at version v keeps of its character.         *)
Kept(w, v, f) ==
    /\ Char(f) \in CharsOf(w, v)
    /\ f.dels = {t \in Stamps(Covered(w, v)) : Char(f) \in w.erased[t]}
    /\ f.visible = IsVisible(f, EntriesOf(w, v))
    /\ \A q \in Replicas : LastTouch(w, v, Char(f), q, f.maxUndos[q])

(* F is what a buffer at version v holds.                                   *)
View(w, F, v) ==
    /\ F \in Seq(Fragments)
    /\ \A i \in DOMAIN F : Kept(w, v, F[i])
    /\ \A c \in CharsOf(w, v) : \E i \in DOMAIN F : Char(F[i]) = c
    /\ \A i, j \in DOMAIN F : Char(F[i]) = Char(F[j]) => i = j
    /\ \A i \in DOMAIN F : Placed(w, F, i)

-----------------------------------------------------------------------------
(* A version that a buffer can have: it is made of the timestamps of        *)
(* operations and covers what they were made on.                            *)
Sound(w, v) ==
    /\ v \in Versions
    /\ \A q \in Replicas : /\ v[q] >= BaseVersion[q]
                           /\ v[q] = BaseVersion[q] \/ <<v[q], q>> \in Stamps(w.ops)
    /\ \A op \in Covered(w, v) : ObservedAll(v, op.version)

EditOK(w, op) ==
    /\ op.len \in Nat /\ op.start \in Nat /\ op.end \in Nat
    /\ op.start <= op.end /\ op.end <= Len(w.seen[op.ts])
    /\ w.erased[op.ts] = {Char(w.seen[op.ts][i]) :
          i \in {k \in op.start + 1 .. op.end : w.seen[op.ts][k].visible}}

UndoOK(w, op) ==
    /\ DOMAIN op.counts \subseteq Stamps(Covered(w, op.version))
    /\ w.erased[op.ts] = {}

OpOK(w, op) ==
    /\ op.ts \in Timestamps /\ op.ts[1] > 1
    /\ Sound(w, op.version)
    /\ \A q \in Replicas : op.version[q] < op.ts[1]
    /\ \A p \in w.ops : p.ts[2] = op.ts[2] /\ p.ts[1] < op.ts[1] => Observed(op.version, p.ts)
    /\ (op.kind = "edit" /\ EditOK(w, op)) \/ (op.kind = "undo" /\ UndoOK(w, op))
    /\ View(w, w.seen[op.ts], op.version)

WorldOK(w) ==
    /\ IsFiniteSet(w.ops)
    /\ \A o, p \in w.ops : o.ts = p.ts => o = p
    /\ \A op \in w.ops : OpOK(w, op)
    /\ \A o, p \in w.ops : Agree(w.seen[o.ts], w.seen[p.ts])

Buffers(w) ==
    [clock : Nat, version : Versions, frags : Seq(Fragments), undos : SUBSET UNION {
        {[edit |-> e, undo |-> op.ts, count |-> op.counts[e]] : e \in DOMAIN op.counts} :
           op \in {o \in w.ops : o.kind = "undo"}},
     deferred : SUBSET w.ops, deferredReplicas : SUBSET Replicas, waiting : SUBSET Versions]

(* A buffer, also in the middle of a batch.                                 *)
BufferOK(w, b) ==
    /\ b \in Buffers(w)
    /\ Sound(w, b.version)
    /\ \A q \in Replicas : b.version[q] < b.clock
    /\ b.undos = EntriesOf(w, b.version)
    /\ View(w, b.frags, b.version)
    /\ b.deferredReplicas = {op.ts[2] : op \in b.deferred}
    /\ \A op \in w.ops : Agree(b.frags, w.seen[op.ts])

(* Nothing of the queue is ready.                                           *)
Unready(b) == \A op \in b.deferred : ~ ObservedAll(b.version, op.version)

World == [ops |-> ops, seen |-> seen, erased |-> erased]

Transactions(done) == [edits : (SUBSET done) \ {{}}, final : BOOLEAN]

(* Replica r, with buffer b and the history `done`.                         *)
ReplicaOK(w, r, b, done) ==
    /\ BufferOK(w, b) /\ Unready(b)
    /\ done = Stamps(Covered(w, b.version))
    /\ \A op \in w.ops : op.ts[2] = r => Observed(b.version, op.ts)
    /\ \A v \in b.waiting : v[r] <= b.version[r] /\ ~ ObservedAll(b.version, v)

TextInv ==
    /\ WorldOK(World)
    /\ DOMAIN buf = Replicas /\ DOMAIN applied = Replicas
    /\ DOMAIN undoStack = Replicas /\ DOMAIN redoStack = Replicas
    /\ DOMAIN seen = Stamps(ops) /\ DOMAIN erased = Stamps(ops) /\ DOMAIN deps = Stamps(ops)
    /\ \A op \in ops : deps[op.ts] = Stamps(Covered(World, op.version))
    /\ \A r \in Replicas :
          /\ ReplicaOK(World, r, buf[r], applied[r])
          /\ undoStack[r] \in Seq(Transactions(applied[r]))
          /\ redoStack[r] \in Seq(Transactions(applied[r]))
    /\ \A r, q \in Replicas : Agree(buf[r].frags, buf[q].frags)

-----------------------------------------------------------------------------
(* Timestamps and versions.                                                 *)

LEMMA StampParts ==
    ASSUME NEW t \in Timestamps
    PROVE  /\ t[1] \in Nat /\ t[2] \in Replicas /\ t[2] \in Nat
           /\ t = <<t[1], t[2]>>
<1>1. Replicas \subseteq Nat
  BY ReplicasAssumption
<1>2. t \in Nat \X Replicas
  BY DEF Timestamps
<1>3. t[1] \in Nat /\ t[2] \in Replicas /\ t = <<t[1], t[2]>>
  BY <1>2
<1> QED
  BY <1>1, <1>3

(* Before is a strict total order.                                          *)
LEMMA BeforeOrder ==
    ASSUME NEW s \in Timestamps, NEW t \in Timestamps
    PROVE  /\ ~ (Before(s, t) /\ Before(t, s))
           /\ Before(s, t) \/ Before(t, s) \/ s = t
           /\ ~ Before(s, s)
           /\ \A u \in Timestamps : Before(s, t) /\ Before(t, u) => Before(s, u)
<1>1. \A u \in Timestamps : u[1] \in Nat /\ u[2] \in Nat /\ u = <<u[1], u[2]>>
  BY StampParts
<1> QED
  BY <1>1 DEF Before

LEMMA BaseIs ==
    /\ Local \in Replicas /\ Replicas \subseteq Nat /\ BaseLength \in Nat
    /\ BaseTs \in Timestamps /\ BaseTs[1] = 1 /\ BaseTs[2] = Local
    /\ BaseVersion \in Versions
    /\ \A q \in Replicas : BaseVersion[q] = IF q = Local /\ BaseLength > 0 THEN 1 ELSE 0
BY ReplicasAssumption DEF BaseTs, Timestamps, BaseVersion, Versions, Local

LEMMA ObserveIs ==
    ASSUME NEW v \in Versions, NEW t \in Timestamps
    PROVE  /\ Observe(v, t) \in Versions
           /\ Observed(Observe(v, t), t)
           /\ ObservedAll(Observe(v, t), v)
           /\ \A q \in Replicas : q # t[2] => Observe(v, t)[q] = v[q]
           /\ Observe(v, t)[t[2]] = IF v[t[2]] > t[1] THEN v[t[2]] ELSE t[1]
BY StampParts DEF Observe, Observed, ObservedAll, Versions

LEMMA ObservedAllTrans ==
    ASSUME NEW u \in Versions, NEW v \in Versions, NEW x \in Versions,
           ObservedAll(x, v), ObservedAll(v, u)
    PROVE  ObservedAll(x, u)
BY DEF ObservedAll, Versions

(* A larger version covers more.                                            *)
LEMMA CoveredGrows ==
    ASSUME NEW w, WorldOK(w), NEW u \in Versions, NEW v \in Versions, ObservedAll(v, u)
    PROVE  Covered(w, u) \subseteq Covered(w, v)
<1> SUFFICES ASSUME NEW op \in w.ops, u[op.ts[2]] >= op.ts[1]
             PROVE  v[op.ts[2]] >= op.ts[1]
  BY DEF Covered, Observed
<1>1. op.ts[1] \in Nat /\ op.ts[2] \in Replicas
  BY StampParts DEF WorldOK, OpOK
<1> QED
  BY <1>1 DEF ObservedAll, Versions

LEMMA OpTyped ==
    ASSUME NEW w, WorldOK(w), NEW op \in w.ops
    PROVE  /\ op.ts \in Timestamps /\ op.ts[1] > 1 /\ op.ts[1] \in Nat /\ op.ts[2] \in Replicas
           /\ op.ts = <<op.ts[1], op.ts[2]>> /\ op.ts # BaseTs
           /\ op.version \in Versions /\ Sound(w, op.version)
           /\ \A q \in Replicas : op.version[q] < op.ts[1]
           /\ ~ Observed(op.version, op.ts)
           /\ op \notin Covered(w, op.version)
           /\ op.kind \in {"edit", "undo"}
<1>1. OpOK(w, op)
  BY DEF WorldOK
<1>2. op.ts \in Timestamps /\ op.ts[1] > 1 /\ Sound(w, op.version) /\ op.kind \in {"edit", "undo"}
      /\ \A q \in Replicas : op.version[q] < op.ts[1]
  BY <1>1 DEF OpOK
<1>3. op.ts[1] \in Nat /\ op.ts[2] \in Replicas /\ op.ts = <<op.ts[1], op.ts[2]>>
  BY <1>2, StampParts
<1>4. op.version \in Versions
  BY <1>2 DEF Sound
<1>5. ~ Observed(op.version, op.ts)
  BY <1>2, <1>3, <1>4 DEF Observed, Versions
<1>6. op.ts # BaseTs
  BY <1>2, BaseIs
<1> QED
  BY <1>2, <1>3, <1>4, <1>5, <1>6 DEF Covered

(* What an operation under a version was made on is under it, too.          *)
LEMMA CoveredClosed ==
    ASSUME NEW w, WorldOK(w), NEW v, Sound(w, v), NEW op \in Covered(w, v)
    PROVE  Covered(w, op.version) \subseteq Covered(w, v)
<1>1. op \in w.ops /\ v \in Versions /\ ObservedAll(v, op.version)
  BY DEF Sound, Covered
<1>2. op.version \in Versions
  BY <1>1, OpTyped
<1> QED
  BY <1>1, <1>2, CoveredGrows

(* Applying an operation whose version is covered covers just that one.     *)
LEMMA CoverOne ==
    ASSUME NEW w, WorldOK(w), NEW v, Sound(w, v), NEW op \in w.ops, ObservedAll(v, op.version)
    PROVE  /\ Covered(w, Observe(v, op.ts)) = Covered(w, v) \cup {op}
           /\ Sound(w, Observe(v, op.ts))
<1> DEFINE x == Observe(v, op.ts)
           a == op.ts[2]
<1>1. v \in Versions /\ op.ts \in Timestamps /\ op.ts[1] \in Nat /\ a \in Replicas /\ op.version \in Versions
      /\ op.ts = <<op.ts[1], a>>
  BY OpTyped DEF Sound
<1>2. /\ x \in Versions /\ Observed(x, op.ts) /\ ObservedAll(x, v)
      /\ \A q \in Replicas : q # a => x[q] = v[q]
      /\ x[a] = IF v[a] > op.ts[1] THEN v[a] ELSE op.ts[1]
  BY <1>1, ObserveIs
<1> HIDE DEF x
<1>3. ASSUME NEW p \in Covered(w, x) PROVE p \in Covered(w, v) \cup {op}
  <2>1. p \in w.ops /\ p.ts \in Timestamps /\ p.ts[1] \in Nat /\ p.ts[2] \in Replicas
        /\ p.ts = <<p.ts[1], p.ts[2]>> /\ x[p.ts[2]] >= p.ts[1]
    BY <1>3, OpTyped DEF Covered, Observed
  <2>2. CASE v[p.ts[2]] >= p.ts[1]
    BY <2>1, <2>2 DEF Covered, Observed
  <2>3. CASE ~ (v[p.ts[2]] >= p.ts[1])
    <3>1. p.ts[2] = a /\ x[a] = op.ts[1] /\ p.ts[1] <= op.ts[1]
      BY <1>1, <1>2, <2>1, <2>3 DEF Versions
    <3>2. CASE p.ts[1] = op.ts[1]
      BY <1>1, <2>1, <3>1, <3>2 DEF WorldOK
    <3>3. CASE p.ts[1] < op.ts[1]
      <4>1. op.version[a] >= p.ts[1]
        BY <2>1, <3>1, <3>3 DEF WorldOK, OpOK, Observed
      <4>2. v[a] >= op.version[a]
        BY <1>1 DEF ObservedAll
      <4> QED
        BY <1>1, <2>1, <2>3, <3>1, <4>1, <4>2 DEF Versions
    <3> QED
      BY <1>1, <2>1, <3>1, <3>2, <3>3
  <2> QED
    BY <2>2, <2>3
<1>4. Covered(w, v) \subseteq Covered(w, x)
  BY <1>1, <1>2, CoveredGrows
<1>5. op \in Covered(w, x)
  BY <1>2 DEF Covered
<1>6. Covered(w, x) = Covered(w, v) \cup {op}
  BY <1>3, <1>4, <1>5
<1>7. \A q \in Replicas : /\ x[q] >= BaseVersion[q]
                          /\ x[q] = BaseVersion[q] \/ <<x[q], q>> \in Stamps(w.ops)
  <2> SUFFICES ASSUME NEW q \in Replicas
               PROVE  /\ x[q] >= BaseVersion[q]
                      /\ x[q] = BaseVersion[q] \/ <<x[q], q>> \in Stamps(w.ops)
    OBVIOUS
  <2>1. v[q] >= BaseVersion[q] /\ (v[q] = BaseVersion[q] \/ <<v[q], q>> \in Stamps(w.ops))
    BY DEF Sound
  <2>2. op.ts \in Stamps(w.ops)
    BY DEF Stamps
  <2>3. x[q] >= v[q]
    BY <1>2 DEF ObservedAll
  <2>4. x[q] >= BaseVersion[q]
    BY <1>1, <1>2, <2>1, <2>3, BaseIs DEF Versions
  <2> QED
    BY <1>1, <1>2, <2>1, <2>2, <2>4 DEF Versions
<1>8. ASSUME NEW p \in Covered(w, x) PROVE ObservedAll(x, p.version)
  <2>1. p \in w.ops /\ p.version \in Versions
    BY OpTyped DEF Covered
  <2>2. ObservedAll(v, p.version)
    BY <1>6 DEF Sound
  <2> QED
    BY <1>1, <1>2, <2>1, <2>2, ObservedAllTrans
<1> QED
  BY <1>2, <1>6, <1>7, <1>8 DEF Sound, x

-----------------------------------------------------------------------------
(* The characters of a version.                                             *)

LEMMA SeqParts ==
    ASSUME NEW S, NEW F \in Seq(S)
    PROVE  /\ Len(F) \in Nat /\ DOMAIN F = 1 .. Len(F)
           /\ \A i \in 1 .. Len(F) : F[i] \in S
BY LenProperties, ElementOfSeq

LEMMA CharIs ==
    ASSUME NEW f, NEW g
    PROVE  /\ Char(f) = <<f.ts, f.off>> /\ Char(f)[1] = f.ts /\ Char(f)[2] = f.off
           /\ Char(f) = Char(g) <=> f.ts = g.ts /\ f.off = g.off
BY DEF Char

LEMMA CharsAre ==
    ASSUME NEW w, NEW v, NEW t, NEW k
    PROVE  <<t, k>> \in CharsOf(w, v) <=>
              \/ t = BaseTs /\ k \in 1 .. BaseLength
              \/ \E op \in Covered(w, v) : op.kind = "edit" /\ op.ts = t /\ k \in 1 .. op.len
BY DEF CharsOf

LEMMA CharsArePairs ==
    ASSUME NEW w, NEW v, NEW c \in CharsOf(w, v)
    PROVE  c = <<c[1], c[2]>>
BY DEF CharsOf

LEMMA CharsGrow ==
    ASSUME NEW w, NEW u, NEW v, Covered(w, u) \subseteq Covered(w, v)
    PROVE  CharsOf(w, u) \subseteq CharsOf(w, v)
<1> SUFFICES ASSUME NEW c \in CharsOf(w, u) PROVE c \in CharsOf(w, v)
  OBVIOUS
<1>1. c = <<c[1], c[2]>>
  BY CharsArePairs
<1> QED
  BY <1>1, CharsAre

(* A character under v is under V when V covers its insertion.              *)
LEMMA CharObserved ==
    ASSUME NEW w, WorldOK(w), NEW V, Sound(w, V), NEW v, NEW c \in CharsOf(w, v)
    PROVE  Observed(V, c[1]) <=> c \in CharsOf(w, V)
<1>1. c = <<c[1], c[2]>>
  BY CharsArePairs
<1>2. CASE c[1] = BaseTs /\ c[2] \in 1 .. BaseLength
  <2>1. c \in CharsOf(w, V)
    BY <1>1, <1>2, CharsAre
  <2>2. BaseLength > 0
    BY <1>2, BaseIs
  <2>3. V[Local] >= 1
    BY <2>2, BaseIs DEF Sound
  <2> QED
    BY <1>2, <2>1, <2>3, BaseIs DEF Observed
<1>3. ASSUME NEW op \in Covered(w, v), op.kind = "edit", op.ts = c[1], c[2] \in 1 .. op.len
      PROVE  Observed(V, c[1]) <=> c \in CharsOf(w, V)
  <2>1. op \in w.ops /\ op.ts # BaseTs
    BY OpTyped DEF Covered
  <2>2. ASSUME Observed(V, c[1]) PROVE c \in CharsOf(w, V)
    <3>1. op \in Covered(w, V)
      BY <1>3, <2>1, <2>2 DEF Covered
    <3> QED
      BY <1>1, <1>3, <3>1, CharsAre
  <2>3. ASSUME c \in CharsOf(w, V) PROVE Observed(V, c[1])
    <3>1. PICK p \in Covered(w, V) : p.ts = c[1]
      BY <1>1, <1>3, <2>1, <2>3, CharsAre
    <3> QED
      BY <3>1 DEF Covered
  <2> QED
    BY <2>2, <2>3
<1> QED
  BY <1>1, <1>2, <1>3, CharsAre

LEMMA CharOfOp ==
    ASSUME NEW w, WorldOK(w), NEW op \in w.ops, NEW v, NEW k, <<op.ts, k>> \in CharsOf(w, v)
    PROVE  op \in Covered(w, v) /\ op.kind = "edit" /\ k \in 1 .. op.len
<1>1. op.ts # BaseTs
  BY OpTyped
<1>2. PICK p \in Covered(w, v) : p.kind = "edit" /\ p.ts = op.ts /\ k \in 1 .. p.len
  BY <1>1, CharsAre
<1>3. p = op
  BY <1>2 DEF WorldOK, Covered
<1> QED
  BY <1>2, <1>3

(* An author deletes characters that it has.                                *)
LEMMA ErasedAreChars ==
    ASSUME NEW w, WorldOK(w), NEW op \in w.ops, NEW c \in w.erased[op.ts]
    PROVE  c \in CharsOf(w, op.version)
<1>1. OpOK(w, op)
  BY DEF WorldOK
<1>2. EditOK(w, op) /\ View(w, w.seen[op.ts], op.version)
  BY <1>1 DEF OpOK, UndoOK
<1>3. PICK i \in op.start + 1 .. op.end : c = Char(w.seen[op.ts][i])
  BY <1>2 DEF EditOK
<1>4. i \in DOMAIN w.seen[op.ts]
  <2>1. w.seen[op.ts] \in Seq(Fragments)
    BY <1>2 DEF View
  <2>2. Len(w.seen[op.ts]) \in Nat /\ DOMAIN w.seen[op.ts] = 1 .. Len(w.seen[op.ts])
    BY <2>1, SeqParts
  <2> QED
    BY <1>2, <1>3, <2>2 DEF EditOK
<1> QED
  BY <1>2, <1>3, <1>4 DEF View, Kept

(* Under a sound version nothing is deleted or undone before it came.       *)
LEMMA NotYetErased ==
    ASSUME NEW w, WorldOK(w), NEW v, Sound(w, v), NEW op \in w.ops, op \notin Covered(w, v),
           NEW p \in Covered(w, v) \cup {op}, NEW k
    PROVE  <<op.ts, k>> \notin w.erased[p.ts]
<1> SUFFICES ASSUME <<op.ts, k>> \in w.erased[p.ts] PROVE FALSE
  OBVIOUS
<1>1. p \in w.ops
  BY DEF Covered
<1>2. <<op.ts, k>> \in CharsOf(w, p.version)
  BY <1>1, ErasedAreChars
<1>3. op \in Covered(w, p.version)
  BY <1>2, CharOfOp
<1>4. CASE p = op
  BY <1>3, <1>4, OpTyped
<1>5. CASE p \in Covered(w, v)
  BY <1>3, <1>5, CoveredClosed
<1> QED
  BY <1>4, <1>5

LEMMA EntriesAre ==
    ASSUME NEW w, NEW v, NEW u
    PROVE  u \in EntriesOf(w, v) <=>
              \E p \in Covered(w, v) : \E e \in DOMAIN p.counts :
                 p.kind = "undo" /\ u = [edit |-> e, undo |-> p.ts, count |-> p.counts[e]]
BY DEF EntriesOf

LEMMA NotYetUndone ==
    ASSUME NEW w, WorldOK(w), NEW v, Sound(w, v), NEW op \in w.ops, op \notin Covered(w, v)
    PROVE  /\ \A p \in Covered(w, v) : p.kind = "undo" => op.ts \notin DOMAIN p.counts
           /\ ~ IsUndone(EntriesOf(w, v), op.ts)
<1>1. ASSUME NEW p \in Covered(w, v), p.kind = "undo", op.ts \in DOMAIN p.counts
      PROVE  FALSE
  <2>1. p \in w.ops /\ OpOK(w, p)
    BY DEF Covered, WorldOK
  <2>2. UndoOK(w, p)
    BY <1>1, <2>1 DEF OpOK
  <2>3. PICK o \in Covered(w, p.version) : o.ts = op.ts
    BY <1>1, <2>2 DEF UndoOK, Stamps
  <2>4. o = op
    BY <2>3 DEF WorldOK, Covered
  <2> QED
    BY <2>3, <2>4, CoveredClosed
<1>2. {u \in EntriesOf(w, v) : u.edit = op.ts} = {}
  <2> SUFFICES ASSUME NEW u \in EntriesOf(w, v), u.edit = op.ts PROVE FALSE
    OBVIOUS
  <2>1. PICK p \in Covered(w, v) : \E e \in DOMAIN p.counts :
           p.kind = "undo" /\ u = [edit |-> e, undo |-> p.ts, count |-> p.counts[e]]
    BY EntriesAre
  <2> QED
    BY <1>1, <2>1
<1>3. CountOf({}) = 0
  <2>1. {0} \cup {u.count : u \in {}} = {0}
    OBVIOUS
  <2>2. Max({0}) = 0
    BY DEF Max
  <2> QED
    BY <2>1, <2>2 DEF CountOf
<1>4. UndoCount(EntriesOf(w, v), op.ts) = 0
  BY <1>2, <1>3 DEF UndoCount
<1>5. ~ IsUndone(EntriesOf(w, v), op.ts)
  BY <1>4 DEF IsUndone
<1> QED
  BY <1>1, <1>5

-----------------------------------------------------------------------------
(* A view of a version, found again in a view of a later one.               *)

LEMMA NthIs ==
    ASSUME NEW N \in Nat, NEW S \in SUBSET (1 .. N), NEW i \in S
    PROVE  Nth(S, Cardinality({j \in S : j <= i})) = i
<1> DEFINE R(k) == {j \in S : j <= k}
<1>1. ASSUME NEW k PROVE IsFiniteSet(R(k))
  <2>1. R(k) \in SUBSET (1 .. N)
    OBVIOUS
  <2>2. IsFiniteSet(1 .. N)
    BY FS_Interval
  <2> HIDE DEF R
  <2> QED
    BY <2>1, <2>2, FS_Subset
<1>2. ASSUME NEW k \in S, NEW l \in S, k < l
      PROVE  Cardinality(R(k)) # Cardinality(R(l))
  <2>1. k \in Int /\ l \in Int /\ \A j \in S : j \in Int
    OBVIOUS
  <2>2. \A j \in S : j <= k => j <= l
    BY <1>2, <2>1
  <2>3. R(k) \in SUBSET R(l)
    BY <2>2
  <2>4. l \in R(l) /\ l \notin R(k)
    BY <1>2, <2>1
  <2>5. IsFiniteSet(R(l))
    BY <1>1
  <2> HIDE DEF R
  <2> QED
    BY <2>3, <2>4, <2>5, FS_Subset
<1>3. ASSUME NEW k \in S, Cardinality(R(k)) = Cardinality(R(i)) PROVE k = i
  <2>1. k \in Int /\ i \in Int
    OBVIOUS
  <2> QED
    BY <1>2, <1>3, <2>1
<1> QED
  BY <1>3 DEF Nth

LEMMA Matching ==
    ASSUME NEW w, WorldOK(w), NEW F, NEW v, View(w, F, v), Sound(w, v),
           NEW W, NEW V, View(w, W, V), Sound(w, V), ObservedAll(v, V)
    PROVE  /\ \A m \in DOMAIN W : \E i \in DOMAIN F : Char(F[i]) = Char(W[m])
           /\ \A i \in DOMAIN F : Observed(V, F[i].ts) <=> \E m \in DOMAIN W : Char(F[i]) = Char(W[m])
<1>1. CharsOf(w, V) \subseteq CharsOf(w, v)
  BY CoveredGrows, CharsGrow DEF Sound
<1>2. ASSUME NEW m \in DOMAIN W PROVE \E i \in DOMAIN F : Char(F[i]) = Char(W[m])
  BY <1>1 DEF View, Kept
<1>3. ASSUME NEW i \in DOMAIN F
      PROVE  Observed(V, F[i].ts) <=> \E m \in DOMAIN W : Char(F[i]) = Char(W[m])
  <2>1. Char(F[i]) \in CharsOf(w, v) /\ Char(F[i])[1] = F[i].ts
    BY CharIs DEF View, Kept
  <2>2. Observed(V, F[i].ts) <=> Char(F[i]) \in CharsOf(w, V)
    BY <2>1, CharObserved
  <2> QED
    BY <2>2 DEF View, Kept
<1> QED
  BY <1>2, <1>3

(* The m-th fragment that an author had is the m-th of those it knew here.  *)
LEMMA NthMatches ==
    ASSUME NEW w, WorldOK(w), NEW F, NEW v, View(w, F, v), Sound(w, v),
           NEW W, NEW V, View(w, W, V), Sound(w, V), ObservedAll(v, V), Agree(F, W),
           NEW m \in DOMAIN W, NEW i \in DOMAIN F, Char(F[i]) = Char(W[m])
    PROVE  Nth(ObservedAt(F, V), m) = i
<1> DEFINE S == ObservedAt(F, V)
           R == {j \in S : j <= i}
           f == [k \in 1 .. m |-> CHOOSE j \in DOMAIN F : Char(F[j]) = Char(W[k])]
<1>1. /\ Len(F) \in Nat /\ DOMAIN F = 1 .. Len(F)
      /\ Len(W) \in Nat /\ DOMAIN W = 1 .. Len(W)
  BY SeqParts DEF View
<1>2. m \in Nat /\ m >= 1 /\ i \in Nat /\ 1 .. m \subseteq DOMAIN W
  BY <1>1
<1>3. S \in SUBSET (1 .. Len(F))
  BY <1>1 DEF ObservedAt
<1>4. i \in S
  BY Matching DEF ObservedAt
<1>5. ASSUME NEW k \in 1 .. m
      PROVE  f[k] \in DOMAIN F /\ Char(F[f[k]]) = Char(W[k])
  <2>1. \E j \in DOMAIN F : Char(F[j]) = Char(W[k])
    BY <1>2, Matching
  <2> QED
    BY <2>1
<1>6. ASSUME NEW k \in 1 .. m PROVE f[k] \in R
  <2>1. Observed(V, F[f[k]].ts)
    BY <1>2, <1>5, Matching
  <2>2. f[k] \in S
    BY <1>5, <2>1 DEF ObservedAt
  <2>3. ~ (i < f[k])
    BY <1>1, <1>2, <1>5 DEF Agree
  <2> QED
    BY <1>1, <1>5, <2>2, <2>3
<1>7. ASSUME NEW j \in R
      PROVE  \E k \in 1 .. m : f[k] = j
  <2>1. j \in DOMAIN F /\ Observed(V, F[j].ts)
    BY DEF ObservedAt
  <2>2. PICK k \in DOMAIN W : Char(F[j]) = Char(W[k])
    BY <2>1, Matching
  <2>3. ~ (m < k)
    BY <1>1, <1>2, <2>1, <2>2 DEF Agree
  <2>4. k \in 1 .. m
    BY <1>1, <1>2, <2>3
  <2>5. f[k] = j
    BY <1>5, <2>1, <2>2, <2>4 DEF View
  <2> QED
    BY <2>4, <2>5
<1>8. f \in Bijection(1 .. m, R)
  <2>1. f \in [1 .. m -> R]
    BY <1>6
  <2>2. ASSUME NEW k \in 1 .. m, NEW l \in 1 .. m, f[k] = f[l] PROVE k = l
    BY <1>2, <1>5, <2>2 DEF View
  <2>3. f \in Injection(1 .. m, R)
    <3> HIDE DEF f, R
    <3> QED
      BY <2>1, <2>2 DEF Injection, IsInjective
  <2>4. f \in Surjection(1 .. m, R)
    <3> HIDE DEF f, R
    <3> QED
      BY <1>7, <2>1 DEF Surjection
  <2> QED
    BY <2>3, <2>4 DEF Bijection
<1>9. Cardinality(R) = m
  <2> HIDE DEF f, R
  <2> QED
    BY <1>2, <1>8, FS_CountingElements DEF ExistsBijection
<1> QED
  BY <1>1, <1>3, <1>4, <1>9, NthIs

(* was_visible of a later buffer is the visible flag that the author saw.   *)
LEMMA WasVisibleIs ==
    ASSUME NEW w, WorldOK(w), NEW v, NEW V \in Versions, Sound(w, V), ObservedAll(v, V), v \in Versions,
           NEW f, NEW g, Kept(w, v, f), Kept(w, V, g), Char(f) = Char(g)
    PROVE  WasVisible(f, V, EntriesOf(w, v)) <=> g.visible
<1>1. f.ts = g.ts
  BY CharIs
<1>2. Observed(V, f.ts)
  BY CharObserved, CharIs DEF Kept
<1>3. Covered(w, V) \subseteq Covered(w, v)
  BY CoveredGrows
<1>4. ASSUME NEW e
      PROVE  WasUndone(EntriesOf(w, v), e, V) <=> IsUndone(EntriesOf(w, V), e)
  <2>1. ASSUME NEW u
        PROVE  u \in EntriesOf(w, v) /\ Observed(V, u.undo) <=> u \in EntriesOf(w, V)
    <3>1. ASSUME u \in EntriesOf(w, v), Observed(V, u.undo) PROVE u \in EntriesOf(w, V)
      <4>1. PICK p \in Covered(w, v) : \E d \in DOMAIN p.counts :
               p.kind = "undo" /\ u = [edit |-> d, undo |-> p.ts, count |-> p.counts[d]]
        BY <3>1, EntriesAre
      <4>2. p \in Covered(w, V)
        BY <3>1, <4>1 DEF Covered
      <4> QED
        BY <4>1, <4>2, EntriesAre
    <3>2. ASSUME u \in EntriesOf(w, V) PROVE u \in EntriesOf(w, v) /\ Observed(V, u.undo)
      <4>1. PICK p \in Covered(w, V) : \E d \in DOMAIN p.counts :
               p.kind = "undo" /\ u = [edit |-> d, undo |-> p.ts, count |-> p.counts[d]]
        BY <3>2, EntriesAre
      <4>2. p \in Covered(w, v) /\ Observed(V, p.ts)
        BY <1>3, <4>1 DEF Covered
      <4> QED
        BY <4>1, <4>2, EntriesAre
    <3> QED
      BY <3>1, <3>2
  <2>2. {u \in EntriesOf(w, v) : u.edit = e /\ Observed(V, u.undo)} = {u \in EntriesOf(w, V) : u.edit = e}
    BY <2>1
  <2> QED
    BY <2>2 DEF WasUndone, IsUndone, UndoCount
<1>5. ASSUME NEW d PROVE d \in f.dels /\ Observed(V, d) <=> d \in g.dels
  <2>1. f.dels = {t \in Stamps(Covered(w, v)) : Char(f) \in w.erased[t]}
        /\ g.dels = {t \in Stamps(Covered(w, V)) : Char(f) \in w.erased[t]}
    BY DEF Kept
  <2>2. d \in Stamps(Covered(w, v)) /\ Observed(V, d) <=> d \in Stamps(Covered(w, V))
    BY <1>3 DEF Stamps, Covered
  <2> QED
    BY <2>1, <2>2
<1>6. g.visible <=> IsVisible(g, EntriesOf(w, V))
  BY DEF Kept
<1> QED
  BY <1>1, <1>2, <1>4, <1>5, <1>6 DEF WasVisible, IsVisible

-----------------------------------------------------------------------------
(* A set of natural numbers has a least element, and a bounded one has a    *)
(* greatest.                                                                *)
LEMMA Least ==
    ASSUME NEW S, S \subseteq Nat, S /= {}
    PROVE  \E n \in S : \A m \in S : n <= m
<1>1. PICK n \in S : \A m \in S : <<m, n>> \notin OpToRel(<, Nat)
  BY WFMin, NatLessThanWellFounded
<1>2. \A m \in S : ~(m < n)
  BY <1>1 DEF OpToRel
<1> QED
  BY <1>2

LEMMA Greatest ==
    ASSUME NEW N \in Nat, NEW S \in SUBSET (0 .. N), S /= {}
    PROVE  Max(S) \in S /\ \A m \in S : m <= Max(S)
<1> DEFINE D == {N - m : m \in S}
<1>1. D \subseteq Nat /\ D /= {}
  <2>1. \A m \in S : m \in 0 .. N
    OBVIOUS
  <2>2. \A m \in S : N - m \in Nat
    BY <2>1
  <2>3. PICK m \in S : TRUE
    OBVIOUS
  <2>4. N - m \in D
    OBVIOUS
  <2> QED
    BY <2>2, <2>4
<1>2. PICK d \in D : \A e \in D : d <= e
  <2> HIDE DEF D
  <2> QED
    BY <1>1, Least
<1>3. PICK n \in S : d = N - n
  BY <1>2
<1>4. \A m \in S : n >= m
  BY <1>2, <1>3
<1> QED
  BY <1>4 DEF Max

-----------------------------------------------------------------------------
(* Where an edit takes place in fragments F: it follows fragment `after`,   *)
(* goes in after `at` behind what takes precedence, and deletes `dead`.     *)
Site(w, F, op, after, at, upTo, dead) ==
    /\ after \in 0 .. Len(F) /\ at \in after .. Len(F) /\ upTo \in at .. Len(F)
    /\ dead \subseteq at + 1 .. upTo
    /\ IsAnchor(w, F, op.ts, after)
    /\ \A j \in after + 1 .. at : Before(op.ts, F[j].ts)
    /\ at < Len(F) => Before(F[at + 1].ts, op.ts)
    /\ {Char(F[i]) : i \in dead} = w.erased[op.ts]

(* Fragments of an operation that is not under v are not there.             *)
LEMMA NotYetThere ==
    ASSUME NEW w, WorldOK(w), NEW F, NEW v, View(w, F, v), NEW op \in w.ops, op \notin Covered(w, v),
           NEW i \in DOMAIN F
    PROVE  F[i].ts # op.ts
<1>1. Char(F[i]) \in CharsOf(w, v) /\ Char(F[i]) = <<F[i].ts, F[i].off>>
  BY CharIs DEF View, Kept
<1> QED
  BY <1>1, CharOfOp

LEMMA RemoteSite ==
    ASSUME NEW w, WorldOK(w), NEW F, NEW v, View(w, F, v), Sound(w, v),
           NEW op \in w.ops, op.kind = "edit", op \notin Covered(w, v),
           ObservedAll(v, op.version), Agree(F, w.seen[op.ts])
    PROVE  LET at == RemoteStart(F, op)
               upTo == RemoteEnd(F, op)
               dead == {i \in at + 1 .. upTo : WasVisible(F[i], op.version, EntriesOf(w, v))}
           IN  \E after \in 0 .. Len(F) : Site(w, F, op, after, at, upTo, dead)
<1> DEFINE W == w.seen[op.ts]
           V == op.version
           S == ObservedAt(F, V)
           after == IF op.start = 0 THEN 0 ELSE Nth(S, op.start)
           at == RemoteStart(F, op)
           upTo == RemoteEnd(F, op)
           dead == {i \in at + 1 .. upTo : WasVisible(F[i], V, EntriesOf(w, v))}
           P == {i \in after .. Len(F) : \A j \in after + 1 .. i : Before(op.ts, F[j].ts)}
<1>1. OpOK(w, op) /\ EditOK(w, op) /\ View(w, W, V) /\ Sound(w, V) /\ V \in Versions /\ v \in Versions
  BY DEF WorldOK, OpOK, Sound
<1>2. /\ Len(F) \in Nat /\ DOMAIN F = 1 .. Len(F) /\ \A i \in 1 .. Len(F) : F[i] \in Fragments
      /\ Len(W) \in Nat /\ DOMAIN W = 1 .. Len(W)
  BY <1>1, SeqParts DEF View
<1>3. op.start \in Nat /\ op.end \in Nat /\ op.start <= op.end /\ op.end <= Len(W)
  BY <1>1 DEF EditOK
<1>4. op.ts \in Timestamps /\ op.ts[1] \in Nat /\ \A q \in Replicas : V[q] < op.ts[1]
  BY OpTyped
<1>5. \A i \in DOMAIN F : F[i].ts \in Timestamps
  BY <1>2 DEF Fragments
<1>6. \A m \in DOMAIN W, i \in DOMAIN F : Char(F[i]) = Char(W[m]) => Nth(S, m) = i
  BY <1>1, NthMatches
<1>7. /\ \A m \in DOMAIN W : \E i \in DOMAIN F : Char(F[i]) = Char(W[m])
      /\ \A i \in DOMAIN F : Observed(V, F[i].ts) <=> \E m \in DOMAIN W : Char(F[i]) = Char(W[m])
  BY <1>1, Matching
<1>8. \A i \in DOMAIN F : Observed(V, F[i].ts) => ~ Before(op.ts, F[i].ts)
  <2> SUFFICES ASSUME NEW i \in DOMAIN F, Observed(V, F[i].ts), Before(op.ts, F[i].ts) PROVE FALSE
    OBVIOUS
  <2>1. F[i].ts[1] \in Nat /\ F[i].ts[2] \in Replicas
    BY <1>5, StampParts
  <2> QED
    BY <1>1, <1>4, <2>1 DEF Observed, Before, Versions
<1>9. after \in 0 .. Len(F) /\ IsAnchor(w, F, op.ts, after)
      /\ (op.start > 0 => after > 0 /\ Char(F[after]) = Char(W[op.start]))
  <2>1. CASE op.start = 0
    <3>1. after = 0
      BY <2>1
    <3> QED
      BY <1>2, <2>1, <3>1 DEF IsAnchor
  <2>2. CASE op.start # 0
    <3>1. op.start \in DOMAIN W
      BY <1>2, <1>3, <2>2
    <3>2. PICK i \in DOMAIN F : Char(F[i]) = Char(W[op.start])
      BY <1>7, <3>1
    <3>3. after = i
      BY <1>6, <2>2, <3>1, <3>2
    <3> HIDE DEF after
    <3> QED
      BY <1>2, <1>3, <2>2, <3>2, <3>3 DEF IsAnchor
  <2> QED
    BY <2>1, <2>2
<1>10. at = Max(P)
  BY DEF RemoteStart
<1> HIDE DEF after, at, upTo, S
<1>11. at \in P /\ \A i \in P : i <= at
  <2>1. P \in SUBSET (0 .. Len(F)) /\ after \in P
    BY <1>2, <1>9
  <2> HIDE DEF P
  <2> QED
    BY <1>2, <1>10, <2>1, Greatest
<1>12. at \in after .. Len(F) /\ \A j \in after + 1 .. at : Before(op.ts, F[j].ts)
  BY <1>11
<1>13. at < Len(F) => Before(F[at + 1].ts, op.ts)
  <2> SUFFICES ASSUME at < Len(F) PROVE Before(F[at + 1].ts, op.ts)
    OBVIOUS
  <2>1. at + 1 \in after .. Len(F) /\ at + 1 \in DOMAIN F
    BY <1>2, <1>9, <1>12
  <2>2. at + 1 \notin P
    <3> HIDE DEF P
    <3> QED
      BY <1>2, <1>9, <1>11, <1>12
  <2>3. ~ Before(op.ts, F[at + 1].ts)
    BY <1>2, <1>9, <1>12, <2>1, <2>2
  <2>4. F[at + 1].ts # op.ts
    BY <2>1, NotYetThere
  <2> QED
    BY <1>4, <1>5, <2>1, <2>3, <2>4, BeforeOrder
<1> HIDE DEF P
<1>14. \A i \in DOMAIN F : Observed(V, F[i].ts) => (i <= after \/ i > at)
  BY <1>2, <1>8, <1>9, <1>12
<1>15. upTo \in at .. Len(F)
       /\ (op.end > op.start => Char(F[upTo]) = Char(W[op.end]) /\ upTo \in DOMAIN F)
       /\ (op.end = op.start => upTo = at)
  <2>1. CASE op.end = op.start
    <3>1. upTo = at
      BY <2>1 DEF upTo, at, RemoteEnd
    <3> QED
      BY <1>2, <1>3, <1>9, <1>12, <2>1, <3>1
  <2>2. CASE op.end # op.start
    <3>1. op.end \in DOMAIN W /\ op.start < op.end
      BY <1>2, <1>3, <2>2
    <3>2. PICK i \in DOMAIN F : Char(F[i]) = Char(W[op.end])
      BY <1>7, <3>1
    <3>3. upTo = i
      BY <1>6, <2>2, <3>1, <3>2 DEF upTo, RemoteEnd, S
    <3>4. Observed(V, F[i].ts)
      BY <1>7, <3>1, <3>2
    <3>5. i > after
      <4>1. CASE op.start = 0
        BY <1>2, <1>9, <4>1 DEF after
      <4>2. CASE op.start # 0
        BY <1>2, <1>3, <1>9, <3>1, <3>2, <4>2 DEF Agree
      <4> QED
        BY <4>1, <4>2
    <3>6. i > at
      BY <1>2, <1>9, <1>12, <1>14, <3>2, <3>4, <3>5
    <3> QED
      BY <1>2, <1>9, <1>12, <2>2, <3>2, <3>3, <3>6
  <2> QED
    BY <2>1, <2>2
<1>16. ASSUME NEW i \in DOMAIN F, NEW m \in DOMAIN W, Char(F[i]) = Char(W[m])
       PROVE  i \in at + 1 .. upTo <=> m \in op.start + 1 .. op.end
  <2>1. Observed(V, F[i].ts)
    BY <1>7, <1>16
  <2>2. i > after <=> m > op.start
    <3>1. CASE op.start = 0
      BY <1>2, <3>1 DEF after
    <3>2. CASE op.start # 0
      <4>1. op.start \in DOMAIN W /\ after \in DOMAIN F /\ Char(F[after]) = Char(W[op.start])
        BY <1>2, <1>3, <1>9, <3>2
      <4> QED
        BY <1>2, <1>3, <1>16, <4>1 DEF Agree
    <3> QED
      BY <3>1, <3>2
  <2>3. i > after <=> i > at
    BY <1>2, <1>9, <1>12, <1>14, <2>1
  <2>4. CASE op.end = op.start
    BY <1>2, <1>3, <1>12, <1>15, <2>2, <2>3, <2>4
  <2>5. CASE op.end # op.start
    <3>1. op.end \in DOMAIN W /\ upTo \in DOMAIN F /\ Char(F[upTo]) = Char(W[op.end])
      BY <1>2, <1>3, <1>15, <2>5
    <3>2. upTo < i <=> op.end < m
      BY <1>16, <3>1 DEF Agree
    <3> QED
      BY <1>2, <1>3, <1>9, <1>12, <1>15, <2>2, <2>3, <3>1, <3>2
  <2> QED
    BY <2>4, <2>5
<1>17. ASSUME NEW i \in DOMAIN F, NEW m \in DOMAIN W, Char(F[i]) = Char(W[m])
       PROVE  WasVisible(F[i], V, EntriesOf(w, v)) <=> W[m].visible
  BY <1>1, <1>17, WasVisibleIs DEF View
<1>18. at + 1 .. upTo \subseteq DOMAIN F /\ op.start + 1 .. op.end \subseteq DOMAIN W
  BY <1>2, <1>3, <1>9, <1>12, <1>15
<1>19. {Char(F[i]) : i \in dead} = w.erased[op.ts]
  <2>1. w.erased[op.ts] = {Char(W[m]) : m \in {k \in op.start + 1 .. op.end : W[k].visible}}
    BY <1>1 DEF EditOK
  <2>2. ASSUME NEW i \in dead PROVE Char(F[i]) \in w.erased[op.ts]
    <3>1. i \in at + 1 .. upTo /\ WasVisible(F[i], V, EntriesOf(w, v)) /\ i \in DOMAIN F
      BY <1>18
    <3>2. PICK m \in DOMAIN W : Char(F[i]) = Char(W[m])
      BY <1>7, <3>1 DEF WasVisible
    <3> QED
      BY <1>16, <1>17, <2>1, <3>1, <3>2
  <2>3. ASSUME NEW c \in w.erased[op.ts] PROVE \E i \in dead : c = Char(F[i])
    <3>1. PICK m \in op.start + 1 .. op.end : W[m].visible /\ c = Char(W[m])
      BY <2>1
    <3>2. PICK i \in DOMAIN F : Char(F[i]) = Char(W[m])
      BY <1>7, <1>18, <3>1
    <3> QED
      BY <1>16, <1>17, <1>18, <3>1, <3>2
  <2> QED
    BY <2>2, <2>3
<1>20. dead \subseteq at + 1 .. upTo
  OBVIOUS
<1> HIDE DEF dead, W, V
<1>21. Site(w, F, op, after, at, upTo, dead)
  BY <1>9, <1>12, <1>13, <1>15, <1>19, <1>20 DEF Site
<1>22. \E x \in 0 .. Len(F) : Site(w, F, op, x, at, upTo, dead)
  BY <1>9, <1>21
<1> QED
  BY <1>22 DEF at, upTo, dead, V

-----------------------------------------------------------------------------
(* What Splice does to the fragments.                                       *)

LEMMA FunSeq ==
    ASSUME NEW n \in Nat, NEW S, NEW f \in [1 .. n -> S]
    PROVE  f \in Seq(S) /\ Len(f) = n
<1>1. f \in Seq(S)
  BY SeqDef
<1>2. Len(f) \in Nat /\ DOMAIN f = 1 .. Len(f) /\ DOMAIN f = 1 .. n
  BY <1>1, LenProperties
<1> QED
  BY <1>1, <1>2

(* Where fragment i is after n fragments went in behind `at`.               *)
Moved(n, at, i) == IF i <= at THEN i ELSE i + n

(* It keeps the order, and leaves room for the new ones.                    *)
Moves(N, n, at) ==
    /\ \A i \in 1 .. N : Moved(n, at, i) \in 1 .. N + n
    /\ \A i, j \in 1 .. N : Moved(n, at, i) < Moved(n, at, j) <=> i < j
    /\ \A i, j \in 1 .. N : Moved(n, at, i) = Moved(n, at, j) => i = j
    /\ \A i \in 1 .. N, k \in 1 .. n : /\ Moved(n, at, i) < at + k <=> i <= at
                                       /\ at + k < Moved(n, at, i) <=> i > at
                                       /\ at + k # Moved(n, at, i)
    /\ \A k \in 1 .. n : at + k \in 1 .. N + n
    /\ \A x \in 1 .. N + n :
          (\E i \in 1 .. N : x = Moved(n, at, i)) \/ (\E k \in 1 .. n : x = at + k)

LEMMA MovedIs ==
    ASSUME NEW N \in Nat, NEW n \in Nat, NEW at \in 0 .. N
    PROVE  Moves(N, n, at)
<1>1. ASSUME NEW x \in 1 .. N + n
      PROVE  (\E i \in 1 .. N : x = Moved(n, at, i)) \/ (\E k \in 1 .. n : x = at + k)
  <2>1. CASE x <= at
    <3>1. x \in 1 .. N /\ x = Moved(n, at, x)
      BY <2>1 DEF Moved
    <3> QED
      BY <3>1
  <2>2. CASE x > at /\ x <= at + n
    <3>1. x - at \in 1 .. n /\ x = at + (x - at)
      BY <2>2
    <3> QED
      BY <3>1
  <2>3. CASE x > at + n
    <3>1. x - n \in 1 .. N /\ x = Moved(n, at, x - n)
      BY <2>3 DEF Moved
    <3> QED
      BY <3>1
  <2> QED
    BY <2>1, <2>2, <2>3
<1>2. \A i \in 1 .. N : Moved(n, at, i) \in 1 .. N + n
  BY DEF Moved
<1>3. \A i, j \in 1 .. N : Moved(n, at, i) < Moved(n, at, j) <=> i < j
  BY DEF Moved
<1>4. \A i, j \in 1 .. N : Moved(n, at, i) = Moved(n, at, j) => i = j
  BY DEF Moved
<1>5. \A i \in 1 .. N, k \in 1 .. n : /\ Moved(n, at, i) < at + k <=> i <= at
                                      /\ at + k < Moved(n, at, i) <=> i > at
                                      /\ at + k # Moved(n, at, i)
  BY DEF Moved
<1>6. \A k \in 1 .. n : at + k \in 1 .. N + n
  OBVIOUS
<1> QED
  BY <1>1, <1>2, <1>3, <1>4, <1>5, <1>6 DEF Moves

(* G is F with n new fragments of ts behind `at`, and `dead` deleted.       *)
Spliced(F, G, ts, n, at, dead) ==
    /\ G \in Seq(Fragments) /\ Len(G) = Len(F) + n
    /\ \A i \in 1 .. Len(F) :
          G[Moved(n, at, i)] = IF i \in dead THEN Delete(F[i], ts) ELSE F[i]
    /\ \A k \in 1 .. n : G[at + k] = NewFragments(ts, n)[k]

LEMMA DeleteIs ==
    ASSUME NEW f \in Fragments, NEW t \in Timestamps
    PROVE  /\ Delete(f, t) \in Fragments
           /\ Delete(f, t).ts = f.ts /\ Delete(f, t).off = f.off
           /\ Delete(f, t).dels = f.dels \cup {t} /\ Delete(f, t).visible = FALSE
           /\ Delete(f, t).maxUndos = f.maxUndos
BY DEF Delete, Fragments

LEMMA NewFragmentsAre ==
    ASSUME NEW n \in Nat, NEW t \in Timestamps
    PROVE  /\ NewFragments(t, n) \in [1 .. n -> Fragments]
           /\ NewFragments(t, n) \in Seq(Fragments) /\ Len(NewFragments(t, n)) = n
           /\ \A k \in 1 .. n :
                 /\ NewFragments(t, n)[k].ts = t /\ NewFragments(t, n)[k].off = k
                 /\ NewFragments(t, n)[k].dels = {} /\ NewFragments(t, n)[k].visible = TRUE
                 /\ \A q \in Replicas : NewFragments(t, n)[k].maxUndos[q] = 0
<1>1. [r \in Replicas |-> 0] \in Versions
  BY DEF Versions
<1>2. NewFragments(t, n) \in [1 .. n -> Fragments]
  BY <1>1 DEF NewFragments, Fragments
<1>3. NewFragments(t, n) \in Seq(Fragments) /\ Len(NewFragments(t, n)) = n
  BY <1>2, FunSeq
<1> QED
  BY <1>2, <1>3 DEF NewFragments

LEMMA SpliceIs ==
    ASSUME NEW F \in Seq(Fragments), NEW ts \in Timestamps, NEW n \in Nat,
           NEW at \in 0 .. Len(F), NEW upTo \in at .. Len(F), NEW dead \in SUBSET (at + 1 .. upTo)
    PROVE  Spliced(F, Splice(F, at, upTo, NewFragments(ts, n), dead, ts), ts, n, at, dead)
<1> DEFINE A == SubSeq(F, 1, at)
           B == NewFragments(ts, n)
           C == [i \in 1 .. (upTo - at) |->
                   IF at + i \in dead THEN Delete(F[at + i], ts) ELSE F[at + i]]
           D == SubSeq(F, upTo + 1, Len(F))
           G == A \o B \o C \o D
<1>1. Len(F) \in Nat /\ \A i \in 1 .. Len(F) : F[i] \in Fragments
  BY SeqParts
<1>2. at \in Nat /\ upTo \in Nat /\ at <= upTo /\ upTo <= Len(F) /\ upTo - at \in Nat
  BY <1>1
<1>3. A \in Seq(Fragments) /\ Len(A) = at /\ \A i \in 1 .. at : A[i] = F[i]
  <2>1. \A i \in 1 .. at : F[i] \in Fragments
    BY <1>1, <1>2
  <2>2. /\ A \in Seq(Fragments)
        /\ Len(A) = IF 1 <= at THEN at - 1 + 1 ELSE 0
        /\ \A i \in 1 .. at - 1 + 1 : A[i] = F[1 + i - 1]
    BY <1>2, <2>1, SubSeqProperties
  <2> HIDE DEF A
  <2> QED
    BY <1>2, <2>2
<1>4. B \in Seq(Fragments) /\ Len(B) = n
  BY NewFragmentsAre
<1>5. C \in Seq(Fragments) /\ Len(C) = upTo - at
  <2>1. \A i \in 1 .. (upTo - at) : at + i \in 1 .. Len(F)
    BY <1>1, <1>2
  <2>2. \A i \in 1 .. (upTo - at) : F[at + i] \in Fragments /\ Delete(F[at + i], ts) \in Fragments
    BY <1>1, <2>1, DeleteIs
  <2>3. C \in [1 .. (upTo - at) -> Fragments]
    BY <2>2
  <2> HIDE DEF C
  <2> QED
    BY <1>2, <2>3, FunSeq
<1>6. \A i \in 1 .. (upTo - at) :
         C[i] = IF at + i \in dead THEN Delete(F[at + i], ts) ELSE F[at + i]
  OBVIOUS
<1>7. D \in Seq(Fragments) /\ Len(D) = Len(F) - upTo /\ \A i \in 1 .. Len(F) - upTo : D[i] = F[upTo + i]
  <2>1. \A i \in upTo + 1 .. Len(F) : F[i] \in Fragments
    BY <1>1, <1>2
  <2>2. /\ D \in Seq(Fragments)
        /\ Len(D) = IF upTo + 1 <= Len(F) THEN Len(F) - (upTo + 1) + 1 ELSE 0
        /\ \A i \in 1 .. Len(F) - (upTo + 1) + 1 : D[i] = F[upTo + 1 + i - 1]
    BY <1>1, <1>2, <2>1, SubSeqProperties
  <2> HIDE DEF D
  <2> QED
    BY <1>1, <1>2, <2>2
<1>8. G = Splice(F, at, upTo, NewFragments(ts, n), dead, ts)
  BY DEF Splice
<1> HIDE DEF A, B, C, D
<1> DEFINE AB == A \o B
<1>9. /\ AB \in Seq(Fragments) /\ Len(AB) = at + n
      /\ \A i \in 1 .. at + n : AB[i] = IF i <= at THEN A[i] ELSE B[i - at]
  BY <1>3, <1>4, ConcatProperties
<1> HIDE DEF AB
<1> DEFINE ABC == AB \o C
<1>10. /\ ABC \in Seq(Fragments) /\ Len(ABC) = upTo + n
       /\ \A i \in 1 .. upTo + n : ABC[i] = IF i <= at + n THEN AB[i] ELSE C[i - (at + n)]
  <2> DEFINE m == at + n
             k == upTo - at
  <2>1. m \in Nat /\ k \in Nat /\ Len(AB) = m /\ Len(C) = k /\ m + k = upTo + n
    BY <1>1, <1>2, <1>5, <1>9
  <2> HIDE DEF m, k
  <2>2. /\ AB \o C \in Seq(Fragments) /\ Len(AB \o C) = m + k
        /\ \A i \in 1 .. m + k : (AB \o C)[i] = IF i <= m THEN AB[i] ELSE C[i - m]
    <3>1. AB \in Seq(Fragments) /\ C \in Seq(Fragments)
      BY <1>5, <1>9
    <3> QED
      BY <2>1, <3>1, ConcatProperties
  <2> QED
    BY <2>1, <2>2 DEF m
<1> HIDE DEF ABC
<1>11. /\ ABC \o D \in Seq(Fragments) /\ Len(ABC \o D) = Len(F) + n
       /\ \A i \in 1 .. Len(F) + n :
             (ABC \o D)[i] = IF i <= upTo + n THEN ABC[i] ELSE D[i - (upTo + n)]
  <2> DEFINE m == upTo + n
             k == Len(F) - upTo
  <2>1. m \in Nat /\ k \in Nat /\ Len(ABC) = m /\ Len(D) = k /\ m + k = Len(F) + n
    BY <1>1, <1>2, <1>7, <1>10
  <2> HIDE DEF m, k
  <2>2. /\ ABC \o D \in Seq(Fragments) /\ Len(ABC \o D) = m + k
        /\ \A i \in 1 .. m + k : (ABC \o D)[i] = IF i <= m THEN ABC[i] ELSE D[i - m]
    <3>1. ABC \in Seq(Fragments) /\ D \in Seq(Fragments)
      BY <1>7, <1>10
    <3> QED
      BY <2>1, <3>1, ConcatProperties
  <2> QED
    BY <2>1, <2>2 DEF m
<1>12. G = ABC \o D
  BY DEF ABC, AB
<1> HIDE DEF G
<1>13. ASSUME NEW k \in 1 .. n PROVE G[at + k] = B[k]
  <2>1. at + k \in 1 .. Len(F) + n /\ at + k <= upTo + n /\ at + k \in 1 .. upTo + n /\ at + k <= at + n
        /\ at + k \in 1 .. at + n /\ ~ (at + k <= at) /\ at + k - at = k
    BY <1>1, <1>2
  <2> QED
    BY <1>9, <1>10, <1>11, <1>12, <2>1
<1>14. ASSUME NEW i \in 1 .. Len(F)
       PROVE  G[Moved(n, at, i)] = IF i \in dead THEN Delete(F[i], ts) ELSE F[i]
  <2>1. CASE i <= at
    <3>1. i \in 1 .. Len(F) + n /\ i <= upTo + n /\ i \in 1 .. upTo + n /\ i <= at + n
          /\ i \in 1 .. at + n /\ i \in 1 .. at /\ i \notin dead
      BY <1>1, <1>2, <2>1
    <3>2. G[i] = F[i]
      BY <1>3, <1>9, <1>10, <1>11, <1>12, <3>1
    <3> QED
      BY <2>1, <3>1, <3>2 DEF Moved
  <2>2. CASE i > at /\ i <= upTo
    <3>1. i + n \in 1 .. Len(F) + n /\ i + n <= upTo + n /\ i + n \in 1 .. upTo + n /\ ~ (i + n <= at + n)
          /\ i + n - (at + n) = i - at /\ i - at \in 1 .. (upTo - at) /\ at + (i - at) = i
      BY <1>1, <1>2, <2>2
    <3>2. G[i + n] = ABC[i + n]
      BY <1>11, <1>12, <3>1
    <3>3. ABC[i + n] = C[i + n - (at + n)]
      BY <1>10, <3>1
    <3>4. Moved(n, at, i) = i + n
      BY <1>2, <2>2 DEF Moved
    <3> QED
      BY <1>6, <3>1, <3>2, <3>3, <3>4
  <2>3. CASE i > upTo
    <3>1. i + n \in 1 .. Len(F) + n /\ ~ (i + n <= upTo + n) /\ i + n - (upTo + n) = i - upTo
          /\ i - upTo \in 1 .. Len(F) - upTo /\ upTo + (i - upTo) = i /\ i \notin dead
      BY <1>1, <1>2, <2>3
    <3>2. G[i + n] = F[i]
      BY <1>7, <1>11, <1>12, <3>1
    <3>3. Moved(n, at, i) = i + n
      BY <1>2, <2>3 DEF Moved
    <3> QED
      BY <3>1, <3>2, <3>3
  <2> QED
    BY <1>1, <1>2, <2>1, <2>2, <2>3
<1>15. Spliced(F, G, ts, n, at, dead)
  BY <1>11, <1>12, <1>13, <1>14 DEF Spliced, B
<1> QED
  BY <1>8, <1>15

-----------------------------------------------------------------------------
(* What an edit makes of each fragment.                                     *)

LEMMA EditCovers ==
    ASSUME NEW w, WorldOK(w), NEW v, Sound(w, v), NEW op \in w.ops, op.kind = "edit",
           ObservedAll(v, op.version)
    PROVE  LET x == Observe(v, op.ts)
           IN  /\ EntriesOf(w, x) = EntriesOf(w, v)
               /\ \A c : c \in CharsOf(w, x) <=>
                            c \in CharsOf(w, v) \/ \E k \in 1 .. op.len : c = <<op.ts, k>>
               /\ \A c, q, m : LastTouch(w, v, c, q, m) => LastTouch(w, x, c, q, m)
               /\ Stamps(Covered(w, x)) = Stamps(Covered(w, v)) \cup {op.ts}
<1> DEFINE x == Observe(v, op.ts)
<1>1. Covered(w, x) = Covered(w, v) \cup {op}
  BY CoverOne
<1> HIDE DEF x
<1>2. EntriesOf(w, x) = EntriesOf(w, v)
  <2>1. \A p \in Covered(w, x) : p.kind = "undo" => p \in Covered(w, v)
    BY <1>1
  <2>2. Covered(w, v) \subseteq Covered(w, x)
    BY <1>1
  <2>3. {o \in Covered(w, x) : o.kind = "undo"} = {o \in Covered(w, v) : o.kind = "undo"}
    BY <2>1, <2>2
  <2> QED
    BY <2>3 DEF EntriesOf
<1>3. ASSUME NEW c
      PROVE  c \in CharsOf(w, x) <=> c \in CharsOf(w, v) \/ \E k \in 1 .. op.len : c = <<op.ts, k>>
  <2>1. ASSUME c \in CharsOf(w, x)
        PROVE  c \in CharsOf(w, v) \/ \E k \in 1 .. op.len : c = <<op.ts, k>>
    <3>1. c = <<c[1], c[2]>>
      BY <2>1, CharsArePairs
    <3>2. CASE c[1] = BaseTs /\ c[2] \in 1 .. BaseLength
      BY <3>1, <3>2, CharsAre
    <3>3. ASSUME NEW p \in Covered(w, x), p.kind = "edit", p.ts = c[1], c[2] \in 1 .. p.len
          PROVE  c \in CharsOf(w, v) \/ \E k \in 1 .. op.len : c = <<op.ts, k>>
      <4>1. CASE p = op
        BY <3>1, <3>3, <4>1
      <4>2. CASE p \in Covered(w, v)
        BY <3>1, <3>3, <4>2, CharsAre
      <4> QED
        BY <1>1, <4>1, <4>2
    <3> QED
      BY <2>1, <3>1, <3>2, <3>3, CharsAre
  <2>2. ASSUME c \in CharsOf(w, v) PROVE c \in CharsOf(w, x)
    BY <1>1, <2>2, CharsGrow
  <2>3. ASSUME NEW k \in 1 .. op.len, c = <<op.ts, k>> PROVE c \in CharsOf(w, x)
    BY <1>1, <2>3, CharsAre
  <2> QED
    BY <2>1, <2>2, <2>3
<1>4. ASSUME NEW c, NEW q, NEW m, LastTouch(w, v, c, q, m) PROVE LastTouch(w, x, c, q, m)
  <2>1. ~ Touches(w, op, c)
    BY DEF Touches
  <2> QED
    BY <1>1, <1>4, <2>1 DEF LastTouch
<1>5. Stamps(Covered(w, x)) = Stamps(Covered(w, v)) \cup {op.ts}
  BY <1>1 DEF Stamps
<1> QED
  BY <1>2, <1>3, <1>4, <1>5 DEF x

LEMMA EditKeeps ==
    ASSUME NEW w, WorldOK(w), NEW v, Sound(w, v), NEW op \in w.ops, op.kind = "edit",
           op \notin Covered(w, v), ObservedAll(v, op.version),
           NEW f \in Fragments, Kept(w, v, f)
    PROVE  IF Char(f) \in w.erased[op.ts] THEN Kept(w, Observe(v, op.ts), Delete(f, op.ts))
           ELSE Kept(w, Observe(v, op.ts), f)
<1> DEFINE x == Observe(v, op.ts)
           c == Char(f)
           g == Delete(f, op.ts)
<1>1. /\ EntriesOf(w, x) = EntriesOf(w, v)
      /\ c \in CharsOf(w, x)
      /\ \A q, m : LastTouch(w, v, c, q, m) => LastTouch(w, x, c, q, m)
      /\ Stamps(Covered(w, x)) = Stamps(Covered(w, v)) \cup {op.ts}
  BY EditCovers DEF Kept
<1>2. op.ts \in Timestamps
  BY OpTyped
<1>3. /\ g.ts = f.ts /\ g.off = f.off /\ g.dels = f.dels \cup {op.ts} /\ g.visible = FALSE
      /\ g.maxUndos = f.maxUndos
  BY <1>2, DeleteIs
<1>4. Char(g) = c
  BY <1>3, CharIs
<1>5. /\ f.dels = {t \in Stamps(Covered(w, v)) : c \in w.erased[t]}
      /\ f.visible = IsVisible(f, EntriesOf(w, v))
      /\ \A q \in Replicas : LastTouch(w, v, c, q, f.maxUndos[q])
  BY DEF Kept
<1>6. ~ IsUndone(EntriesOf(w, v), op.ts)
  BY NotYetUndone
<1> HIDE DEF x, c, g
<1>7. CASE c \in w.erased[op.ts]
  <2>1. g.dels = {t \in Stamps(Covered(w, x)) : c \in w.erased[t]}
    BY <1>1, <1>3, <1>5, <1>7
  <2>2. ~ IsVisible(g, EntriesOf(w, x))
    BY <1>1, <1>3, <1>6 DEF IsVisible
  <2>3. Kept(w, x, g)
    <3>1. g.visible = IsVisible(g, EntriesOf(w, x))
      BY <1>3, <2>2 DEF IsVisible
    <3> QED
      BY <1>1, <1>3, <1>4, <1>5, <2>1, <3>1 DEF Kept
  <2> QED
    BY <1>7, <2>3 DEF x, c, g
<1>8. CASE c \notin w.erased[op.ts]
  <2>1. f.dels = {t \in Stamps(Covered(w, x)) : c \in w.erased[t]}
    BY <1>1, <1>5, <1>8
  <2>2. Kept(w, x, f)
    BY <1>1, <1>5, <2>1 DEF Kept, c
  <2> QED
    BY <1>8, <2>2 DEF x, c
<1> QED
  BY <1>7, <1>8

LEMMA EditBrings ==
    ASSUME NEW w, WorldOK(w), NEW v, Sound(w, v), NEW op \in w.ops, op.kind = "edit",
           op \notin Covered(w, v), ObservedAll(v, op.version),
           op.len \in Nat, NEW k \in 1 .. op.len
    PROVE  Kept(w, Observe(v, op.ts), NewFragments(op.ts, op.len)[k])
<1> DEFINE x == Observe(v, op.ts)
           f == NewFragments(op.ts, op.len)[k]
           c == <<op.ts, k>>
<1>1. /\ EntriesOf(w, x) = EntriesOf(w, v)
      /\ c \in CharsOf(w, x)
      /\ Covered(w, x) = Covered(w, v) \cup {op}
  BY EditCovers, CoverOne
<1>2. op.ts \in Timestamps
  BY OpTyped
<1>3. /\ f.ts = op.ts /\ f.off = k /\ f.dels = {} /\ f.visible = TRUE
      /\ \A q \in Replicas : f.maxUndos[q] = 0
  BY DEF NewFragments
<1>4. Char(f) = c
  BY <1>3, CharIs
<1>5. ~ IsUndone(EntriesOf(w, v), op.ts)
  BY NotYetUndone
<1>6. \A p \in Covered(w, x) : c \notin w.erased[p.ts]
  BY <1>1, NotYetErased
<1> HIDE DEF x, f
<1>7. f.dels = {t \in Stamps(Covered(w, x)) : c \in w.erased[t]}
  BY <1>3, <1>6 DEF Stamps
<1>8. IsVisible(f, EntriesOf(w, x))
  BY <1>1, <1>3, <1>5 DEF IsVisible
<1>9. ASSUME NEW p \in Covered(w, x) PROVE ~ Touches(w, p, c)
  <2> SUFFICES ASSUME p.kind = "undo", NEW e \in DOMAIN p.counts, c[1] = e \/ c \in w.erased[e]
               PROVE  FALSE
    BY DEF Touches
  <2>1. p \in Covered(w, v)
    BY <1>1
  <2>2. e # op.ts
    BY <2>1, NotYetUndone
  <2>3. c \in w.erased[e]
    BY <2>2
  <2>4. p \in w.ops /\ UndoOK(w, p)
    BY <2>1 DEF Covered, WorldOK, OpOK
  <2>5. PICK o \in Covered(w, p.version) : o.ts = e
    BY <2>4 DEF UndoOK, Stamps
  <2>6. o \in Covered(w, v)
    BY <2>1, <2>5, CoveredClosed
  <2> QED
    BY <1>1, <1>6, <2>3, <2>5, <2>6
<1>10. \A q \in Replicas : LastTouch(w, x, c, q, f.maxUndos[q])
  BY <1>3, <1>9 DEF LastTouch
<1>11. Kept(w, x, f)
  BY <1>1, <1>3, <1>4, <1>7, <1>8, <1>10 DEF Kept
<1> QED
  BY <1>11 DEF x, f

-----------------------------------------------------------------------------
(* Where an edit is placed, and why every view agrees on it.                *)

LEMMA AnchorSame ==
    ASSUME NEW w, WorldOK(w), NEW F, NEW H, NEW t, NEW j, NEW k,
           IsAnchor(w, F, t, j), IsAnchor(w, H, t, k)
    PROVE  (j = 0 <=> k = 0) /\ (j # 0 => Char(F[j]) = Char(H[k]))
<1>1. \A op \in w.ops : op.ts # BaseTs
  BY OpTyped
<1>2. \A o, p \in w.ops : o.ts = p.ts => o = p
  BY DEF WorldOK
<1> QED
  BY <1>1, <1>2 DEF IsAnchor

(* An insertion is later than every character its author had.               *)
LEMMA KnownIsBefore ==
    ASSUME NEW w, WorldOK(w), NEW op \in w.ops, NEW c \in CharsOf(w, op.version)
    PROVE  Before(c[1], op.ts)
<1>1. op.ts[1] \in Nat /\ op.ts[1] > 1 /\ op.version \in Versions
      /\ \A q \in Replicas : op.version[q] < op.ts[1]
  BY OpTyped
<1>2. c = <<c[1], c[2]>>
  BY CharsArePairs
<1>3. CASE c[1] = BaseTs
  BY <1>1, <1>3, BaseIs DEF Before
<1>4. ASSUME NEW p \in Covered(w, op.version), p.ts = c[1] PROVE Before(c[1], op.ts)
  <2>1. p \in w.ops /\ p.ts[1] \in Nat /\ p.ts[2] \in Replicas
    BY OpTyped DEF Covered
  <2>2. op.version[p.ts[2]] >= p.ts[1]
    BY DEF Covered, Observed
  <2> QED
    BY <1>1, <1>4, <2>1, <2>2 DEF Before, Versions
<1> QED
  BY <1>2, <1>3, <1>4, CharsAre

(* What Spliced says of the characters.                                     *)
LEMMA SplicedChars ==
    ASSUME NEW F \in Seq(Fragments), NEW G, NEW ts \in Timestamps, NEW n \in Nat,
           NEW at \in 0 .. Len(F), NEW dead, Spliced(F, G, ts, n, at, dead)
    PROVE  /\ \A i \in 1 .. Len(F) :
                 /\ G[Moved(n, at, i)].ts = F[i].ts /\ G[Moved(n, at, i)].off = F[i].off
                 /\ Char(G[Moved(n, at, i)]) = Char(F[i])
           /\ \A k \in 1 .. n : /\ G[at + k].ts = ts /\ G[at + k].off = k
                                /\ Char(G[at + k]) = <<ts, k>>
<1>1. \A i \in 1 .. Len(F) : F[i] \in Fragments
  BY SeqParts
<1>2. ASSUME NEW i \in 1 .. Len(F)
      PROVE  G[Moved(n, at, i)].ts = F[i].ts /\ G[Moved(n, at, i)].off = F[i].off
  <2>1. G[Moved(n, at, i)] = IF i \in dead THEN Delete(F[i], ts) ELSE F[i]
    BY DEF Spliced
  <2>2. Delete(F[i], ts).ts = F[i].ts /\ Delete(F[i], ts).off = F[i].off
    BY <1>1, DeleteIs
  <2> QED
    BY <2>1, <2>2
<1>3. ASSUME NEW k \in 1 .. n PROVE G[at + k].ts = ts /\ G[at + k].off = k
  <2>1. G[at + k] = NewFragments(ts, n)[k]
    BY DEF Spliced
  <2>2. NewFragments(ts, n)[k].ts = ts /\ NewFragments(ts, n)[k].off = k
    BY DEF NewFragments
  <2> QED
    BY <2>1, <2>2
<1> QED
  BY <1>2, <1>3, CharIs

LEMMA InsertView ==
    ASSUME NEW w, WorldOK(w), NEW F, NEW v, View(w, F, v), Sound(w, v),
           NEW op \in w.ops, op.kind = "edit", op \notin Covered(w, v), ObservedAll(v, op.version),
           NEW after, NEW at, NEW upTo, NEW dead, Site(w, F, op, after, at, upTo, dead),
           NEW G, Spliced(F, G, op.ts, op.len, at, dead)
    PROVE  View(w, G, Observe(v, op.ts))
<1> DEFINE n == op.len
           t == op.ts
           N == Len(F)
           M(i) == Moved(n, at, i)
           x == Observe(v, t)
<1>1. n \in Nat /\ t \in Timestamps
  BY OpTyped DEF WorldOK, OpOK, EditOK
<1>2. F \in Seq(Fragments) /\ N \in Nat /\ DOMAIN F = 1 .. N /\ \A i \in 1 .. N : F[i] \in Fragments
  BY SeqParts DEF View
<1>3. after \in 0 .. N /\ at \in 0 .. N /\ after <= at
  BY <1>2 DEF Site
<1>4. G \in Seq(Fragments) /\ Len(G) = N + n /\ DOMAIN G = 1 .. N + n
  BY SeqParts DEF Spliced
<1>5. /\ \A i \in 1 .. N : G[M(i)].ts = F[i].ts /\ G[M(i)].off = F[i].off /\ Char(G[M(i)]) = Char(F[i])
      /\ \A k \in 1 .. n : G[at + k].ts = t /\ G[at + k].off = k /\ Char(G[at + k]) = <<t, k>>
  BY <1>1, <1>2, <1>3, SplicedChars
<1>6. /\ \A i \in 1 .. N : M(i) \in 1 .. N + n
      /\ \A i, j \in 1 .. N : M(i) < M(j) <=> i < j
      /\ \A i, j \in 1 .. N : M(i) = M(j) => i = j
      /\ \A i \in 1 .. N, k \in 1 .. n : /\ M(i) < at + k <=> i <= at
                                         /\ at + k < M(i) <=> i > at
                                         /\ at + k # M(i)
      /\ \A k \in 1 .. n : at + k \in 1 .. N + n
      /\ \A y \in 1 .. N + n : (\E i \in 1 .. N : y = M(i)) \/ (\E k \in 1 .. n : y = at + k)
  <2>1. n \in Nat /\ N \in Nat /\ at \in 0 .. N
    BY <1>1, <1>2, <1>3
  <2>2. Moves(N, n, at)
    BY <2>1, MovedIs
  <2> QED
    BY <2>2 DEF Moves
<1>7. \A i \in 1 .. N : F[i].ts # t
  BY <1>2, NotYetThere
<1>8. \A i \in 1 .. N : i \in dead <=> Char(F[i]) \in w.erased[t]
  <2>1. w.erased[t] = {Char(F[i]) : i \in dead} /\ dead \subseteq 1 .. N
    BY <1>2, <1>3 DEF Site
  <2>2. \A i, j \in 1 .. N : Char(F[i]) = Char(F[j]) => i = j
    BY <1>2 DEF View
  <2> QED
    BY <2>1, <2>2
<1>9. /\ \A i \in 1 .. N : G[M(i)] = IF i \in dead THEN Delete(F[i], t) ELSE F[i]
      /\ \A k \in 1 .. n : G[at + k] = NewFragments(t, n)[k]
  BY DEF Spliced
<1>10. ASSUME NEW y \in DOMAIN G PROVE Kept(w, x, G[y])
  <2>1. ASSUME NEW i \in 1 .. N, y = M(i) PROVE Kept(w, x, G[y])
    <3>1. Kept(w, v, F[i]) /\ F[i] \in Fragments
      BY <1>2 DEF View
    <3>2. IF Char(F[i]) \in w.erased[t] THEN Kept(w, x, Delete(F[i], t)) ELSE Kept(w, x, F[i])
      BY <3>1, EditKeeps
    <3> QED
      BY <1>8, <1>9, <2>1, <3>2
  <2>2. ASSUME NEW k \in 1 .. n, y = at + k PROVE Kept(w, x, G[y])
    BY <1>1, <1>9, <2>2, EditBrings
  <2> QED
    BY <1>4, <1>6, <2>1, <2>2
<1>11. ASSUME NEW c \in CharsOf(w, x) PROVE \E y \in DOMAIN G : Char(G[y]) = c
  <2>1. CASE c \in CharsOf(w, v)
    <3>1. PICK i \in 1 .. N : Char(F[i]) = c
      BY <1>2, <2>1 DEF View
    <3> QED
      BY <1>4, <1>5, <1>6, <3>1
  <2>2. ASSUME NEW k \in 1 .. n, c = <<t, k>> PROVE \E y \in DOMAIN G : Char(G[y]) = c
    BY <1>4, <1>5, <1>6, <2>2
  <2> QED
    BY <2>1, <2>2, EditCovers
<1>12. ASSUME NEW y \in DOMAIN G, NEW z \in DOMAIN G, Char(G[y]) = Char(G[z]) PROVE y = z
  <2>1. G[y].ts = G[z].ts /\ G[y].off = G[z].off
    BY <1>12, CharIs
  <2>2. CASE G[y].ts = t
    <3>1. \A i \in 1 .. N : y # M(i) /\ z # M(i)
      <4> SUFFICES ASSUME NEW i \in 1 .. N, y = M(i) \/ z = M(i) PROVE FALSE
        OBVIOUS
      <4>1. G[M(i)].ts = F[i].ts /\ F[i].ts # t
        BY <1>5, <1>7
      <4> HIDE DEF M, t
      <4> QED
        BY <2>1, <2>2, <4>1
    <3>2. PICK k \in 1 .. n, l \in 1 .. n : y = at + k /\ z = at + l
      BY <1>4, <1>6, <3>1
    <3> QED
      BY <1>5, <2>1, <3>2
  <2>3. CASE G[y].ts # t
    <3>1. \A k \in 1 .. n : y # at + k /\ z # at + k
      BY <1>5, <2>1, <2>3
    <3>2. PICK i \in 1 .. N, j \in 1 .. N : y = M(i) /\ z = M(j)
      BY <1>4, <1>6, <3>1
    <3>3. Char(F[i]) = Char(F[j])
      BY <1>5, <1>12, <3>2
    <3>4. i = j
      BY <1>2, <3>3 DEF View
    <3> QED
      BY <3>2, <3>4
  <2> QED
    BY <2>2, <2>3
<1>13. M(0) = 0 /\ M(after) = after /\ \A i \in 1 .. at : M(i) = i
  BY <1>3 DEF Moved
<1>14. ASSUME NEW i \in 0 .. N, NEW s, IsAnchor(w, F, s, i) PROVE IsAnchor(w, G, s, M(i))
  <2>1. CASE i = 0
    BY <1>13, <1>14, <2>1 DEF IsAnchor
  <2>2. CASE i # 0
    <3>1. i \in 1 .. N /\ M(i) # 0
      BY <1>2, <1>6, <2>2
    <3> HIDE DEF M
    <3> QED
      BY <1>5, <1>14, <2>2, <3>1 DEF IsAnchor
  <2> QED
    BY <2>1, <2>2
<1> HIDE DEF M
<1>15. ASSUME NEW k \in 1 .. n PROVE Placed(w, G, at + k)
  <2>1. IsAnchor(w, G, t, after)
    <3>1. IsAnchor(w, F, t, after)
      BY DEF Site
    <3> QED
      BY <1>3, <1>13, <1>14, <3>1
  <2>2. ASSUME NEW y \in after + 1 .. at + k - 1 PROVE Higher(G[y], G[at + k])
    <3>1. CASE y <= at
      <4>1. y \in 1 .. N /\ M(y) = y /\ y \in after + 1 .. at
        BY <1>2, <1>3, <1>13, <3>1
      <4>2. Before(t, F[y].ts)
        BY <4>1 DEF Site
      <4>3. G[y].ts = F[y].ts /\ G[at + k].ts = t
        BY <1>5, <4>1
      <4> QED
        BY <4>2, <4>3 DEF Higher
    <3>2. CASE y > at
      <4>1. y - at \in 1 .. n /\ y - at < k /\ at + (y - at) = y
        BY <1>1, <1>3, <3>2
      <4>2. G[y].ts = t /\ G[y].off = y - at /\ G[at + k].ts = t /\ G[at + k].off = k
        BY <1>5, <4>1
      <4> QED
        BY <4>1, <4>2 DEF Higher
    <3> QED
      BY <1>3, <3>1, <3>2
  <2>3. after \in 0 .. at + k - 1 /\ G[at + k].ts = t
    BY <1>3, <1>5
  <2> DEFINE z == at + k
  <2>4. IsAnchor(w, G, G[z].ts, after) /\ after \in 0 .. z - 1
        /\ \A y \in after + 1 .. z - 1 : Higher(G[y], G[z])
    <3>1. IsAnchor(w, G, G[z].ts, after)
      <4>1. G[z].ts = t
        BY <2>3
      <4> HIDE DEF z, t
      <4> QED
        BY <2>1, <4>1
    <3>2. ASSUME NEW y \in after + 1 .. z - 1 PROVE Higher(G[y], G[z])
      <4>1. after + 1 .. z - 1 = after + 1 .. at + k - 1
        BY <1>1, <1>2, <1>3
      <4>2. \A u \in after + 1 .. at + k - 1 : Higher(G[u], G[at + k])
        BY <2>2, Zenon
      <4>3. Higher(G[y], G[at + k])
        BY <3>2, <4>1, <4>2, Zenon
      <4> QED
        BY <4>3
    <3> QED
      BY <1>1, <1>3, <2>3, <3>1, <3>2
  <2> HIDE DEF z
  <2>5. Placed(w, G, z)
    BY <2>4 DEF Placed
  <2> QED
    BY <2>5 DEF z
<1>16. ASSUME NEW i \in 1 .. N PROVE Placed(w, G, M(i))
  <2>1. PICK j \in 0 .. i - 1 : /\ IsAnchor(w, F, F[i].ts, j)
                                /\ \A k \in j + 1 .. i - 1 : Higher(F[k], F[i])
    BY <1>2 DEF View, Placed
  <2>2. j \in 0 .. N /\ IsAnchor(w, G, G[M(i)].ts, M(j))
    BY <1>2, <1>5, <1>14, <2>1
  <2>3. M(j) \in 0 .. M(i) - 1
    BY <1>2, <1>3, <1>6, <1>13, <2>1, <2>2
  <2>4. ASSUME NEW y \in M(j) + 1 .. M(i) - 1 PROVE Higher(G[y], G[M(i)])
    <3>1. y \in 1 .. N + n /\ y < M(i) /\ M(j) < y
      BY <1>1, <1>2, <1>6, <2>3
    <3>2. ASSUME NEW l \in 1 .. N, y = M(l) PROVE Higher(G[y], G[M(i)])
      <4>1. l < i
        BY <1>6, <3>1, <3>2
      <4>2. j < l
        BY <1>2, <1>6, <1>13, <2>1, <3>1, <3>2
      <4>3. Higher(F[l], F[i])
        BY <2>1, <4>1, <4>2
      <4> QED
        BY <1>5, <3>2, <4>3 DEF Higher
    <3>3. ASSUME NEW k \in 1 .. n, y = at + k PROVE Higher(G[y], G[M(i)])
      <4>1. at < i
        BY <1>6, <3>1, <3>3
      <4>2. j <= at
        <5>1. CASE j = 0
          BY <1>3, <5>1
        <5>2. CASE j # 0
          BY <1>2, <1>6, <2>1, <3>1, <3>3, <5>2
        <5> QED
          BY <5>1, <5>2
      <4>3. \A l \in 1 .. N : F[l].ts \in Timestamps
        BY <1>2 DEF Fragments
      <4>4. ASSUME NEW d \in 1 .. N, Before(F[d].ts, t), d = i \/ Higher(F[d], F[i])
            PROVE  Before(F[i].ts, t)
        BY <1>1, <4>3, <4>4, BeforeOrder DEF Higher
      <4>5. CASE j >= after
        <5>1. at + 1 \in 1 .. N /\ at < N
          BY <1>2, <1>3, <4>1
        <5>2. Before(F[at + 1].ts, t)
          BY <5>1 DEF Site
        <5>3. at + 1 = i \/ at + 1 \in j + 1 .. i - 1
          BY <1>2, <1>3, <2>1, <4>1, <4>2
        <5>4. Before(F[i].ts, t)
          BY <2>1, <4>4, <5>1, <5>2, <5>3
        <5> QED
          BY <1>5, <3>3, <5>4 DEF Higher
      <4>6. CASE j < after
        <5>1. after \in 1 .. N /\ after \in j + 1 .. i - 1
          BY <1>2, <1>3, <2>1, <4>1, <4>6
        <5>2. Higher(F[after], F[i])
          BY <2>1, <5>1
        <5>3. op.start > 0 /\ Char(F[after]) = Char(w.seen[t][op.start])
          <6>1. IsAnchor(w, F, t, after)
            BY DEF Site
          <6> QED
            BY <5>1, <6>1 DEF IsAnchor, WorldOK
        <5>4. View(w, w.seen[t], op.version) /\ EditOK(w, op)
          BY DEF WorldOK, OpOK
        <5>5. op.start \in DOMAIN w.seen[t]
          <6>1. w.seen[t] \in Seq(Fragments)
            BY <5>4 DEF View
          <6>2. Len(w.seen[t]) \in Nat /\ DOMAIN w.seen[t] = 1 .. Len(w.seen[t])
            BY <6>1, SeqParts
          <6> QED
            BY <5>3, <5>4, <6>2 DEF EditOK
        <5>6. Char(F[after]) \in CharsOf(w, op.version) /\ Char(F[after])[1] = F[after].ts
          BY <5>3, <5>4, <5>5, CharIs DEF View, Kept
        <5>7. Before(F[after].ts, t)
          BY <5>6, KnownIsBefore
        <5>8. Before(F[i].ts, t)
          BY <4>4, <5>1, <5>2, <5>7
        <5> QED
          BY <1>5, <3>3, <5>8 DEF Higher
      <4> QED
        BY <1>3, <2>1, <4>5, <4>6
    <3> QED
      BY <1>6, <3>1, <3>2, <3>3
  <2> QED
    BY <2>2, <2>3, <2>4 DEF Placed
<1>17. \A y \in DOMAIN G : Placed(w, G, y)
  BY <1>4, <1>6, <1>15, <1>16
<1> QED
  BY <1>4, <1>10, <1>11, <1>12, <1>17 DEF View, x

(* A new character is on the same side of a shared one in F and in H.       *)
LEMMA InsertSide ==
    ASSUME NEW w, WorldOK(w), NEW F, NEW v, View(w, F, v), Sound(w, v),
           NEW op \in w.ops, op.kind = "edit", op \notin Covered(w, v),
           NEW after, NEW at, NEW upTo, NEW dead, Site(w, F, op, after, at, upTo, dead),
           NEW H, NEW u, View(w, H, u), Agree(F, H),
           NEW l \in DOMAIN H, H[l].ts = op.ts
    PROVE  \A i \in DOMAIN F, p \in DOMAIN H :
              Char(F[i]) = Char(H[p]) => (i <= at => p < l) /\ (i > at => l < p)
<1> DEFINE t == op.ts
           N == Len(F)
<1>1. N \in Nat /\ DOMAIN F = 1 .. N /\ \A i \in 1 .. N : F[i] \in Fragments
  BY SeqParts DEF View
<1>2. Len(H) \in Nat /\ DOMAIN H = 1 .. Len(H)
  BY SeqParts DEF View
<1>3. after \in 0 .. N /\ at \in 0 .. N /\ after <= at /\ IsAnchor(w, F, t, after)
      /\ (\A j \in after + 1 .. at : Before(t, F[j].ts))
      /\ (at < N => Before(F[at + 1].ts, t))
  BY <1>1 DEF Site
<1>4. t \in Timestamps /\ \A i \in 1 .. N : F[i].ts \in Timestamps /\ F[i].ts # t
  BY <1>1, OpTyped, NotYetThere DEF Fragments
<1>5. PICK a \in 0 .. l - 1 : IsAnchor(w, H, t, a) /\ \A y \in a + 1 .. l - 1 : Higher(H[y], H[l])
  BY DEF View, Placed
<1>6. (after = 0 <=> a = 0) /\ (after # 0 => Char(F[after]) = Char(H[a]))
  BY <1>3, <1>5, AnchorSame
<1>7. ASSUME NEW i \in 1 .. N, NEW p \in DOMAIN H, Char(F[i]) = Char(H[p])
      PROVE  /\ i <= after <=> p <= a
             /\ F[i].ts = H[p].ts /\ p # l
  <2>1. F[i].ts = H[p].ts
    BY <1>7, CharIs
  <2>2. CASE after = 0
    BY <1>2, <1>4, <1>6, <2>1, <2>2
  <2>3. CASE after # 0
    <3>1. after \in DOMAIN F /\ a \in DOMAIN H /\ Char(F[after]) = Char(H[a])
      BY <1>1, <1>2, <1>3, <1>5, <1>6, <2>3
    <3>2. after < i <=> a < p
      BY <1>1, <1>7, <3>1 DEF Agree
    <3> QED
      BY <1>1, <1>2, <1>3, <1>4, <2>1, <3>1, <3>2
  <2> QED
    BY <2>2, <2>3
(* The anchor of a shared character is shared.                              *)
<1>8. ASSUME NEW i \in 1 .. N, NEW p \in DOMAIN H, Char(F[i]) = Char(H[p])
      PROVE  \E j \in 0 .. i - 1, k \in 0 .. p - 1 :
                /\ j = 0 <=> k = 0
                /\ j # 0 => j \in 1 .. N /\ k \in DOMAIN H /\ Char(F[j]) = Char(H[k])
                /\ \A y \in j + 1 .. i - 1 : Higher(F[y], F[i])
                /\ \A y \in k + 1 .. p - 1 : Higher(H[y], H[p])
  <2>1. F[i].ts = H[p].ts
    BY <1>7, <1>8
  <2>2. PICK j \in 0 .. i - 1 : IsAnchor(w, F, F[i].ts, j) /\ \A y \in j + 1 .. i - 1 : Higher(F[y], F[i])
    BY <1>1 DEF View, Placed
  <2>3. PICK k \in 0 .. p - 1 : IsAnchor(w, H, F[i].ts, k) /\ \A y \in k + 1 .. p - 1 : Higher(H[y], H[p])
    BY <2>1 DEF View, Placed
  <2>4. (j = 0 <=> k = 0) /\ (j # 0 => Char(F[j]) = Char(H[k]))
    BY <2>2, <2>3, AnchorSame
  <2>5. j # 0 => j \in 1 .. N /\ k \in DOMAIN H
    BY <1>1, <1>2, <2>4
  <2> QED
    BY <2>2, <2>3, <2>4, <2>5
(* What was skipped comes before it.                                        *)
<1>9. ASSUME NEW i \in after + 1 .. at, NEW p \in DOMAIN H, Char(F[i]) = Char(H[p])
      PROVE  p < l
  <2> DEFINE Bad == {j \in after + 1 .. at : \E q \in DOMAIN H : Char(F[j]) = Char(H[q]) /\ l < q}
  <2> SUFFICES ASSUME Bad /= {} PROVE FALSE
    <3>1. i \in 1 .. N
      BY <1>1, <1>3
    <3>2. p # l
      BY <1>7, <1>9, <3>1
    <3> QED
      BY <1>2, <1>9, <3>2
  <2>1. Bad \subseteq Nat
    BY <1>3
  <2>2. PICK b \in Bad : \A j \in Bad : b <= j
    <3> HIDE DEF Bad
    <3> QED
      BY <2>1, Least
  <2>3. b \in after + 1 .. at /\ b \in 1 .. N /\ Before(t, F[b].ts)
    BY <1>1, <1>3, <2>2
  <2>4. PICK q \in DOMAIN H : Char(F[b]) = Char(H[q]) /\ l < q
    BY <2>2
  <2>5. PICK j \in 0 .. b - 1, k \in 0 .. q - 1 :
                /\ j = 0 <=> k = 0
                /\ j # 0 => j \in 1 .. N /\ k \in DOMAIN H /\ Char(F[j]) = Char(H[k])
                /\ \A y \in j + 1 .. b - 1 : Higher(F[y], F[b])
                /\ \A y \in k + 1 .. q - 1 : Higher(H[y], H[q])
    BY <1>8, <2>3, <2>4
  <2>6. ~ Higher(H[l], H[q])
    <3>1. H[q].ts = F[b].ts
      BY <1>7, <2>3, <2>4
    <3> QED
      BY <1>4, <2>3, <3>1, BeforeOrder DEF Higher
  <2>7. l <= k
    BY <1>2, <2>4, <2>5, <2>6
  <2>8. j \in 1 .. N /\ k \in DOMAIN H /\ Char(F[j]) = Char(H[k])
    BY <1>2, <2>5, <2>7
  <2>9. (j <= after <=> k <= a) /\ k # l
    BY <1>7, <2>8
  <2>10. l < k /\ ~ (j <= after)
    BY <1>2, <1>5, <2>5, <2>7, <2>9
  <2>11. j \in Bad /\ j < b
    BY <1>1, <1>3, <2>3, <2>5, <2>8, <2>10
  <2> QED
    BY <2>2, <2>3, <2>11
(* What it was put in front of comes after it.                              *)
<1>10. ASSUME NEW i \in at + 1 .. N, NEW p \in DOMAIN H, Char(F[i]) = Char(H[p])
       PROVE  l < p
  <2> DEFINE Bad == {j \in at + 1 .. N : \E q \in DOMAIN H : Char(F[j]) = Char(H[q]) /\ q < l}
  <2> SUFFICES ASSUME Bad /= {} PROVE FALSE
    <3>1. i \in 1 .. N
      BY <1>1, <1>3
    <3>2. p # l
      BY <1>7, <1>10, <3>1
    <3> QED
      BY <1>2, <1>10, <3>2
  <2>1. Bad \subseteq Nat
    BY <1>3
  <2>2. PICK b \in Bad : \A j \in Bad : b <= j
    <3> HIDE DEF Bad
    <3> QED
      BY <2>1, Least
  <2>3. b \in at + 1 .. N /\ b \in 1 .. N /\ at + 1 \in 1 .. N /\ Before(F[at + 1].ts, t)
    BY <1>1, <1>3, <2>2
  <2>4. PICK q \in DOMAIN H : Char(F[b]) = Char(H[q]) /\ q < l
    BY <2>2
  <2>5. PICK j \in 0 .. b - 1, k \in 0 .. q - 1 :
                /\ j = 0 <=> k = 0
                /\ j # 0 => j \in 1 .. N /\ k \in DOMAIN H /\ Char(F[j]) = Char(H[k])
                /\ \A y \in j + 1 .. b - 1 : Higher(F[y], F[b])
                /\ \A y \in k + 1 .. q - 1 : Higher(H[y], H[q])
    BY <1>8, <2>3, <2>4
  <2>6. H[q].ts = F[b].ts /\ a < q
    BY <1>1, <1>2, <1>3, <1>5, <1>7, <2>3, <2>4
  <2>7. Before(t, F[b].ts)
    <3>1. q \in a + 1 .. l - 1
      BY <1>2, <1>5, <2>4, <2>6
    <3>2. Higher(H[q], H[l])
      BY <1>5, <3>1
    <3> QED
      BY <1>4, <2>3, <2>6, <3>2 DEF Higher
  <2>8. Before(F[at + 1].ts, F[b].ts)
    BY <1>4, <2>3, <2>7, BeforeOrder
  <2>9. ~ Higher(F[at + 1], F[b]) /\ at + 1 # b
    BY <1>4, <2>3, <2>8, BeforeOrder DEF Higher
  <2>10. at + 1 <= j
    BY <1>1, <1>3, <2>3, <2>5, <2>9
  <2>11. j \in 1 .. N /\ k \in DOMAIN H /\ Char(F[j]) = Char(H[k])
    BY <1>3, <2>5, <2>10
  <2>12. k < l
    BY <1>2, <2>4, <2>5
  <2>13. j \in Bad /\ j < b
    BY <1>1, <1>3, <2>3, <2>5, <2>10, <2>11, <2>12
  <2> QED
    BY <2>2, <2>3, <2>13
<1>11. ASSUME NEW i \in 1 .. N, NEW p \in DOMAIN H, Char(F[i]) = Char(H[p])
       PROVE  (i <= at => p < l) /\ (i > at => l < p)
  <2>1. CASE i <= after
    <3>1. p <= a
      BY <1>7, <1>11, <2>1
    <3> QED
      BY <1>1, <1>2, <1>3, <1>5, <2>1, <3>1
  <2>2. CASE i > after /\ i <= at
    <3>1. i \in after + 1 .. at
      BY <1>3, <2>2
    <3> QED
      BY <1>1, <1>2, <1>3, <1>9, <1>11, <2>2, <3>1
  <2>3. CASE i > at
    <3>1. i \in at + 1 .. N
      BY <1>3, <2>3
    <3> QED
      BY <1>1, <1>2, <1>3, <1>10, <1>11, <2>3, <3>1
  <2> QED
    BY <1>3, <2>1, <2>2, <2>3
<1> QED
  BY <1>1, <1>11

LEMMA InsertAgree ==
    ASSUME NEW w, WorldOK(w), NEW F, NEW v, View(w, F, v), Sound(w, v),
           NEW op \in w.ops, op.kind = "edit", op \notin Covered(w, v),
           NEW after, NEW at, NEW upTo, NEW dead, Site(w, F, op, after, at, upTo, dead),
           NEW G, Spliced(F, G, op.ts, op.len, at, dead),
           NEW H, NEW u, View(w, H, u), Agree(F, H)
    PROVE  Agree(G, H)
<1> DEFINE n == op.len
           t == op.ts
           N == Len(F)
           M(i) == Moved(n, at, i)
<1>1. n \in Nat /\ t \in Timestamps
  BY OpTyped DEF WorldOK, OpOK, EditOK
<1>2. F \in Seq(Fragments) /\ N \in Nat /\ DOMAIN F = 1 .. N
  BY SeqParts DEF View
<1>3. at \in 0 .. N
  BY <1>2 DEF Site
<1>4. G \in Seq(Fragments) /\ DOMAIN G = 1 .. N + n
  BY SeqParts DEF Spliced
<1>5. /\ \A i \in 1 .. N : G[M(i)].ts = F[i].ts /\ G[M(i)].off = F[i].off /\ Char(G[M(i)]) = Char(F[i])
      /\ \A k \in 1 .. n : G[at + k].ts = t /\ G[at + k].off = k /\ Char(G[at + k]) = <<t, k>>
  BY <1>1, <1>2, <1>3, SplicedChars
<1>6. /\ \A i, j \in 1 .. N : M(i) < M(j) <=> i < j
      /\ \A i \in 1 .. N, k \in 1 .. n : /\ M(i) < at + k <=> i <= at
                                         /\ at + k < M(i) <=> i > at
      /\ \A y \in 1 .. N + n : (\E i \in 1 .. N : y = M(i)) \/ (\E k \in 1 .. n : y = at + k)
  <2>1. Moves(N, n, at)
    BY <1>1, <1>2, <1>3, MovedIs
  <2> QED
    BY <2>1 DEF Moves
<1>7. Len(H) \in Nat /\ DOMAIN H = 1 .. Len(H)
  BY SeqParts DEF View
<1> HIDE DEF M
<1> SUFFICES ASSUME NEW x \in DOMAIN G, NEW y \in DOMAIN G, NEW k \in DOMAIN H, NEW l \in DOMAIN H,
                    Char(G[x]) = Char(H[k]), Char(G[y]) = Char(H[l])
             PROVE  x < y <=> k < l
  BY DEF Agree
<1>8. ASSUME NEW i \in 1 .. N, NEW p \in DOMAIN H, Char(F[i]) = Char(H[p]),
             NEW q \in DOMAIN H, H[q].ts = t
      PROVE  (i <= at => p < q) /\ (i > at => q < p)
  BY <1>2, <1>8, InsertSide
<1>9. CASE \E i \in 1 .. N, j \in 1 .. N : x = M(i) /\ y = M(j)
  <2>1. PICK i \in 1 .. N, j \in 1 .. N : x = M(i) /\ y = M(j)
    BY <1>9
  <2>2. Char(F[i]) = Char(H[k]) /\ Char(F[j]) = Char(H[l])
    BY <1>5, <2>1
  <2>3. i < j <=> k < l
    BY <1>2, <2>2 DEF Agree
  <2> QED
    BY <1>6, <2>1, <2>3
<1>10. CASE \E i \in 1 .. N, b \in 1 .. n : x = M(i) /\ y = at + b
  <2>1. PICK i \in 1 .. N, b \in 1 .. n : x = M(i) /\ y = at + b
    BY <1>10
  <2>2. Char(F[i]) = Char(H[k]) /\ H[l].ts = t
    BY <1>5, <2>1, CharIs
  <2>3. (i <= at => k < l) /\ (i > at => l < k)
    BY <1>8, <2>2
  <2>4. x < y <=> i <= at
    BY <1>6, <2>1
  <2> QED
    BY <1>2, <1>3, <1>7, <2>1, <2>3, <2>4
<1>11. CASE \E a \in 1 .. n, j \in 1 .. N : x = at + a /\ y = M(j)
  <2>1. PICK a \in 1 .. n, j \in 1 .. N : x = at + a /\ y = M(j)
    BY <1>11
  <2>2. Char(F[j]) = Char(H[l]) /\ H[k].ts = t
    BY <1>5, <2>1, CharIs
  <2>3. (j <= at => l < k) /\ (j > at => k < l)
    BY <1>8, <2>2
  <2>4. x < y <=> j > at
    BY <1>6, <2>1
  <2> QED
    BY <1>2, <1>3, <1>7, <2>1, <2>3, <2>4
<1>12. CASE \E a \in 1 .. n, b \in 1 .. n : x = at + a /\ y = at + b
  <2>1. PICK a \in 1 .. n, b \in 1 .. n : x = at + a /\ y = at + b
    BY <1>12
  <2>2. H[k].ts = t /\ H[k].off = a /\ H[l].ts = t /\ H[l].off = b
    BY <1>5, <2>1, CharIs
  <2>3. PICK c \in 0 .. k - 1 : IsAnchor(w, H, t, c) /\ \A z \in c + 1 .. k - 1 : Higher(H[z], H[k])
    BY <2>2 DEF View, Placed
  <2>4. PICK d \in 0 .. l - 1 : IsAnchor(w, H, t, d) /\ \A z \in d + 1 .. l - 1 : Higher(H[z], H[l])
    BY <2>2 DEF View, Placed
  <2>5. c = d
    <3>1. (c = 0 <=> d = 0) /\ (c # 0 => Char(H[c]) = Char(H[d]))
      BY <2>3, <2>4, AnchorSame
    <3>2. c # 0 => c \in DOMAIN H /\ d \in DOMAIN H
      BY <1>7, <3>1
    <3> QED
      BY <3>1, <3>2 DEF View
  <2>6. ~ Before(t, t)
    BY <1>1, BeforeOrder
  <2>7. ASSUME a < b PROVE k < l
    <3>1. ~ Higher(H[l], H[k])
      BY <2>2, <2>6, <2>7 DEF Higher
    <3>2. k # l
      BY <2>2, <2>7
    <3> QED
      BY <1>7, <2>3, <2>4, <2>5, <3>1, <3>2
  <2>8. ASSUME b < a PROVE l < k
    <3>1. ~ Higher(H[k], H[l])
      BY <2>2, <2>6, <2>8 DEF Higher
    <3>2. k # l
      BY <2>2, <2>8
    <3> QED
      BY <1>7, <2>3, <2>4, <2>5, <3>1, <3>2
  <2>9. ASSUME a = b PROVE k = l
    <3>1. Char(H[k]) = Char(H[l])
      BY <2>2, <2>9, CharIs
    <3> QED
      BY <3>1 DEF View
  <2> QED
    BY <1>1, <1>3, <1>7, <2>1, <2>7, <2>8, <2>9
<1> QED
  BY <1>4, <1>6, <1>9, <1>10, <1>11, <1>12

-----------------------------------------------------------------------------
(* Applying one operation.                                                  *)

LEMMA AgreeBack ==
    ASSUME NEW F, NEW G, Agree(F, G)
    PROVE  Agree(G, F)
BY DEF Agree

(* Views of c agree with whatever views of b agree with.                    *)
KeepsOrder(w, F, G) == \A H, u : View(w, H, u) /\ Agree(F, H) => Agree(G, H)

LEMMA RemoteEditIs ==
    ASSUME NEW w, WorldOK(w), NEW F, NEW v, View(w, F, v), Sound(w, v),
           NEW op \in w.ops, op.kind = "edit", op \notin Covered(w, v),
           ObservedAll(v, op.version), Agree(F, w.seen[op.ts]),
           NEW at, NEW upTo, NEW dead,
           at = RemoteStart(F, op), upTo = RemoteEnd(F, op),
           dead = {i \in at + 1 .. upTo : WasVisible(F[i], op.version, EntriesOf(w, v))}
    PROVE  LET G == Splice(F, at, upTo, NewFragments(op.ts, op.len), dead, op.ts)
           IN  View(w, G, Observe(v, op.ts)) /\ KeepsOrder(w, F, G)
<1> DEFINE G == Splice(F, at, upTo, NewFragments(op.ts, op.len), dead, op.ts)
<1>1. PICK after \in 0 .. Len(F) : Site(w, F, op, after, at, upTo, dead)
  BY RemoteSite
<1>2. F \in Seq(Fragments) /\ op.ts \in Timestamps /\ op.len \in Nat
  BY OpTyped DEF View, WorldOK, OpOK, EditOK
<1>3. at \in 0 .. Len(F) /\ upTo \in at .. Len(F) /\ dead \in SUBSET (at + 1 .. upTo)
  BY <1>1, <1>2, SeqParts DEF Site
<1>4. Spliced(F, G, op.ts, op.len, at, dead)
  BY <1>2, <1>3, SpliceIs
<1> HIDE DEF G
<1>5. View(w, G, Observe(v, op.ts))
  BY <1>1, <1>4, InsertView
<1>6. ASSUME NEW H, NEW u, View(w, H, u), Agree(F, H) PROVE Agree(G, H)
  BY <1>1, <1>4, <1>6, InsertAgree
<1>7. KeepsOrder(w, F, G)
  BY <1>6 DEF KeepsOrder
<1> QED
  BY <1>5, <1>7 DEF G

(* The undo map of operation op.                                            *)
NewEntries(op) == {[edit |-> e, undo |-> op.ts, count |-> op.counts[e]] : e \in DOMAIN op.counts}

(* What an undo makes of each fragment.                                     *)
TouchedBy(f, op) == f.ts \in DOMAIN op.counts \/ f.dels \cap DOMAIN op.counts # {}

Shown(f, op, undos) ==
    IF TouchedBy(f, op)
    THEN [f EXCEPT !.visible = IsVisible(f, undos), !.maxUndos = Observe(@, op.ts)]
    ELSE f

LEMMA UndoCovers ==
    ASSUME NEW w, WorldOK(w), NEW v, Sound(w, v), NEW op \in w.ops, op.kind = "undo",
           ObservedAll(v, op.version)
    PROVE  LET x == Observe(v, op.ts)
           IN  /\ EntriesOf(w, x) = EntriesOf(w, v) \cup NewEntries(op)
               /\ CharsOf(w, x) = CharsOf(w, v)
               /\ Stamps(Covered(w, x)) = Stamps(Covered(w, v)) \cup {op.ts}
               /\ Covered(w, x) = Covered(w, v) \cup {op}
<1> DEFINE x == Observe(v, op.ts)
<1>1. Covered(w, x) = Covered(w, v) \cup {op}
  BY CoverOne
<1> HIDE DEF x
<1>2. CharsOf(w, x) = CharsOf(w, v)
  <2>1. {o \in Covered(w, x) : o.kind = "edit"} = {o \in Covered(w, v) : o.kind = "edit"}
    BY <1>1
  <2> QED
    BY <2>1 DEF CharsOf
<1>3. ASSUME NEW u PROVE u \in EntriesOf(w, x) <=> u \in EntriesOf(w, v) \cup NewEntries(op)
  <2>1. u \in NewEntries(op) <=>
           \E e \in DOMAIN op.counts : u = [edit |-> e, undo |-> op.ts, count |-> op.counts[e]]
    BY DEF NewEntries
  <2>2. u \in EntriesOf(w, x) <=>
           \E p \in Covered(w, x) : \E e \in DOMAIN p.counts :
              p.kind = "undo" /\ u = [edit |-> e, undo |-> p.ts, count |-> p.counts[e]]
    BY EntriesAre
  <2>3. u \in EntriesOf(w, v) <=>
           \E p \in Covered(w, v) : \E e \in DOMAIN p.counts :
              p.kind = "undo" /\ u = [edit |-> e, undo |-> p.ts, count |-> p.counts[e]]
    BY EntriesAre
  <2> QED
    BY <1>1, <2>1, <2>2, <2>3, Zenon
<1>4. EntriesOf(w, x) = EntriesOf(w, v) \cup NewEntries(op)
  BY <1>3
<1>5. Stamps(Covered(w, x)) = Stamps(Covered(w, v)) \cup {op.ts}
  BY <1>1 DEF Stamps
<1> QED
  BY <1>1, <1>2, <1>4, <1>5 DEF x

LEMMA ShownIs ==
    ASSUME NEW f \in Fragments, NEW op, op.ts \in Timestamps, NEW undos
    PROVE  /\ Shown(f, op, undos) \in Fragments
           /\ Shown(f, op, undos).ts = f.ts /\ Shown(f, op, undos).off = f.off
           /\ Shown(f, op, undos).dels = f.dels /\ Char(Shown(f, op, undos)) = Char(f)
           /\ TouchedBy(f, op) =>
                 /\ Shown(f, op, undos).visible = IsVisible(f, undos)
                 /\ Shown(f, op, undos).maxUndos = Observe(f.maxUndos, op.ts)
           /\ ~ TouchedBy(f, op) => Shown(f, op, undos) = f
<1>1. f.maxUndos \in Versions
  BY DEF Fragments
<1>2. Observe(f.maxUndos, op.ts) \in Versions
  BY <1>1, ObserveIs
<1>3. IsVisible(f, undos) \in BOOLEAN
  BY DEF IsVisible
<1>4. CASE TouchedBy(f, op)
  <2> DEFINE vis == IsVisible(f, undos)
             m == Observe(f.maxUndos, op.ts)
  <2>1. Shown(f, op, undos) = [f EXCEPT !.visible = vis, !.maxUndos = m]
    BY <1>4 DEF Shown
  <2>2. vis \in BOOLEAN /\ m \in Versions
    BY <1>2, <1>3
  <2> HIDE DEF vis, m
  <2>3. [f EXCEPT !.visible = vis, !.maxUndos = m] \in Fragments
    BY <2>2 DEF Fragments
  <2>4. LET g == [f EXCEPT !.visible = vis, !.maxUndos = m]
        IN  g.ts = f.ts /\ g.off = f.off /\ g.dels = f.dels /\ g.visible = vis /\ g.maxUndos = m
    BY DEF Fragments
  <2>5. Shown(f, op, undos) \in Fragments
    BY <2>1, <2>3
  <2>6. /\ Shown(f, op, undos).ts = f.ts /\ Shown(f, op, undos).off = f.off
        /\ Shown(f, op, undos).dels = f.dels
        /\ Shown(f, op, undos).visible = vis /\ Shown(f, op, undos).maxUndos = m
    BY <2>1, <2>4, Zenon
  <2>7. Char(Shown(f, op, undos)) = Char(f)
    BY <2>6, Zenon DEF Char
  <2> QED
    BY <1>4, <2>5, <2>6, <2>7, Zenon DEF vis, m
<1>5. CASE ~ TouchedBy(f, op)
  <2>1. Shown(f, op, undos) = f
    BY <1>5 DEF Shown
  <2> QED
    BY <1>5, <2>1, Zenon
<1> QED
  BY <1>4, <1>5

(* An undo finds the characters that it touches.                            *)
LEMMA TouchedIs ==
    ASSUME NEW w, WorldOK(w), NEW v, Sound(w, v), NEW op \in w.ops, op.kind = "undo",
           ObservedAll(v, op.version), NEW f, Kept(w, v, f)
    PROVE  TouchedBy(f, op) <=> Touches(w, op, Char(f))
<1>1. DOMAIN op.counts \subseteq Stamps(Covered(w, op.version))
  BY DEF WorldOK, OpOK, UndoOK
<1>2. Covered(w, op.version) \subseteq Covered(w, v)
  BY CoveredGrows, OpTyped DEF Sound
<1>3. DOMAIN op.counts \subseteq Stamps(Covered(w, v))
  BY <1>1, <1>2 DEF Stamps
<1>4. \A e \in DOMAIN op.counts : e \in f.dels <=> Char(f) \in w.erased[e]
  BY <1>3 DEF Kept
<1>5. Char(f)[1] = f.ts
  BY CharIs
<1> QED
  BY <1>4, <1>5 DEF TouchedBy, Touches

LEMMA UndoTouch ==
    ASSUME NEW w, WorldOK(w), NEW v, Sound(w, v), NEW op \in w.ops, op.kind = "undo",
           ObservedAll(v, op.version), NEW c, NEW m \in Versions,
           \A q \in Replicas : LastTouch(w, v, c, q, m[q]),
           NEW n, n = IF Touches(w, op, c) THEN Observe(m, op.ts) ELSE m
    PROVE  \A q \in Replicas : LastTouch(w, Observe(v, op.ts), c, q, n[q])
<1> DEFINE x == Observe(v, op.ts)
<1>1. Covered(w, x) = Covered(w, v) \cup {op}
  BY CoverOne
<1>2. op.ts \in Timestamps /\ op.ts[1] \in Nat /\ op.ts[2] \in Replicas /\ op.ts = <<op.ts[1], op.ts[2]>>
  BY OpTyped
<1>3. \A p \in Covered(w, v) : p.ts[1] \in Nat
  BY OpTyped DEF Covered
<1> HIDE DEF x
<1> SUFFICES ASSUME NEW q \in Replicas PROVE LastTouch(w, x, c, q, n[q])
  BY DEF x
<1>4. LastTouch(w, v, c, q, m[q]) /\ m[q] \in Nat
  BY DEF Versions
<1>5. CASE ~ Touches(w, op, c)
  <2>1. n = m
    BY <1>5
  <2> QED
    BY <1>1, <1>4, <1>5, <2>1, Zenon DEF LastTouch
<1>6. CASE Touches(w, op, c) /\ q # op.ts[2]
  <2>1. n[q] = m[q]
    BY <1>2, <1>6, ObserveIs
  <2> QED
    BY <1>1, <1>4, <1>6, <2>1, Zenon DEF LastTouch
<1>7. CASE Touches(w, op, c) /\ q = op.ts[2]
  <2>1. n[q] = IF m[q] > op.ts[1] THEN m[q] ELSE op.ts[1]
    BY <1>2, <1>7, ObserveIs
  <2>2. \A p \in Covered(w, v) : p.ts[2] = q /\ Touches(w, p, c) => p.ts[1] <= m[q]
    BY <1>4 DEF LastTouch
  <2>3. m[q] = 0 \/ \E p \in Covered(w, v) : p.ts = <<m[q], q>> /\ Touches(w, p, c)
    BY <1>4 DEF LastTouch
  <2>4. \A p \in Covered(w, x) : p.ts[2] = q /\ Touches(w, p, c) => p.ts[1] <= n[q]
    BY <1>1, <1>2, <1>3, <1>4, <2>1, <2>2
  <2>5. n[q] = 0 \/ \E p \in Covered(w, x) : p.ts = <<n[q], q>> /\ Touches(w, p, c)
    <3>1. CASE m[q] > op.ts[1]
      BY <1>1, <1>2, <1>4, <2>1, <2>3, <3>1
    <3>2. CASE ~ (m[q] > op.ts[1])
      <4>1. n[q] = op.ts[1] /\ op.ts = <<n[q], q>>
        BY <1>2, <1>7, <2>1, <3>2
      <4> QED
        BY <1>1, <1>7, <4>1
    <3> QED
      BY <3>1, <3>2
  <2> QED
    BY <2>4, <2>5 DEF LastTouch
<1> QED
  BY <1>5, <1>6, <1>7

LEMMA UndoKeeps ==
    ASSUME NEW w, WorldOK(w), NEW v, Sound(w, v), NEW op \in w.ops, op.kind = "undo",
           ObservedAll(v, op.version), NEW f \in Fragments, Kept(w, v, f)
    PROVE  Kept(w, Observe(v, op.ts), Shown(f, op, EntriesOf(w, Observe(v, op.ts))))
<1> DEFINE x == Observe(v, op.ts)
           undos == EntriesOf(w, x)
           g == Shown(f, op, undos)
<1>1. /\ undos = EntriesOf(w, v) \cup NewEntries(op)
      /\ CharsOf(w, x) = CharsOf(w, v)
      /\ Stamps(Covered(w, x)) = Stamps(Covered(w, v)) \cup {op.ts}
  BY UndoCovers
<1>2. op.ts \in Timestamps
  BY OpTyped
<1>3. /\ g.ts = f.ts /\ g.off = f.off
      /\ g.dels = f.dels /\ Char(g) = Char(f)
      /\ TouchedBy(f, op) => g.visible = IsVisible(f, undos) /\ g.maxUndos = Observe(f.maxUndos, op.ts)
      /\ ~ TouchedBy(f, op) => g = f
  BY <1>2, ShownIs
<1>4. TouchedBy(f, op) <=> Touches(w, op, Char(f))
  BY TouchedIs
<1>5. f.maxUndos \in Versions /\ \A q \in Replicas : LastTouch(w, v, Char(f), q, f.maxUndos[q])
  BY DEF Fragments, Kept
<1>6. g.maxUndos = IF Touches(w, op, Char(f)) THEN Observe(f.maxUndos, op.ts) ELSE f.maxUndos
  BY <1>3, <1>4
<1>7. \A q \in Replicas : LastTouch(w, x, Char(f), q, g.maxUndos[q])
  BY <1>5, <1>6, UndoTouch
<1>8. w.erased[op.ts] = {}
  BY DEF WorldOK, OpOK, UndoOK
<1> HIDE DEF x, undos, g
<1>9. Char(g) \in CharsOf(w, x)
  BY <1>1, <1>3 DEF Kept
<1>10. g.dels = {t \in Stamps(Covered(w, x)) : Char(g) \in w.erased[t]}
  <2>1. f.dels = {t \in Stamps(Covered(w, v)) : Char(f) \in w.erased[t]}
    BY DEF Kept
  <2> QED
    BY <1>1, <1>3, <1>8, <2>1
<1>11. \A un : IsVisible(g, un) = IsVisible(f, un)
  BY <1>3 DEF IsVisible
<1>12. g.visible = IsVisible(g, undos)
  <2>1. CASE TouchedBy(f, op)
    BY <1>3, <1>11, <2>1, Zenon
  <2>2. CASE ~ TouchedBy(f, op)
    <3>1. \A e : e \notin DOMAIN op.counts =>
             {u \in undos : u.edit = e} = {u \in EntriesOf(w, v) : u.edit = e}
      BY <1>1 DEF NewEntries
    <3>2. \A e : e \notin DOMAIN op.counts => (IsUndone(undos, e) <=> IsUndone(EntriesOf(w, v), e))
      BY <3>1, Zenon DEF IsUndone, UndoCount
    <3>3. IsVisible(f, undos) <=> IsVisible(f, EntriesOf(w, v))
      BY <2>2, <3>2, Zenon DEF IsVisible, TouchedBy
    <3>4. f.visible = IsVisible(f, EntriesOf(w, v))
      BY DEF Kept
    <3>5. IsVisible(f, undos) \in BOOLEAN /\ IsVisible(f, EntriesOf(w, v)) \in BOOLEAN
      BY DEF IsVisible
    <3>6. IsVisible(f, undos) = IsVisible(f, EntriesOf(w, v))
      BY <3>3, <3>5
    <3> QED
      BY <1>3, <1>11, <2>2, <3>4, <3>6, Zenon
  <2> QED
    BY <2>1, <2>2
<1>13. Kept(w, x, g)
  <2>1. \A q \in Replicas : LastTouch(w, x, Char(g), q, g.maxUndos[q])
    BY <1>3, <1>7, Zenon
  <2> QED
    BY <1>9, <1>10, <1>12, <2>1, Zenon DEF Kept, undos
<1> QED
  BY <1>13 DEF x, undos, g

LEMMA SameChars ==
    ASSUME NEW w, NEW F \in Seq(Fragments), NEW G \in Seq(Fragments), Len(G) = Len(F),
           \A i \in 1 .. Len(F) : G[i].ts = F[i].ts /\ G[i].off = F[i].off
    PROVE  /\ \A i \in 1 .. Len(F) : Char(G[i]) = Char(F[i])
           /\ \A i \in 1 .. Len(F) : Placed(w, F, i) => Placed(w, G, i)
           /\ KeepsOrder(w, F, G)
<1>1. Len(F) \in Nat /\ DOMAIN F = 1 .. Len(F) /\ DOMAIN G = 1 .. Len(F)
  BY SeqParts
<1>2. \A i \in 1 .. Len(F) : Char(G[i]) = Char(F[i])
  BY CharIs
<1>3. ASSUME NEW i \in 1 .. Len(F), Placed(w, F, i) PROVE Placed(w, G, i)
  <2>1. PICK j \in 0 .. i - 1 : /\ IsAnchor(w, F, F[i].ts, j)
                                /\ \A k \in j + 1 .. i - 1 : Higher(F[k], F[i])
    BY <1>3 DEF Placed
  <2>2. j = 0 \/ j \in 1 .. Len(F)
    BY <1>1
  <2>3. IsAnchor(w, G, G[i].ts, j)
    BY <1>2, <2>1, <2>2 DEF IsAnchor
  <2>4. ASSUME NEW k \in j + 1 .. i - 1 PROVE Higher(G[k], G[i])
    <3>1. k \in 1 .. Len(F) /\ Higher(F[k], F[i])
      BY <1>1, <2>1
    <3> QED
      BY <3>1 DEF Higher
  <2> QED
    BY <2>3, <2>4 DEF Placed
<1>4. KeepsOrder(w, F, G)
  BY <1>1, <1>2, Zenon DEF KeepsOrder, Agree
<1> QED
  BY <1>2, <1>3, <1>4

LEMMA UndoView ==
    ASSUME NEW w, WorldOK(w), NEW F, NEW v, View(w, F, v), Sound(w, v),
           NEW op \in w.ops, op.kind = "undo", ObservedAll(v, op.version),
           NEW undos, undos = EntriesOf(w, Observe(v, op.ts)),
           NEW G, G = [i \in DOMAIN F |-> Shown(F[i], op, undos)]
    PROVE  View(w, G, Observe(v, op.ts)) /\ KeepsOrder(w, F, G)
<1> DEFINE x == Observe(v, op.ts)
<1>1. F \in Seq(Fragments) /\ Len(F) \in Nat /\ DOMAIN F = 1 .. Len(F)
      /\ \A i \in 1 .. Len(F) : F[i] \in Fragments
  BY SeqParts DEF View
<1>2. op.ts \in Timestamps
  BY OpTyped
<1>3. \A i \in 1 .. Len(F) : /\ G[i] = Shown(F[i], op, undos) /\ G[i] \in Fragments
                             /\ G[i].ts = F[i].ts /\ G[i].off = F[i].off
  BY <1>1, <1>2, ShownIs
<1>4. G \in [1 .. Len(F) -> Fragments]
  BY <1>1, <1>3
<1>5. G \in Seq(Fragments) /\ Len(G) = Len(F) /\ DOMAIN G = 1 .. Len(F)
  BY <1>1, <1>4, FunSeq, SeqParts
<1>6. /\ \A i \in 1 .. Len(F) : Char(G[i]) = Char(F[i])
      /\ \A i \in 1 .. Len(F) : Placed(w, F, i) => Placed(w, G, i)
      /\ KeepsOrder(w, F, G)
  BY <1>1, <1>3, <1>5, SameChars
<1>7. ASSUME NEW i \in 1 .. Len(F) PROVE Kept(w, x, G[i])
  BY <1>1, <1>3, UndoKeeps DEF View
<1>8. CharsOf(w, x) = CharsOf(w, v)
  BY UndoCovers
<1> HIDE DEF x
<1>9. \A c \in CharsOf(w, x) : \E i \in DOMAIN G : Char(G[i]) = c
  BY <1>1, <1>5, <1>6, <1>8 DEF View
<1>10. \A i, j \in DOMAIN G : Char(G[i]) = Char(G[j]) => i = j
  BY <1>1, <1>5, <1>6 DEF View
<1>11. \A i \in DOMAIN G : Placed(w, G, i)
  BY <1>1, <1>5, <1>6 DEF View
<1>12. View(w, G, x)
  BY <1>5, <1>7, <1>9, <1>10, <1>11 DEF View
<1> QED
  BY <1>6, <1>12 DEF x

LEMMA ObserveNothing ==
    ASSUME NEW v \in Versions, NEW t \in Timestamps, Observed(v, t)
    PROVE  Observe(v, t) = v
<1>1. t[1] \in Nat /\ t[2] \in Replicas /\ v[t[2]] \in Nat /\ v[t[2]] >= t[1]
  BY StampParts DEF Versions, Observed
<1>2. (IF v[t[2]] > t[1] THEN v[t[2]] ELSE t[1]) = v[t[2]]
  BY <1>1
<1> QED
  BY <1>1, <1>2 DEF Observe, Versions

(* The entries that undo operations can leave.                              *)
Entries(w) ==
    UNION {{[edit |-> e, undo |-> op.ts, count |-> op.counts[e]] : e \in DOMAIN op.counts} :
              op \in {o \in w.ops : o.kind = "undo"}}

LEMMA EntriesTyped ==
    ASSUME NEW w, NEW v
    PROVE  EntriesOf(w, v) \subseteq Entries(w)
BY DEF EntriesOf, Entries, Covered

(* The fields of a buffer.                                                  *)
LEMMA BufferParts ==
    ASSUME NEW w, NEW b
    PROVE  b \in Buffers(w) <=>
              /\ b = [clock |-> b.clock, version |-> b.version, frags |-> b.frags,
                      undos |-> b.undos, deferred |-> b.deferred,
                      deferredReplicas |-> b.deferredReplicas, waiting |-> b.waiting]
              /\ b.clock \in Nat /\ b.version \in Versions /\ b.frags \in Seq(Fragments)
              /\ b.undos \subseteq Entries(w) /\ b.deferred \subseteq w.ops
              /\ b.deferredReplicas \subseteq Replicas /\ b.waiting \subseteq Versions
<1> DEFINE E == Entries(w)
<1>1. Buffers(w) = [clock : Nat, version : Versions, frags : Seq(Fragments), undos : SUBSET E,
                    deferred : SUBSET w.ops, deferredReplicas : SUBSET Replicas,
                    waiting : SUBSET Versions]
  BY Zenon DEF Buffers, Entries
<1> HIDE DEF E
<1> DEFINE S == Seq(Fragments)
           V == Versions
<1> HIDE DEF S, V
<1>2. b \in [clock : Nat, version : V, frags : S, undos : SUBSET E,
                    deferred : SUBSET w.ops, deferredReplicas : SUBSET Replicas,
                    waiting : SUBSET V] <=>
              /\ b = [clock |-> b.clock, version |-> b.version, frags |-> b.frags,
                      undos |-> b.undos, deferred |-> b.deferred,
                      deferredReplicas |-> b.deferredReplicas, waiting |-> b.waiting]
              /\ b.clock \in Nat /\ b.version \in V /\ b.frags \in S
              /\ b.undos \subseteq E /\ b.deferred \subseteq w.ops
              /\ b.deferredReplicas \subseteq Replicas /\ b.waiting \subseteq V
  OBVIOUS
<1> QED
  BY <1>1, <1>2 DEF E, S, V

(* The clock stays ahead of the version.                                    *)
LEMMA ClockAhead ==
    ASSUME NEW v \in Versions, NEW k \in Nat, \A q \in Replicas : v[q] < k, NEW t \in Timestamps
    PROVE  /\ ObserveClock(k, t) \in Nat
           /\ \A q \in Replicas : Observe(v, t)[q] < ObserveClock(k, t)
<1>1. t[1] \in Nat /\ t[2] \in Replicas
  BY StampParts
<1>2. \A q \in Replicas : Observe(v, t)[q] = v[q] \/ Observe(v, t)[q] = t[1]
  BY <1>1, ObserveIs
<1> QED
  BY <1>1, <1>2 DEF ObserveClock, Versions

(* A new version, its fragments and its undo map in place of the old.       *)
LEMMA NewVersion ==
    ASSUME NEW w, WorldOK(w), NEW b, BufferOK(w, b), NEW op \in w.ops,
           ObservedAll(b.version, op.version),
           NEW G, View(w, G, Observe(b.version, op.ts)), KeepsOrder(w, b.frags, G),
           NEW W, W \subseteq Versions, NEW c,
           c = [clock |-> ObserveClock(b.clock, op.ts), version |-> Observe(b.version, op.ts),
                frags |-> G, undos |-> EntriesOf(w, Observe(b.version, op.ts)),
                deferred |-> b.deferred, deferredReplicas |-> b.deferredReplicas,
                waiting |-> W]
    PROVE  BufferOK(w, c)
<1> DEFINE x == Observe(b.version, op.ts)
           k == ObserveClock(b.clock, op.ts)
           U == EntriesOf(w, x)
<1>1. b \in Buffers(w) /\ Sound(w, b.version) /\ op.ts \in Timestamps
  BY OpTyped DEF BufferOK
<1>2. /\ b.clock \in Nat /\ b.version \in Versions /\ b.deferred \subseteq w.ops
      /\ b.deferredReplicas \subseteq Replicas
  BY <1>1, BufferParts
<1>3. k \in Nat /\ \A q \in Replicas : x[q] < k
  BY <1>1, <1>2, ClockAhead DEF BufferOK
<1>4. Sound(w, x) /\ x \in Versions
  BY <1>1, CoverOne DEF Sound
<1>5. U \subseteq Entries(w)
  BY EntriesTyped
<1>6. G \in Seq(Fragments) /\ View(w, G, x)
  BY DEF View
<1>7. ASSUME NEW p \in w.ops PROVE Agree(G, w.seen[p.ts])
  <2>1. View(w, w.seen[p.ts], p.version)
    BY DEF WorldOK, OpOK
  <2>2. Agree(b.frags, w.seen[p.ts])
    BY DEF BufferOK
  <2> QED
    BY <2>1, <2>2 DEF KeepsOrder
<1>8. b.deferredReplicas = {p.ts[2] : p \in b.deferred}
  BY DEF BufferOK
<1> HIDE DEF x, k, U
<1>9. c = [clock |-> k, version |-> x, frags |-> G, undos |-> U, deferred |-> b.deferred,
           deferredReplicas |-> b.deferredReplicas, waiting |-> W]
  BY DEF x, k, U
<1>10. /\ c.clock = k /\ c.version = x /\ c.frags = G /\ c.undos = U /\ c.deferred = b.deferred
       /\ c.deferredReplicas = b.deferredReplicas /\ c.waiting = W
  BY <1>9
<1>11. c \in Buffers(w)
  BY <1>2, <1>3, <1>4, <1>5, <1>6, <1>9, <1>10, BufferParts
<1> QED
  BY <1>3, <1>4, <1>6, <1>7, <1>8, <1>10, <1>11 DEF BufferOK, U

LEMMA AppliedEdit ==
    ASSUME NEW w, WorldOK(w), NEW b, BufferOK(w, b), NEW op \in w.ops, op.kind = "edit",
           ObservedAll(b.version, op.version), op \notin Covered(w, b.version)
    PROVE  LET d == ApplyRemoteEdit(b, op)
           IN  /\ d = [clock |-> b.clock, version |-> b.version, frags |-> d.frags,
                       undos |-> EntriesOf(w, Observe(b.version, op.ts)),
                       deferred |-> b.deferred, deferredReplicas |-> b.deferredReplicas,
                       waiting |-> b.waiting]
               /\ View(w, d.frags, Observe(b.version, op.ts))
               /\ KeepsOrder(w, b.frags, d.frags)
<1> DEFINE at == RemoteStart(b.frags, op)
           upTo == RemoteEnd(b.frags, op)
           dead == {i \in at + 1 .. upTo : WasVisible(b.frags[i], op.version, b.undos)}
           G == Splice(b.frags, at, upTo, NewFragments(op.ts, op.len), dead, op.ts)
           d == ApplyRemoteEdit(b, op)
<1>1. /\ View(w, b.frags, b.version) /\ Sound(w, b.version) /\ b.undos = EntriesOf(w, b.version)
      /\ Agree(b.frags, w.seen[op.ts]) /\ b \in Buffers(w)
  BY DEF BufferOK
<1>2. View(w, G, Observe(b.version, op.ts)) /\ KeepsOrder(w, b.frags, G)
  BY <1>1, RemoteEditIs
<1>3. EntriesOf(w, Observe(b.version, op.ts)) = b.undos
  BY <1>1, EditCovers
<1>4. d = [b EXCEPT !.frags = G]
  BY DEF ApplyRemoteEdit
<1>5. b = [clock |-> b.clock, version |-> b.version, frags |-> b.frags,
           undos |-> b.undos, deferred |-> b.deferred,
           deferredReplicas |-> b.deferredReplicas, waiting |-> b.waiting]
  BY <1>1, BufferParts
<1> HIDE DEF G, d
<1>6. d = [clock |-> b.clock, version |-> b.version, frags |-> G,
           undos |-> b.undos, deferred |-> b.deferred,
           deferredReplicas |-> b.deferredReplicas, waiting |-> b.waiting]
  BY <1>4, <1>5
<1>7. d.frags = G
  BY <1>6
<1> QED
  BY <1>2, <1>3, <1>6, <1>7 DEF d

LEMMA AppliedUndo ==
    ASSUME NEW w, WorldOK(w), NEW b, b \in Buffers(w), NEW v, Sound(w, v), View(w, b.frags, v),
           b.undos = EntriesOf(w, v), NEW op \in w.ops, op.kind = "undo",
           ObservedAll(v, op.version)
    PROVE  LET d == ApplyUndo(b, op)
           IN  /\ d = [clock |-> b.clock, version |-> b.version, frags |-> d.frags,
                       undos |-> EntriesOf(w, Observe(v, op.ts)),
                       deferred |-> b.deferred, deferredReplicas |-> b.deferredReplicas,
                       waiting |-> b.waiting]
               /\ View(w, d.frags, Observe(v, op.ts))
               /\ KeepsOrder(w, b.frags, d.frags)
<1> DEFINE U == EntriesOf(w, Observe(v, op.ts))
           G == [i \in DOMAIN b.frags |-> Shown(b.frags[i], op, U)]
           d == ApplyUndo(b, op)
<1>1. View(w, G, Observe(v, op.ts)) /\ KeepsOrder(w, b.frags, G)
  BY UndoView
<1>2. U = b.undos \cup NewEntries(op)
  BY UndoCovers
<1>3. d = [b EXCEPT !.undos = b.undos \cup NewEntries(op),
                    !.frags = [i \in DOMAIN b.frags |-> Shown(b.frags[i], op, b.undos \cup NewEntries(op))]]
  BY Zenon DEF ApplyUndo, NewEntries, Shown, TouchedBy
<1>4. d = [b EXCEPT !.undos = U, !.frags = G]
  BY <1>2, <1>3, Zenon
<1>5. b = [clock |-> b.clock, version |-> b.version, frags |-> b.frags,
           undos |-> b.undos, deferred |-> b.deferred,
           deferredReplicas |-> b.deferredReplicas, waiting |-> b.waiting]
  BY BufferParts
<1> HIDE DEF G, U, d
<1>6. d = [clock |-> b.clock, version |-> b.version, frags |-> G,
           undos |-> U, deferred |-> b.deferred,
           deferredReplicas |-> b.deferredReplicas, waiting |-> b.waiting]
  BY <1>4, <1>5
<1>7. d.frags = G
  BY <1>6
<1> QED
  BY <1>1, <1>6, <1>7 DEF d, U

(* c is b after operation op.                                               *)
Applied(w, b, op, c) ==
    /\ BufferOK(w, c)
    /\ c.version = Observe(b.version, op.ts)
    /\ Covered(w, c.version) = Covered(w, b.version) \cup {op}
    /\ c.deferred = b.deferred /\ c.deferredReplicas = b.deferredReplicas
    /\ c.waiting = StillWaiting(b.waiting, c.version)
    /\ KeepsOrder(w, b.frags, c.frags)

LEMMA ApplyOpIs ==
    ASSUME NEW w, WorldOK(w), NEW b, BufferOK(w, b), NEW op \in w.ops,
           ObservedAll(b.version, op.version)
    PROVE  Applied(w, b, op, ApplyOp(b, op))
<1> DEFINE x == Observe(b.version, op.ts)
           W == StillWaiting(b.waiting, x)
           c == ApplyOp(b, op)
<1>1. b \in Buffers(w) /\ Sound(w, b.version) /\ b.undos = EntriesOf(w, b.version)
      /\ View(w, b.frags, b.version) /\ op.ts \in Timestamps
  BY OpTyped DEF BufferOK
<1>2. /\ b = [clock |-> b.clock, version |-> b.version, frags |-> b.frags,
              undos |-> b.undos, deferred |-> b.deferred,
              deferredReplicas |-> b.deferredReplicas, waiting |-> b.waiting]
      /\ b.version \in Versions /\ b.waiting \subseteq Versions /\ b.clock \in Nat
      /\ b.frags \in Seq(Fragments)
      /\ b.undos \subseteq Entries(w) /\ b.deferred \subseteq w.ops
      /\ b.deferredReplicas \subseteq Replicas
  BY <1>1, BufferParts
<1>3. Covered(w, x) = Covered(w, b.version) \cup {op}
  BY <1>1, CoverOne
<1>4. W \subseteq Versions
  BY <1>2 DEF StillWaiting
<1>5. CASE Observed(b.version, op.ts)
  <2>1. x = b.version
    BY <1>1, <1>2, <1>5, ObserveNothing
  <2>2. c = [b EXCEPT !.waiting = StillWaiting(b.waiting, b.version)]
    BY <1>5 DEF ApplyOp
  <2>3. c = [b EXCEPT !.waiting = W]
    BY <2>1, <2>2, Zenon
  <2> HIDE DEF c, W
  <2>4. /\ c.clock = b.clock /\ c.version = b.version /\ c.frags = b.frags /\ c.undos = b.undos
        /\ c.deferred = b.deferred /\ c.deferredReplicas = b.deferredReplicas /\ c.waiting = W
        /\ c = [clock |-> b.clock, version |-> b.version, frags |-> b.frags,
              undos |-> b.undos, deferred |-> b.deferred,
              deferredReplicas |-> b.deferredReplicas, waiting |-> W]
    BY <1>2, <2>3
  <2>5. c \in Buffers(w)
    BY <1>2, <1>4, <2>4, BufferParts
  <2>6. BufferOK(w, c)
    BY <2>4, <2>5, Zenon DEF BufferOK
  <2>7. KeepsOrder(w, b.frags, c.frags)
    BY <2>4, Zenon DEF KeepsOrder
  <2>8. c.version = x /\ c.waiting = StillWaiting(b.waiting, c.version)
    BY <2>1, <2>4, Zenon DEF W
  <2> QED
    BY <1>3, <2>4, <2>6, <2>7, <2>8, Zenon DEF Applied, c
<1>6. CASE ~ Observed(b.version, op.ts)
  <2> DEFINE d == IF op.kind = "edit" THEN ApplyRemoteEdit(b, op) ELSE ApplyUndo(b, op)
  <2>1. op \notin Covered(w, b.version)
    BY <1>6 DEF Covered
  <2>2. /\ d = [clock |-> b.clock, version |-> b.version, frags |-> d.frags,
                undos |-> EntriesOf(w, x),
                deferred |-> b.deferred, deferredReplicas |-> b.deferredReplicas,
                waiting |-> b.waiting]
        /\ View(w, d.frags, x)
        /\ KeepsOrder(w, b.frags, d.frags)
    <3>1. CASE op.kind = "edit"
      <4>1. d = ApplyRemoteEdit(b, op)
        BY <3>1
      <4> QED
        BY <3>1, <4>1, <2>1, AppliedEdit, Zenon
    <3>2. CASE op.kind = "undo"
      <4>1. d = ApplyUndo(b, op)
        BY <3>2
      <4> QED
        BY <1>1, <3>2, <4>1, AppliedUndo
    <3> QED
      BY <3>1, <3>2, OpTyped
  <2> DEFINE e == [d EXCEPT !.version = Observe(@, op.ts), !.clock = ObserveClock(@, op.ts)]
             G == d.frags
             k == ObserveClock(b.clock, op.ts)
             U == EntriesOf(w, x)
  <2>3. c = [e EXCEPT !.waiting = StillWaiting(@, e.version)]
    BY <1>6, Zenon DEF ApplyOp
  <2> HIDE DEF d, U, G, k, x
  <2>10. d = [clock |-> b.clock, version |-> b.version, frags |-> G, undos |-> U,
              deferred |-> b.deferred, deferredReplicas |-> b.deferredReplicas,
              waiting |-> b.waiting]
    BY <2>2, Zenon DEF U, G
  <2>11. d.clock = b.clock /\ d.version = b.version
    BY <2>10
  <2>12. Observe(d.version, op.ts) = x /\ ObserveClock(d.clock, op.ts) = k
    BY <2>11, Zenon DEF x, k
  <2>4. e = [clock |-> k, version |-> x, frags |-> G, undos |-> U, deferred |-> b.deferred,
             deferredReplicas |-> b.deferredReplicas, waiting |-> b.waiting]
    <3>1. e = [d EXCEPT !.version = x, !.clock = k]
      BY <2>12, Zenon
    <3> HIDE DEF e
    <3> QED
      BY <2>10, <3>1
  <2> HIDE DEF c, W, e
  <2>5. c = [clock |-> k, version |-> x, frags |-> G, undos |-> U, deferred |-> b.deferred,
             deferredReplicas |-> b.deferredReplicas, waiting |-> W]
    BY <2>3, <2>4 DEF W
  <2>6. /\ c.version = x /\ c.deferred = b.deferred /\ c.frags = G
        /\ c.deferredReplicas = b.deferredReplicas /\ c.waiting = W
    BY <2>5
  <2>7. View(w, G, Observe(b.version, op.ts)) /\ KeepsOrder(w, b.frags, G)
    BY <2>2 DEF G, x
  <2>8. BufferOK(w, c)
    BY <1>4, <2>5, <2>7, NewVersion DEF k, x, U
  <2>9. c.waiting = StillWaiting(b.waiting, c.version)
    BY <2>6, Zenon DEF W
  <2> QED
    BY <1>3, <2>6, <2>7, <2>8, <2>9, Zenon DEF Applied, c, x
<1> QED
  BY <1>5, <1>6

(* c is b with operation op in the queue.                                   *)
PutOff(w, b, op, c) ==
    /\ BufferOK(w, c)
    /\ c.version = b.version /\ c.frags = b.frags /\ c.waiting = b.waiting
    /\ c.deferred = b.deferred \cup {op}

LEMMA ApplyOrDeferIs ==
    ASSUME NEW w, WorldOK(w), NEW b, BufferOK(w, b), NEW op \in w.ops
    PROVE  IF CanApplyOp(b, op) THEN Applied(w, b, op, ApplyOrDefer(b, op))
           ELSE PutOff(w, b, op, ApplyOrDefer(b, op))
<1> DEFINE c == ApplyOrDefer(b, op)
<1>1. CASE CanApplyOp(b, op)
  <2>1. c = ApplyOp(b, op)
    BY <1>1 DEF ApplyOrDefer
  <2>2. ObservedAll(b.version, op.version)
    BY <1>1 DEF CanApplyOp
  <2> QED
    BY <1>1, <2>1, <2>2, ApplyOpIs
<1>2. CASE ~ CanApplyOp(b, op)
  <2> DEFINE R == b.deferredReplicas \cup {op.ts[2]}
             D == b.deferred \cup {op}
  <2>1. c = [b EXCEPT !.deferredReplicas = R, !.deferred = D]
    BY <1>2, Zenon DEF ApplyOrDefer
  <2>2. b \in Buffers(w) /\ b.deferredReplicas = {p.ts[2] : p \in b.deferred}
        /\ op.ts[2] \in Replicas
    BY OpTyped DEF BufferOK
  <2>3. /\ b = [clock |-> b.clock, version |-> b.version, frags |-> b.frags,
                undos |-> b.undos, deferred |-> b.deferred,
                deferredReplicas |-> b.deferredReplicas, waiting |-> b.waiting]
        /\ b.version \in Versions /\ b.waiting \subseteq Versions /\ b.clock \in Nat
        /\ b.frags \in Seq(Fragments)
        /\ b.undos \subseteq Entries(w) /\ b.deferred \subseteq w.ops
        /\ b.deferredReplicas \subseteq Replicas
    BY <2>2, BufferParts
  <2>4. R = {p.ts[2] : p \in D} /\ R \subseteq Replicas /\ D \subseteq w.ops
    BY <2>2, <2>3
  <2> HIDE DEF R, D, c
  <2>5. /\ c.clock = b.clock /\ c.version = b.version /\ c.frags = b.frags /\ c.undos = b.undos
        /\ c.deferred = D /\ c.deferredReplicas = R /\ c.waiting = b.waiting
        /\ c = [clock |-> b.clock, version |-> b.version, frags |-> b.frags,
              undos |-> b.undos, deferred |-> D,
              deferredReplicas |-> R, waiting |-> b.waiting]
    BY <2>1, <2>3
  <2>6. c \in Buffers(w)
    BY <2>3, <2>4, <2>5, BufferParts
  <2>7. BufferOK(w, c)
    <3>1. c.deferredReplicas = {p.ts[2] : p \in c.deferred}
      BY <2>4, <2>5, Zenon
    <3> QED
      BY <2>5, <2>6, <3>1, Zenon DEF BufferOK
  <2>8. PutOff(w, b, op, c)
    BY <2>5, <2>7, Zenon DEF PutOff, D
  <2> QED
    BY <1>2, <2>8 DEF c
<1> QED
  BY <1>1, <1>2

-----------------------------------------------------------------------------
(* Applying a sequence of operations.                                       *)

(* What holds at 0, and goes from each number to the next, holds up to N.   *)
LEMMA Climb ==
    ASSUME NEW N \in Nat, NEW T, 0 \in T, \A n \in 0 .. N - 1 : n \in T => n + 1 \in T
    PROVE  0 .. N \subseteq T
<1> DEFINE missing == (0 .. N) \ T
<1> SUFFICES ASSUME missing # {} PROVE FALSE
  OBVIOUS
<1>1. missing \subseteq Nat
  OBVIOUS
<1> HIDE DEF missing
<1>2. PICK n \in missing : \A m \in missing : n <= m
  BY <1>1, Least
<1>3. n \in 0 .. N /\ n \notin T /\ n # 0
  BY DEF missing
<1>4. n - 1 \in 0 .. N - 1 /\ n - 1 \in 0 .. N /\ ~ (n <= n - 1) /\ (n - 1) + 1 = n
  BY <1>3
<1>5. n - 1 \notin missing
  BY <1>2, <1>4
<1>6. n - 1 \in T
  BY <1>4, <1>5 DEF missing
<1> QED
  BY <1>3, <1>4, <1>6

(* f[n] is what the first n operations of s make of b.                      *)
Turns(f, b, s, N) ==
    f[0] = b /\ \A n \in 0 .. N - 1 : f[n + 1] = ApplyOrDefer(f[n], s[n + 1])

LEMMA TurnsExist ==
    ASSUME NEW S, NEW b \in S, NEW s, NEW N \in Nat,
           \A n \in 0 .. N - 1, c \in S : ApplyOrDefer(c, s[n + 1]) \in S
    PROVE  \E f \in [0 .. N -> S] : Turns(f, b, s, N)
<1> DEFINE Has(n) == \E f \in [0 .. n -> S] : Turns(f, b, s, n)
           T == {n \in 0 .. N : Has(n)}
<1>1. Has(0)
  <2> DEFINE f == [i \in 0 .. 0 |-> b]
  <2>1. f \in [0 .. 0 -> S] /\ f[0] = b
    OBVIOUS
  <2> HIDE DEF f
  <2>2. Turns(f, b, s, 0)
    BY <2>1 DEF Turns
  <2> QED
    BY <2>1, <2>2
<1>2. ASSUME NEW n \in 0 .. N - 1, Has(n) PROVE Has(n + 1)
  <2>1. PICK f \in [0 .. n -> S] : Turns(f, b, s, n)
    BY <1>2
  <2> DEFINE last == ApplyOrDefer(f[n], s[n + 1])
  <2>2. last \in S
    <3>1. f[n] \in S
      BY <2>1
    <3> QED
      BY <3>1
  <2>3. last = ApplyOrDefer(f[n], s[n + 1])
    OBVIOUS
  <2> HIDE DEF last
  <2> DEFINE g == [i \in 0 .. n + 1 |-> IF i = n + 1 THEN last ELSE f[i]]
  <2>4. g \in [0 .. n + 1 -> S]
    BY <2>1, <2>2
  <2>5. g[n + 1] = last /\ \A i \in 0 .. n : g[i] = f[i]
    OBVIOUS
  <2> HIDE DEF g
  <2>6. g[0] = b
    <3>1. 0 \in 0 .. n
      OBVIOUS
    <3> QED
      BY <2>1, <2>5, <3>1 DEF Turns
  <2>7. ASSUME NEW i \in 0 .. (n + 1) - 1 PROVE g[i + 1] = ApplyOrDefer(g[i], s[i + 1])
    <3>1. i \in 0 .. n /\ g[i] = f[i]
      BY <2>5
    <3>2. CASE i = n
      BY <2>3, <2>5, <3>1, <3>2
    <3>3. CASE i # n
      <4>1. i \in 0 .. n - 1 /\ i + 1 \in 0 .. n
        BY <3>1, <3>3
      <4>2. f[i + 1] = ApplyOrDefer(f[i], s[i + 1])
        BY <2>1, <4>1 DEF Turns
      <4>3. g[i + 1] = f[i + 1]
        BY <2>5, <4>1
      <4> QED
        BY <3>1, <4>2, <4>3, Zenon
    <3> QED
      BY <3>2, <3>3
  <2>8. Turns(g, b, s, n + 1)
    BY <2>6, <2>7 DEF Turns
  <2> QED
    BY <2>4, <2>8
<1> HIDE DEF Has
<1>3. 0 \in T /\ \A n \in 0 .. N - 1 : n \in T => n + 1 \in T
  BY <1>1, <1>2
<1> HIDE DEF T
<1>4. N \in T
  BY <1>3, Climb
<1> QED
  BY <1>4 DEF T, Has

(* The loop of apply_ops is such an f.                                      *)
LEMMA EachInTurnIs ==
    ASSUME NEW S, NEW b \in S, NEW s, Len(s) \in Nat,
           \A n \in 0 .. Len(s) - 1, c \in S : ApplyOrDefer(c, s[n + 1]) \in S
    PROVE  \E f : Turns(f, b, s, Len(s)) /\ EachInTurn(b, s) = f[Len(s)]
<1> DEFINE N == Len(s)
           Eqn(f) == f = [n \in 0 .. N |-> IF n = 0 THEN b ELSE ApplyOrDefer(f[n - 1], s[n])]
           after == CHOOSE f : Eqn(f)
<1>1. EachInTurn(b, s) = after[N]
  BY Zenon DEF EachInTurn
<1>2. N \in Nat /\ \A n \in 0 .. N - 1, c \in S : ApplyOrDefer(c, s[n + 1]) \in S
  OBVIOUS
<1> HIDE DEF N
<1>3. PICK g \in [0 .. N -> S] : Turns(g, b, s, N)
  BY <1>2, TurnsExist
<1>4. Eqn(g)
  <2>1. ASSUME NEW n \in 0 .. N
        PROVE  g[n] = IF n = 0 THEN b ELSE ApplyOrDefer(g[n - 1], s[n])
    <3>1. CASE n = 0
      BY <1>3, <3>1 DEF Turns
    <3>2. CASE n # 0
      <4>1. n - 1 \in 0 .. N - 1 /\ (n - 1) + 1 = n
        BY <1>2, <3>2
      <4>2. g[(n - 1) + 1] = ApplyOrDefer(g[n - 1], s[(n - 1) + 1])
        BY <1>3, <4>1 DEF Turns
      <4> QED
        BY <3>2, <4>1, <4>2
    <3> QED
      BY <3>1, <3>2
  <2> QED
    BY <1>3, <2>1
<1>5. Eqn(after)
  <2> HIDE DEF Eqn
  <2> QED
    BY <1>4
<1> HIDE DEF after
<1>6. Turns(after, b, s, N)
  <2>1. after[0] = b
    BY <1>2, <1>5
  <2>2. ASSUME NEW n \in 0 .. N - 1 PROVE after[n + 1] = ApplyOrDefer(after[n], s[n + 1])
    <3>1. n + 1 \in 0 .. N /\ n + 1 # 0 /\ (n + 1) - 1 = n
      BY <1>2
    <3> QED
      BY <1>5, <3>1
  <2> QED
    BY <2>1, <2>2 DEF Turns
<1> QED
  BY <1>1, <1>6 DEF N

(* c is what the operations of Q have made of b.                            *)
Progress(w, b, c, Q) ==
    /\ BufferOK(w, c)
    /\ KeepsOrder(w, b.frags, c.frags)
    /\ ObservedAll(c.version, b.version)
    /\ b.deferred \subseteq c.deferred /\ c.deferred \subseteq b.deferred \cup Q
    /\ Covered(w, c.version) \subseteq Covered(w, b.version) \cup Q
    /\ Q \subseteq Covered(w, c.version) \cup c.deferred
    /\ c.waiting \subseteq b.waiting
    /\ (\A v \in b.waiting : ~ ObservedAll(b.version, v))
          => \A v \in c.waiting : ~ ObservedAll(c.version, v)

LEMMA ProgressStarts ==
    ASSUME NEW w, NEW b, BufferOK(w, b)
    PROVE  Progress(w, b, b, {})
<1>1. b.version \in Versions
  BY BufferParts DEF BufferOK
<1>2. ObservedAll(b.version, b.version)
  BY <1>1 DEF ObservedAll, Versions
<1>3. KeepsOrder(w, b.frags, b.frags)
  BY DEF KeepsOrder
<1> QED
  BY <1>2, <1>3 DEF Progress

LEMMA ProgressGoesOn ==
    ASSUME NEW w, WorldOK(w), NEW b, BufferOK(w, b), NEW c, NEW Q, Progress(w, b, c, Q),
           NEW op \in w.ops
    PROVE  Progress(w, b, ApplyOrDefer(c, op), Q \cup {op})
<1> DEFINE d == ApplyOrDefer(c, op)
<1>1. BufferOK(w, c)
  BY DEF Progress
<1>2. b.version \in Versions /\ c.version \in Versions /\ op.ts \in Timestamps
  BY <1>1, BufferParts, OpTyped DEF BufferOK
<1>3. CASE CanApplyOp(c, op)
  <2>1. Applied(w, c, op, d)
    BY <1>1, <1>3, ApplyOrDeferIs
  <2> HIDE DEF d
  <2>2. /\ BufferOK(w, d) /\ d.version = Observe(c.version, op.ts)
        /\ Covered(w, d.version) = Covered(w, c.version) \cup {op}
        /\ d.deferred = c.deferred
        /\ d.waiting = StillWaiting(c.waiting, d.version)
        /\ KeepsOrder(w, c.frags, d.frags)
    BY <2>1 DEF Applied
  <2>3. d.version \in Versions /\ ObservedAll(d.version, c.version)
    BY <1>2, <2>2, ObserveIs
  <2>4. ObservedAll(d.version, b.version)
    BY <1>2, <2>3, ObservedAllTrans DEF Progress
  <2>5. KeepsOrder(w, b.frags, d.frags)
    BY <2>2 DEF KeepsOrder, Progress
  <2>6. d.waiting \subseteq b.waiting /\ \A v \in d.waiting : ~ ObservedAll(d.version, v)
    BY <2>2 DEF StillWaiting, Progress
  <2>7. Progress(w, b, d, Q \cup {op})
    BY <2>2, <2>4, <2>5, <2>6 DEF Progress
  <2> QED
    BY <2>7 DEF d
<1>4. CASE ~ CanApplyOp(c, op)
  <2>1. PutOff(w, c, op, d)
    BY <1>1, <1>4, ApplyOrDeferIs
  <2> HIDE DEF d
  <2>2. /\ BufferOK(w, d) /\ d.version = c.version /\ d.frags = c.frags
        /\ d.waiting = c.waiting /\ d.deferred = c.deferred \cup {op}
    BY <2>1 DEF PutOff
  <2>3. Progress(w, b, d, Q \cup {op})
    BY <2>2 DEF Progress
  <2> QED
    BY <2>3 DEF d
<1> QED
  BY <1>3, <1>4

(* What waits for operations that come later in the queue goes on waiting.  *)
LEMMA StaysUnready ==
    ASSUME NEW w, WorldOK(w), NEW c, BufferOK(w, c), Unready(c), NEW op \in w.ops,
           \A p \in c.deferred : Before(p.ts, op.ts)
    PROVE  Unready(ApplyOrDefer(c, op))
<1> DEFINE d == ApplyOrDefer(c, op)
           a == op.ts[2]
<1>1. /\ c \in Buffers(w) /\ Sound(w, c.version) /\ c.version \in Versions
      /\ c.deferred \subseteq w.ops /\ c.deferredReplicas = {p.ts[2] : p \in c.deferred}
  BY BufferParts DEF BufferOK
<1>2. op.ts \in Timestamps /\ op.ts[1] \in Nat /\ a \in Replicas /\ op.version \in Versions
  BY OpTyped
<1>3. \A o \in w.ops : o.ts[2] = a /\ o.ts[1] < op.ts[1] => op.version[a] >= o.ts[1]
  BY DEF WorldOK, OpOK, Observed
<1>4. CASE CanApplyOp(c, op)
  <2>1. d.version = Observe(c.version, op.ts) /\ d.deferred = c.deferred
    BY <1>4, ApplyOrDeferIs DEF Applied
  <2>2. c.version[a] >= op.version[a]
    BY <1>2, <1>4 DEF CanApplyOp, ObservedAll
  <2> HIDE DEF d
  <2>3. ASSUME NEW p \in c.deferred PROVE ~ ObservedAll(d.version, p.version)
    <3>1. /\ p \in w.ops /\ p.version \in Versions /\ p.ts \in Timestamps /\ p.ts[1] \in Nat
          /\ p.ts[2] \in Replicas /\ Sound(w, p.version)
          /\ \A q \in Replicas : p.version[q] < p.ts[1]
      BY <1>1, OpTyped
    <3>2. PICK q \in Replicas : ~ (c.version[q] >= p.version[q])
      BY DEF Unready, ObservedAll
    <3>3. c.version[q] \in Nat /\ p.version[q] \in Nat /\ c.version[q] >= BaseVersion[q]
          /\ BaseVersion[q] \in Nat
      BY <1>1, <3>1, BaseIs DEF Sound, Versions
    <3>4. CASE q # a
      <4>1. d.version[q] = c.version[q]
        BY <1>1, <1>2, <2>1, <3>4, ObserveIs
      <4> QED
        BY <3>2, <4>1 DEF ObservedAll
    <3>5. CASE q = a
      <4>1. <<p.version[q], q>> \in Stamps(w.ops)
        <5>1. p.version[q] # BaseVersion[q]
          BY <3>2, <3>3
        <5> QED
          BY <3>1, <5>1 DEF Sound
      <4>2. PICK o \in w.ops : o.ts = <<p.version[q], q>>
        BY <4>1 DEF Stamps
      <4>3. o.ts[1] = p.version[q] /\ o.ts[2] = a
        BY <3>5, <4>2
      <4>4. p.ts[1] <= op.ts[1]
        BY <1>2, <3>1 DEF Before
      <4>5. o.ts[1] < op.ts[1]
        BY <1>2, <3>1, <3>3, <4>3, <4>4
      <4>6. op.version[a] >= p.version[a]
        BY <1>3, <3>5, <4>3, <4>5
      <4>7. op.version[a] \in Nat
        BY <1>2 DEF Versions
      <4> QED
        BY <2>2, <3>2, <3>3, <3>5, <4>6, <4>7
    <3> QED
      BY <3>4, <3>5
  <2> QED
    BY <2>1, <2>3 DEF Unready, d
<1>5. CASE ~ CanApplyOp(c, op)
  <2>1. d.version = c.version /\ d.deferred = c.deferred \cup {op}
    BY <1>5, ApplyOrDeferIs DEF PutOff
  <2> HIDE DEF d
  <2>2. ASSUME ObservedAll(c.version, op.version) PROVE FALSE
    <3>1. a \in c.deferredReplicas
      BY <1>5, <2>2 DEF CanApplyOp
    <3>2. PICK p \in c.deferred : p.ts[2] = a
      BY <1>1, <3>1
    <3>3. p \in w.ops /\ p.ts[1] \in Nat /\ p.ts[2] \in Nat
      BY <1>1, OpTyped, ReplicasAssumption
    <3>4. p.ts[1] < op.ts[1]
      BY <1>2, <3>2, <3>3 DEF Before
    <3>5. op.version[a] >= p.ts[1] /\ c.version[a] >= op.version[a]
      BY <1>2, <1>3, <2>2, <3>2, <3>3, <3>4 DEF ObservedAll
    <3>6. c.version[a] \in Nat /\ op.version[a] \in Nat
      BY <1>1, <1>2 DEF Versions
    <3>7. p \in Covered(w, c.version)
      BY <3>2, <3>3, <3>5, <3>6 DEF Covered, Observed
    <3>8. ObservedAll(c.version, p.version)
      BY <1>1, <3>7 DEF Sound
    <3> QED
      BY <3>8 DEF Unready
  <2> QED
    BY <2>1, <2>2 DEF Unready, d
<1> QED
  BY <1>4, <1>5

Sorted(s) == \A i, j \in 1 .. Len(s) : i < j => Before(s[i].ts, s[j].ts)

LEMMA AllInTurn ==
    ASSUME NEW w, WorldOK(w), NEW b, BufferOK(w, b), NEW s, Len(s) \in Nat,
           \A i \in 1 .. Len(s) : s[i] \in w.ops, NEW Q, Q = {s[i] : i \in 1 .. Len(s)}
    PROVE  /\ Progress(w, b, EachInTurn(b, s), Q)
           /\ b.deferred = {} /\ Sorted(s) => Unready(EachInTurn(b, s))
<1> DEFINE N == Len(s)
           S == {c \in Buffers(w) : BufferOK(w, c)}
           P(n) == {s[i] : i \in 1 .. n}
<1>1. \A n \in 0 .. N - 1 : s[n + 1] \in w.ops
  OBVIOUS
<1>2. b \in S
  BY DEF BufferOK
<1>3. ASSUME NEW n \in 0 .. N - 1, NEW c \in S PROVE ApplyOrDefer(c, s[n + 1]) \in S
  <2>1. BufferOK(w, ApplyOrDefer(c, s[n + 1]))
    BY <1>1, ApplyOrDeferIs DEF Applied, PutOff
  <2> QED
    BY <2>1 DEF BufferOK
<1> HIDE DEF S
<1>4. PICK f : Turns(f, b, s, N) /\ EachInTurn(b, s) = f[N]
  BY <1>2, <1>3, EachInTurnIs
<1> DEFINE Claim(n) == /\ Progress(w, b, f[n], P(n))
                       /\ b.deferred = {} /\ Sorted(s) => Unready(f[n])
           T == {n \in 0 .. N : Claim(n)}
<1>5. Claim(0)
  <2>1. f[0] = b /\ P(0) = {}
    BY <1>4 DEF Turns
  <2>2. b.deferred = {} => Unready(b)
    BY DEF Unready
  <2> HIDE DEF P
  <2> QED
    BY <2>1, <2>2, ProgressStarts
<1>6. ASSUME NEW n \in 0 .. N - 1, Claim(n) PROVE Claim(n + 1)
  <2> DEFINE op == s[n + 1]
             c == f[n]
  <2>1. f[n + 1] = ApplyOrDefer(c, op) /\ op \in w.ops
    BY <1>1, <1>4 DEF Turns
  <2>2. P(n + 1) = P(n) \cup {op}
    OBVIOUS
  <2>3. Progress(w, b, c, P(n)) /\ BufferOK(w, c)
    BY <1>6 DEF Progress
  <2>4. ASSUME b.deferred = {}, Sorted(s), NEW p \in c.deferred PROVE Before(p.ts, op.ts)
    <3>1. p \in P(n)
      BY <2>3, <2>4 DEF Progress
    <3>2. PICK i \in 1 .. n : p = s[i]
      BY <3>1
    <3>3. i \in 1 .. Len(s) /\ n + 1 \in 1 .. Len(s) /\ i < n + 1
      OBVIOUS
    <3> QED
      BY <2>4, <3>2, <3>3 DEF Sorted
  <2> HIDE DEF op, c, P
  <2>5. Progress(w, b, f[n + 1], P(n + 1))
    BY <2>1, <2>2, <2>3, ProgressGoesOn
  <2>6. ASSUME b.deferred = {}, Sorted(s) PROVE Unready(f[n + 1])
    <3>1. Unready(c)
      BY <1>6, <2>6 DEF c
    <3> QED
      BY <2>1, <2>3, <2>4, <2>6, <3>1, StaysUnready
  <2> QED
    BY <2>5, <2>6
<1> HIDE DEF Claim
<1>7. 0 \in T /\ \A n \in 0 .. N - 1 : n \in T => n + 1 \in T
  BY <1>5, <1>6
<1>10. N \in Nat
  OBVIOUS
<1> HIDE DEF T, N
<1>8. N \in T
  <2>1. 0 .. N \subseteq T
    BY <1>7, <1>10, Climb, Zenon
  <2> QED
    BY <1>10, <2>1
<1>9. Claim(N)
  BY <1>8 DEF T
<1> QED
  BY <1>4, <1>9 DEF Claim, N, P

-----------------------------------------------------------------------------
(* The queue in the order of timestamps.                                    *)

(* Ranks that differ and are below the number of elements are all taken.    *)
LEMMA RanksFill ==
    ASSUME NEW D, NEW n \in Nat, n = Cardinality(D), NEW rank \in Injection(D, 0 .. n - 1)
    PROVE  rank \in Surjection(D, 0 .. n - 1)
<1> DEFINE T == 0 .. n - 1
<1>1. IsFiniteSet(T) /\ Cardinality(T) = n
  <2> DEFINE m == n - 1
  <2>1. m \in Int /\ (IF 0 > m THEN 0 ELSE m - 0 + 1) = n
    OBVIOUS
  <2> HIDE DEF m
  <2>2. IsFiniteSet(0 .. m) /\ Cardinality(0 .. m) = IF 0 > m THEN 0 ELSE m - 0 + 1
    <3>1. 0 \in Int
      OBVIOUS
    <3> QED
      BY <2>1, <3>1, FS_Interval, Zenon
  <2> QED
    BY <2>1, <2>2, Zenon DEF m
<1>2. rank \in Injection(D, T)
  OBVIOUS
<1> HIDE DEF T
<1>3. rank \in Surjection(D, T)
  BY <1>1, <1>2, FS_Injection
<1> QED
  BY <1>3 DEF T

LEMMA InOrderIs ==
    ASSUME NEW w, WorldOK(w), NEW D \in SUBSET w.ops
    PROVE  LET s == InOrder(D)
           IN  /\ Len(s) \in Nat /\ \A i \in 1 .. Len(s) : s[i] \in D
               /\ {s[i] : i \in 1 .. Len(s)} = D
               /\ Sorted(s)
<1> DEFINE n == Cardinality(D)
           Low(o) == {p \in D : Before(p.ts, o.ts)}
           rank == [o \in D |-> Cardinality(Low(o))]
           s == InOrder(D)
<1>1. IsFiniteSet(D) /\ n \in Nat
  BY FS_Subset, FS_CardinalityType DEF WorldOK
<1>2. \A o, p \in D : o.ts = p.ts => o = p
  BY DEF WorldOK
<1>3. \A o \in D : o.ts \in Timestamps
  BY OpTyped
<1>4. ASSUME NEW o \in D
      PROVE  IsFiniteSet(Low(o)) /\ Cardinality(Low(o)) \in 0 .. n - 1
  <2>1. Low(o) \in SUBSET (D \ {o})
    BY <1>3, BeforeOrder
  <2>2. IsFiniteSet(D \ {o}) /\ Cardinality(D \ {o}) = n - 1
    BY <1>1, FS_RemoveElement
  <2> HIDE DEF Low, n
  <2>3. IsFiniteSet(Low(o)) /\ Cardinality(Low(o)) <= n - 1 /\ Cardinality(Low(o)) \in Nat
    BY <2>1, <2>2, FS_Subset, FS_CardinalityType
  <2> QED
    BY <1>1, <2>3
<1>5. ASSUME NEW o \in D, NEW p \in D, Before(o.ts, p.ts)
      PROVE  Cardinality(Low(o)) < Cardinality(Low(p))
  <2>1. \A q \in D : Before(q.ts, o.ts) => Before(q.ts, p.ts)
    BY <1>3, <1>5, BeforeOrder
  <2>2. Low(o) \in SUBSET Low(p)
    BY <2>1
  <2>3. o \in Low(p) /\ o \notin Low(o)
    BY <1>3, <1>5, BeforeOrder
  <2>4. /\ IsFiniteSet(Low(p)) /\ Cardinality(Low(p)) \in 0 .. n - 1
        /\ Cardinality(Low(o)) \in 0 .. n - 1
    BY <1>4
  <2> HIDE DEF Low, n
  <2>5. Cardinality(Low(o)) <= Cardinality(Low(p)) /\ Cardinality(Low(o)) # Cardinality(Low(p))
    BY <2>2, <2>3, <2>4, FS_Subset
  <2> QED
    BY <1>1, <2>4, <2>5
<1> HIDE DEF Low, n
<1>6. rank \in [D -> 0 .. n - 1] /\ \A o \in D : rank[o] = Cardinality(Low(o))
  BY <1>4
<1>7. \A o, p \in D : rank[o] = rank[p] => o = p
  <2> SUFFICES ASSUME NEW o \in D, NEW p \in D, rank[o] = rank[p] PROVE o = p
    BY Zenon
  <2>1. Cardinality(Low(o)) = Cardinality(Low(p)) /\ Cardinality(Low(o)) \in Int
    BY <1>4, <1>6
  <2>2. ~ Before(o.ts, p.ts) /\ ~ Before(p.ts, o.ts)
    BY <1>5, <2>1
  <2> QED
    BY <1>2, <1>3, <2>2, BeforeOrder
<1> HIDE DEF rank
<1>8. \A i \in 0 .. n - 1 : \E o \in D : rank[o] = i
  <2>1. rank \in Injection(D, 0 .. n - 1)
    BY <1>6, <1>7 DEF Injection, IsInjective
  <2>2. rank \in Surjection(D, 0 .. n - 1)
    BY <1>1, <2>1, RanksFill, Zenon DEF n
  <2> QED
    BY <2>2 DEF Surjection
<1>9. s = [i \in 1 .. n |-> CHOOSE o \in D : Cardinality(Low(o)) = i - 1]
  BY Zenon DEF InOrder, Low, n
<1> HIDE DEF s
<1>10. ASSUME NEW i \in 1 .. n PROVE s[i] \in D /\ rank[s[i]] = i - 1
  <2>1. i - 1 \in 0 .. n - 1
    BY <1>1
  <2>2. \E o \in D : Cardinality(Low(o)) = i - 1
    BY <1>6, <1>8, <2>1
  <2>3. s[i] = CHOOSE o \in D : Cardinality(Low(o)) = i - 1
    BY <1>9
  <2>4. s[i] \in D /\ Cardinality(Low(s[i])) = i - 1
    BY <2>2, <2>3, Zenon
  <2> QED
    BY <1>6, <2>4
<1>11. s \in [1 .. n -> D]
  BY <1>9, <1>10
<1>12. Len(s) = n
  BY <1>1, <1>11, FunSeq
<1>13. {s[i] : i \in 1 .. n} = D
  <2> SUFFICES ASSUME NEW o \in D PROVE \E i \in 1 .. n : s[i] = o
    BY <1>10
  <2> DEFINE i == rank[o] + 1
  <2>1. rank[o] \in 0 .. n - 1 /\ rank[o] \in Nat /\ i \in 1 .. n /\ i - 1 = rank[o]
    BY <1>1, <1>6
  <2> HIDE DEF i
  <2>2. s[i] \in D /\ rank[s[i]] = rank[o]
    BY <1>10, <2>1
  <2> QED
    BY <1>7, <2>1, <2>2
<1>14. \A i, j \in 1 .. n : i < j => Before(s[i].ts, s[j].ts)
  <2> SUFFICES ASSUME NEW i \in 1 .. n, NEW j \in 1 .. n, i < j
               PROVE  Before(s[i].ts, s[j].ts)
    BY Zenon
  <2>1. s[i] \in D /\ s[j] \in D /\ rank[s[i]] = i - 1 /\ rank[s[j]] = j - 1
    BY <1>10
  <2>2. s[i] # s[j]
    BY <2>1
  <2>3. s[i].ts \in Timestamps /\ s[j].ts \in Timestamps /\ s[i].ts # s[j].ts
    BY <1>2, <1>3, <2>1, <2>2
  <2>4. ASSUME Before(s[j].ts, s[i].ts) PROVE FALSE
    <3>1. Cardinality(Low(s[j])) < Cardinality(Low(s[i]))
      BY <1>5, <2>1, <2>4
    <3>2. rank[s[j]] < rank[s[i]]
      BY <1>6, <2>1, <3>1
    <3> QED
      BY <2>1, <3>2
  <2> QED
    BY <2>3, <2>4, BeforeOrder
<1>15. Sorted(s)
  BY <1>12, <1>14, Zenon DEF Sorted
<1> QED
  BY <1>1, <1>10, <1>12, <1>13, <1>15 DEF s

(* What apply_ops makes of b with the operations of Q.                      *)
Brings(w, b, c, Q) ==
    /\ BufferOK(w, c) /\ Unready(c)
    /\ KeepsOrder(w, b.frags, c.frags)
    /\ ObservedAll(c.version, b.version)
    /\ Covered(w, c.version) = Covered(w, b.version) \cup ((b.deferred \cup Q) \ c.deferred)
    /\ c.waiting \subseteq b.waiting
    /\ (\A v \in b.waiting : ~ ObservedAll(b.version, v))
          => \A v \in c.waiting : ~ ObservedAll(c.version, v)

LEMMA ApplyAllIs ==
    ASSUME NEW w, WorldOK(w), NEW b, BufferOK(w, b), NEW batch, Len(batch) \in Nat,
           \A i \in 1 .. Len(batch) : batch[i] \in w.ops
    PROVE  Brings(w, b, ApplyAll(b, batch), {batch[i] : i \in 1 .. Len(batch)})
<1> DEFINE Q == {batch[i] : i \in 1 .. Len(batch)}
           d == EachInTurn(b, batch)
           e == [d EXCEPT !.deferred = {}, !.deferredReplicas = {}]
           s == InOrder(d.deferred)
           c == EachInTurn(e, s)
<1>1. ApplyAll(b, batch) = c
  BY DEF ApplyAll, FlushDeferredOps
<1>2. Progress(w, b, d, Q)
  BY AllInTurn
<1> HIDE DEF d, Q
<1>3. BufferOK(w, d) /\ d \in Buffers(w)
  BY <1>2 DEF Progress, BufferOK
<1>4. /\ d = [clock |-> d.clock, version |-> d.version, frags |-> d.frags,
              undos |-> d.undos, deferred |-> d.deferred,
              deferredReplicas |-> d.deferredReplicas, waiting |-> d.waiting]
      /\ d.version \in Versions /\ d.waiting \subseteq Versions /\ d.clock \in Nat
      /\ d.frags \in Seq(Fragments)
      /\ d.undos \subseteq Entries(w) /\ d.deferred \subseteq w.ops
      /\ d.deferredReplicas \subseteq Replicas
  BY <1>3, BufferParts
<1>20. e = [d EXCEPT !.deferred = {}, !.deferredReplicas = {}]
  OBVIOUS
<1> HIDE DEF e
<1>5. /\ e.clock = d.clock /\ e.version = d.version /\ e.frags = d.frags /\ e.undos = d.undos
      /\ e.deferred = {} /\ e.deferredReplicas = {} /\ e.waiting = d.waiting
      /\ e = [clock |-> d.clock, version |-> d.version, frags |-> d.frags,
              undos |-> d.undos, deferred |-> {},
              deferredReplicas |-> {}, waiting |-> d.waiting]
  BY <1>4, <1>20
<1>6. BufferOK(w, e)
  <2>1. e \in Buffers(w)
    BY <1>4, <1>5, BufferParts
  <2>2. e.deferredReplicas = {p.ts[2] : p \in e.deferred}
    BY <1>5
  <2> QED
    BY <1>3, <1>5, <2>1, <2>2, Zenon DEF BufferOK
<1>7. /\ Len(s) \in Nat /\ \A i \in 1 .. Len(s) : s[i] \in d.deferred
      /\ {s[i] : i \in 1 .. Len(s)} = d.deferred
      /\ Sorted(s)
  BY <1>4, InOrderIs
<1> HIDE DEF s
<1>8. Progress(w, e, c, d.deferred) /\ Unready(c)
  <2>1. \A i \in 1 .. Len(s) : s[i] \in w.ops
    BY <1>4, <1>7
  <2> QED
    BY <1>5, <1>6, <1>7, <2>1, AllInTurn
<1> HIDE DEF c
<1>9. c.version \in Versions /\ b.version \in Versions /\ BufferOK(w, c)
  BY <1>8, BufferParts DEF Progress, BufferOK
<1>10. ObservedAll(c.version, b.version)
  <2>1. ObservedAll(c.version, d.version) /\ ObservedAll(d.version, b.version)
    BY <1>2, <1>5, <1>8 DEF Progress
  <2> QED
    BY <1>4, <1>9, <2>1, ObservedAllTrans
<1>11. KeepsOrder(w, b.frags, c.frags)
  BY <1>2, <1>5, <1>8, Zenon DEF Progress, KeepsOrder
<1>12. Covered(w, c.version) \cap c.deferred = {}
  <2>1. \A op \in Covered(w, c.version) : ObservedAll(c.version, op.version)
    BY <1>9 DEF BufferOK, Sound
  <2> QED
    BY <1>8, <2>1 DEF Unready
<1>13. /\ b.deferred \subseteq d.deferred /\ d.deferred \subseteq b.deferred \cup Q
       /\ Covered(w, d.version) \subseteq Covered(w, b.version) \cup Q
       /\ Q \subseteq Covered(w, d.version) \cup d.deferred
  BY <1>2 DEF Progress
<1>14. /\ Covered(w, c.version) \subseteq Covered(w, d.version) \cup d.deferred
       /\ d.deferred \subseteq Covered(w, c.version) \cup c.deferred
       /\ c.waiting \subseteq d.waiting
  BY <1>5, <1>8 DEF Progress
<1>15. Covered(w, d.version) \subseteq Covered(w, c.version) /\ Covered(w, b.version) \subseteq Covered(w, d.version)
  <2>1. ObservedAll(c.version, d.version) /\ ObservedAll(d.version, b.version)
    BY <1>2, <1>5, <1>8 DEF Progress
  <2> QED
    BY <1>4, <1>9, <2>1, CoveredGrows
<1>16. Covered(w, c.version) = Covered(w, b.version) \cup ((b.deferred \cup Q) \ c.deferred)
  BY <1>12, <1>13, <1>14, <1>15
<1>17. c.waiting \subseteq b.waiting
  BY <1>2, <1>14 DEF Progress
<1>18. (\A v \in b.waiting : ~ ObservedAll(b.version, v))
          => \A v \in c.waiting : ~ ObservedAll(c.version, v)
  BY <1>2, <1>5, <1>8, Zenon DEF Progress
<1>19. Brings(w, b, c, Q)
  BY <1>8, <1>9, <1>10, <1>11, <1>16, <1>17, <1>18 DEF Brings
<1> QED
  BY <1>1, <1>19 DEF Q

-----------------------------------------------------------------------------
(* A new operation.                                                         *)

(* An author's version is ahead of all others in the author's own place.    *)
LEMMA OwnIsAhead ==
    ASSUME NEW w, WorldOK(w), NEW x, Sound(w, x), NEW r \in Replicas,
           \A p \in w.ops : p.ts[2] = r => Observed(x, p.ts), NEW v, Sound(w, v)
    PROVE  v[r] <= x[r]
<1>1. CASE v[r] = BaseVersion[r]
  BY <1>1, BaseIs DEF Sound, Versions
<1>2. CASE <<v[r], r>> \in Stamps(w.ops)
  <2>1. PICK p \in w.ops : p.ts = <<v[r], r>>
    BY <1>2 DEF Stamps
  <2>2. x[r] >= v[r]
    BY <2>1 DEF Observed
  <2> QED
    BY <2>2 DEF Sound, Versions
<1> QED
  BY <1>1, <1>2 DEF Sound

(* The author of op, with buffer b, adds op to world w, which becomes x.    *)
Adds(w, x, b, op) ==
    /\ WorldOK(w) /\ BufferOK(w, b)
    /\ op.ts \in Timestamps /\ op.ts[1] > 1 /\ op.ts[1] >= b.clock
    /\ op.version = b.version
    /\ \A p \in w.ops : p.ts[2] = op.ts[2] => Observed(b.version, p.ts)
    /\ x.ops = w.ops \cup {op}
    /\ \A t \in Stamps(w.ops) : x.seen[t] = w.seen[t] /\ x.erased[t] = w.erased[t]
    /\ x.seen[op.ts] = b.frags
    /\ (op.kind = "edit" /\ EditOK(x, op)) \/ (op.kind = "undo" /\ UndoOK(x, op))

LEMMA AddsNew ==
    ASSUME NEW w, NEW x, NEW b, NEW op, Adds(w, x, b, op)
    PROVE  /\ \A v : Sound(w, v) => ~ Observed(v, op.ts)
           /\ \A q \in Replicas : b.version[q] < op.ts[1]
           /\ \A p \in w.ops : p.ts[2] = op.ts[2] => p.ts[1] < op.ts[1]
           /\ op.ts \notin Stamps(w.ops)
<1>1. /\ WorldOK(w) /\ Sound(w, b.version) /\ b.version \in Versions /\ b.clock \in Nat
      /\ \A q \in Replicas : b.version[q] < b.clock
  BY BufferParts DEF Adds, BufferOK
<1>2. op.ts \in Timestamps /\ op.ts[1] \in Nat /\ op.ts[2] \in Replicas /\ op.ts[1] >= b.clock
  BY StampParts DEF Adds
<1>3. \A q \in Replicas : b.version[q] < op.ts[1] /\ b.version[q] \in Nat
  BY <1>1, <1>2 DEF Versions
<1>4. ASSUME NEW v, Sound(w, v) PROVE ~ Observed(v, op.ts)
  <2>1. v[op.ts[2]] <= b.version[op.ts[2]]
    BY <1>1, <1>2, <1>4, OwnIsAhead DEF Adds
  <2>2. v[op.ts[2]] \in Nat
    BY <1>2, <1>4 DEF Sound, Versions
  <2> QED
    BY <1>2, <1>3, <2>1, <2>2 DEF Observed
<1>5. ASSUME NEW p \in w.ops, p.ts[2] = op.ts[2] PROVE p.ts[1] < op.ts[1]
  <2>1. b.version[op.ts[2]] >= p.ts[1] /\ p.ts[1] \in Nat
    BY <1>1, <1>5, OpTyped DEF Adds, Observed
  <2> QED
    BY <1>2, <1>3, <2>1
<1>6. op.ts \notin Stamps(w.ops)
  BY <1>2, <1>5 DEF Stamps
<1> QED
  BY <1>3, <1>4, <1>5, <1>6

(* What a version covered it still covers, and nothing else.                *)
LEMMA AddsSame ==
    ASSUME NEW w, NEW x, NEW b, NEW op, Adds(w, x, b, op), NEW v, Sound(w, v)
    PROVE  /\ Covered(x, v) = Covered(w, v)
           /\ CharsOf(x, v) = CharsOf(w, v)
           /\ EntriesOf(x, v) = EntriesOf(w, v)
           /\ Sound(x, v)
<1>1. ~ Observed(v, op.ts)
  BY AddsNew
<1>2. Covered(x, v) = Covered(w, v)
  BY <1>1 DEF Covered, Adds
<1>3. CharsOf(x, v) = CharsOf(w, v) /\ EntriesOf(x, v) = EntriesOf(w, v)
  BY <1>2, Zenon DEF CharsOf, EntriesOf
<1>4. Stamps(w.ops) \subseteq Stamps(x.ops)
  BY DEF Stamps, Adds
<1>5. Sound(x, v)
  BY <1>2, <1>4 DEF Sound
<1> QED
  BY <1>2, <1>3, <1>5

LEMMA AddsTouches ==
    ASSUME NEW w, NEW x, NEW b, NEW op, Adds(w, x, b, op), NEW p \in w.ops, NEW c
    PROVE  Touches(x, p, c) <=> Touches(w, p, c)
<1>1. CASE p.kind # "undo"
  BY <1>1 DEF Touches
<1>2. CASE p.kind = "undo"
  <2>1. DOMAIN p.counts \subseteq Stamps(w.ops)
    BY <1>2 DEF Adds, WorldOK, OpOK, UndoOK, Covered, Stamps
  <2>2. \A e \in DOMAIN p.counts : x.erased[e] = w.erased[e]
    BY <2>1 DEF Adds
  <2> QED
    BY <2>2 DEF Touches
<1> QED
  BY <1>1, <1>2

LEMMA AddsView ==
    ASSUME NEW w, NEW x, NEW b, NEW op, Adds(w, x, b, op), NEW v, Sound(w, v),
           NEW F, View(w, F, v)
    PROVE  View(x, F, v)
<1>1. /\ Covered(x, v) = Covered(w, v) /\ CharsOf(x, v) = CharsOf(w, v)
      /\ EntriesOf(x, v) = EntriesOf(w, v)
  BY AddsSame
<1>2. Covered(w, v) \subseteq w.ops /\ Stamps(Covered(w, v)) \subseteq Stamps(w.ops)
  BY DEF Covered, Stamps
<1>3. ASSUME NEW f, Kept(w, v, f) PROVE Kept(x, v, f)
  <2>1. Char(f) \in CharsOf(x, v)
    BY <1>1, <1>3 DEF Kept
  <2>2. f.dels = {t \in Stamps(Covered(x, v)) : Char(f) \in x.erased[t]}
    <3>1. f.dels = {t \in Stamps(Covered(w, v)) : Char(f) \in w.erased[t]}
      BY <1>3 DEF Kept
    <3>2. \A t \in Stamps(Covered(w, v)) : x.erased[t] = w.erased[t]
      BY <1>2 DEF Adds
    <3> QED
      BY <1>1, <3>1, <3>2
  <2>3. f.visible = IsVisible(f, EntriesOf(x, v))
    <3>1. f.visible = IsVisible(f, EntriesOf(w, v))
      BY <1>3, Zenon DEF Kept
    <3> QED
      BY <1>1, <3>1, Zenon
  <2>4. \A q \in Replicas : LastTouch(x, v, Char(f), q, f.maxUndos[q])
    <3> SUFFICES ASSUME NEW q \in Replicas PROVE LastTouch(x, v, Char(f), q, f.maxUndos[q])
      OBVIOUS
    <3>1. LastTouch(w, v, Char(f), q, f.maxUndos[q])
      BY <1>3 DEF Kept
    <3>2. \A p \in Covered(w, v) : Touches(x, p, Char(f)) <=> Touches(w, p, Char(f))
      BY <1>2, AddsTouches
    <3> QED
      BY <1>1, <3>1, <3>2, Zenon DEF LastTouch
  <2> QED
    BY <2>1, <2>2, <2>3, <2>4, Zenon DEF Kept
<1>4. ASSUME NEW t, NEW j, IsAnchor(w, F, t, j) PROVE IsAnchor(x, F, t, j)
  <2>1. \A o \in w.ops : o \in x.ops /\ x.seen[o.ts] = w.seen[o.ts]
    BY DEF Adds, Stamps
  <2> QED
    BY <1>4, <2>1 DEF IsAnchor
<1>5. \A i \in DOMAIN F : Placed(x, F, i)
  BY <1>4, Zenon DEF View, Placed
<1>6. \A i \in DOMAIN F : Kept(x, v, F[i])
  BY <1>3 DEF View
<1> QED
  BY <1>1, <1>5, <1>6 DEF View

LEMMA AddsWorld ==
    ASSUME NEW w, NEW x, NEW b, NEW op, Adds(w, x, b, op)
    PROVE  WorldOK(x)
<1>1. /\ WorldOK(w) /\ BufferOK(w, b) /\ Sound(w, b.version) /\ View(w, b.frags, b.version)
  BY DEF Adds, BufferOK
<1>2. /\ \A q \in Replicas : b.version[q] < op.ts[1]
      /\ \A p \in w.ops : p.ts[2] = op.ts[2] => p.ts[1] < op.ts[1]
      /\ op.ts \notin Stamps(w.ops)
  BY AddsNew
<1>3. IsFiniteSet(x.ops)
  BY <1>1, FS_AddElement DEF WorldOK, Adds
<1>4. \A o, p \in x.ops : o.ts = p.ts => o = p
  BY <1>1, <1>2 DEF WorldOK, Adds, Stamps
<1>5. ASSUME NEW p \in w.ops PROVE OpOK(x, p)
  <2>1. OpOK(w, p) /\ p.ts \in Timestamps /\ Sound(w, p.version) /\ p.ts \in Stamps(w.ops)
        /\ p.ts[1] \in Nat
    BY <1>1, OpTyped DEF WorldOK, Stamps
  <2>2. Sound(x, p.version) /\ Covered(x, p.version) = Covered(w, p.version)
    BY <2>1, AddsSame
  <2>3. x.seen[p.ts] = w.seen[p.ts] /\ x.erased[p.ts] = w.erased[p.ts]
    BY <2>1 DEF Adds
  <2>4. View(x, x.seen[p.ts], p.version)
    BY <2>1, <2>3, AddsView DEF OpOK
  <2>5. \A o \in x.ops : o.ts[2] = p.ts[2] /\ o.ts[1] < p.ts[1] => Observed(p.version, o.ts)
    <3> SUFFICES ASSUME NEW o \in x.ops, o.ts[2] = p.ts[2], o.ts[1] < p.ts[1]
                 PROVE  Observed(p.version, o.ts)
      OBVIOUS
    <3>1. o # op
      <4> SUFFICES ASSUME o = op PROVE FALSE
        OBVIOUS
      <4>1. p.ts[1] < op.ts[1] /\ op.ts[1] \in Nat
        BY <1>2, StampParts DEF Adds
      <4> QED
        BY <2>1, <4>1
    <3> QED
      BY <2>1, <3>1 DEF OpOK, Adds
  <2>6. EditOK(w, p) => EditOK(x, p)
    BY <2>3, Zenon DEF EditOK
  <2>7. UndoOK(w, p) => UndoOK(x, p)
    BY <2>2, <2>3, Zenon DEF UndoOK
  <2> QED
    BY <2>1, <2>2, <2>4, <2>5, <2>6, <2>7 DEF OpOK
<1>6. OpOK(x, op)
  <2>1. Sound(x, op.version)
    BY <1>1, AddsSame DEF Adds
  <2>2. View(x, x.seen[op.ts], op.version)
    BY <1>1, AddsView DEF Adds
  <2>3. \A o \in x.ops : o.ts[2] = op.ts[2] /\ o.ts[1] < op.ts[1] => Observed(op.version, o.ts)
    <3> SUFFICES ASSUME NEW o \in x.ops, o.ts[2] = op.ts[2], o.ts[1] < op.ts[1]
                 PROVE  Observed(op.version, o.ts)
      OBVIOUS
    <3>1. o # op
      BY StampParts DEF Adds
    <3> QED
      BY <3>1 DEF Adds
  <2> QED
    BY <1>2, <2>1, <2>2, <2>3 DEF OpOK, Adds
<1>7. ASSUME NEW o \in x.ops, NEW p \in x.ops PROVE Agree(x.seen[o.ts], x.seen[p.ts])
  <2>1. \A q \in w.ops : x.seen[q.ts] = w.seen[q.ts] /\ Agree(b.frags, w.seen[q.ts])
    BY <1>1 DEF Adds, BufferOK, Stamps
  <2>2. Agree(b.frags, b.frags)
    BY <1>1 DEF View, Agree
  <2>3. \A q \in w.ops : Agree(w.seen[q.ts], b.frags)
    BY <2>1, AgreeBack
  <2>4. x.ops = w.ops \cup {op} /\ x.seen[op.ts] = b.frags
    BY DEF Adds
  <2>5. \A q, u \in w.ops : Agree(w.seen[q.ts], w.seen[u.ts])
    BY <1>1 DEF WorldOK
  <2> QED
    BY <2>1, <2>2, <2>3, <2>4, <2>5, Zenon
<1>8. \A p \in x.ops : OpOK(x, p)
  BY <1>5, <1>6 DEF Adds
<1> QED
  BY <1>3, <1>4, <1>7, <1>8 DEF WorldOK

(* The buffers are as good in the new world, if they agree with the author. *)
LEMMA AddsBuffer ==
    ASSUME NEW w, NEW x, NEW b, NEW op, Adds(w, x, b, op), NEW c, BufferOK(w, c),
           Agree(c.frags, b.frags)
    PROVE  BufferOK(x, c)
<1>1. Sound(w, c.version) /\ c \in Buffers(w) /\ View(w, c.frags, c.version)
  BY DEF BufferOK
<1>2. Sound(x, c.version) /\ EntriesOf(x, c.version) = EntriesOf(w, c.version)
  BY <1>1, AddsSame
<1>3. View(x, c.frags, c.version)
  BY <1>1, AddsView
<1>4. c \in Buffers(x)
  <2>1. w.ops \subseteq x.ops
    BY DEF Adds
  <2>2. Entries(w) \subseteq Entries(x)
    BY <2>1 DEF Entries
  <2>3. /\ c = [clock |-> c.clock, version |-> c.version, frags |-> c.frags,
              undos |-> c.undos, deferred |-> c.deferred,
              deferredReplicas |-> c.deferredReplicas, waiting |-> c.waiting]
      /\ c.version \in Versions /\ c.waiting \subseteq Versions /\ c.clock \in Nat
      /\ c.frags \in Seq(Fragments)
      /\ c.undos \subseteq Entries(w) /\ c.deferred \subseteq w.ops
      /\ c.deferredReplicas \subseteq Replicas
    BY <1>1, BufferParts
  <2>4. c.undos \subseteq Entries(x) /\ c.deferred \subseteq x.ops
    BY <2>1, <2>2, <2>3
  <2> QED
    BY <2>3, <2>4, BufferParts
<1>5. \A p \in x.ops : Agree(c.frags, x.seen[p.ts])
  <2>1. \A p \in w.ops : Agree(c.frags, w.seen[p.ts]) /\ x.seen[p.ts] = w.seen[p.ts]
    BY DEF BufferOK, Adds, Stamps
  <2> QED
    BY <2>1, Zenon DEF Adds
<1> QED
  BY <1>2, <1>3, <1>4, <1>5, Zenon DEF BufferOK

-----------------------------------------------------------------------------
(* A replica's own edit.                                                    *)

LEMMA NthExists ==
    ASSUME NEW N \in Nat, NEW S \in SUBSET (1 .. N), NEW n \in 1 .. Cardinality(S)
    PROVE  Nth(S, n) \in S /\ Cardinality({j \in S : j <= Nth(S, n)}) = n
<1> DEFINE R(k) == {j \in S : j <= k}
           m == Cardinality(S)
           rank == [i \in S |-> Cardinality(R(i)) - 1]
<1>1. IsFiniteSet(S) /\ m \in Nat
  <2>1. IsFiniteSet(1 .. N)
    BY FS_Interval
  <2> QED
    BY <2>1, FS_Subset, FS_CardinalityType
<1>2. ASSUME NEW i \in S PROVE Cardinality(R(i)) \in 1 .. m
  <2>1. R(i) \in SUBSET S /\ i \in R(i)
    OBVIOUS
  <2> HIDE DEF R
  <2>2. IsFiniteSet(R(i)) /\ Cardinality(R(i)) <= m /\ Cardinality(R(i)) \in Nat
    BY <1>1, <2>1, FS_Subset, FS_CardinalityType
  <2>3. Cardinality(R(i)) # 0
    BY <2>1, <2>2, FS_EmptySet
  <2> QED
    BY <1>1, <2>2, <2>3
<1>3. \A i \in S : Nth(S, Cardinality(R(i))) = i
  BY NthIs
<1> HIDE DEF R, m
<1>4. rank \in [S -> 0 .. m - 1] /\ \A i \in S : rank[i] = Cardinality(R(i)) - 1
  BY <1>1, <1>2
<1> HIDE DEF rank
<1>5. \A i, j \in S : rank[i] = rank[j] => i = j
  <2> SUFFICES ASSUME NEW i \in S, NEW j \in S, rank[i] = rank[j] PROVE i = j
    BY Zenon
  <2>1. Cardinality(R(i)) = Cardinality(R(j))
    BY <1>2, <1>4
  <2> QED
    BY <1>3, <2>1
<1>6. \A k \in 0 .. m - 1 : \E i \in S : rank[i] = k
  <2>1. rank \in Injection(S, 0 .. m - 1)
    BY <1>4, <1>5 DEF Injection, IsInjective
  <2>2. rank \in Surjection(S, 0 .. m - 1)
    BY <1>1, <2>1, RanksFill, Zenon DEF m
  <2> QED
    BY <2>2 DEF Surjection
<1>7. n \in 1 .. m /\ n - 1 \in 0 .. m - 1
  BY <1>1 DEF m
<1>8. PICK i \in S : rank[i] = n - 1
  BY <1>6, <1>7
<1>9. Cardinality(R(i)) = n
  BY <1>2, <1>4, <1>7, <1>8
<1>10. Nth(S, n) = i
  BY <1>3, <1>9
<1> QED
  BY <1>9, <1>10 DEF R

LEMMA FullRange ==
    ASSUME NEW F \in Seq(Fragments), NEW m, m = Cardinality(VisibleAt(F)),
           NEW s \in 0 .. m, NEW e \in s .. m
    PROVE  /\ m \in Nat /\ FullStart(F, s) \in 0 .. Len(F)
           /\ FullEnd(F, s, e) \in FullStart(F, s) .. Len(F)
<1> DEFINE N == Len(F)
           S == VisibleAt(F)
           P(n) == Nth(S, n)
           R(k) == {j \in S : j <= k}
<1>1. N \in Nat /\ DOMAIN F = 1 .. N
  BY SeqParts
<1>2. S \in SUBSET (1 .. N)
  BY <1>1 DEF VisibleAt
<1>3. IsFiniteSet(S) /\ m \in Nat
  <2>1. IsFiniteSet(1 .. N)
    BY <1>1, FS_Interval
  <2> QED
    BY <1>2, <2>1, FS_Subset, FS_CardinalityType
<1>4. FullStart(F, s) = (IF s = m THEN N ELSE P(s + 1) - 1)
  BY Zenon DEF FullStart
<1>5. FullEnd(F, s, e) = (IF e = s THEN FullStart(F, s) ELSE P(e))
  BY Zenon DEF FullEnd
<1> HIDE DEF S, N
<1>6. ASSUME NEW n \in 1 .. m PROVE P(n) \in S /\ Cardinality(R(P(n))) = n /\ P(n) \in 1 .. N
  <2>1. n \in 1 .. Cardinality(S)
    BY <1>3 DEF S
  <2> QED
    BY <1>1, <1>2, <2>1, NthExists
<1> HIDE DEF P
<1>7. ASSUME NEW n \in 1 .. m, NEW k \in n .. m PROVE P(n) <= P(k)
  <2> SUFFICES ASSUME ~ (P(n) <= P(k)) PROVE FALSE
    OBVIOUS
  <2>1. k \in 1 .. m
    BY <1>3
  <2>2. P(n) \in S /\ P(k) \in S /\ P(n) \in 1 .. N /\ P(k) \in 1 .. N
        /\ Cardinality(R(P(n))) = n /\ Cardinality(R(P(k))) = k
    BY <1>6, <2>1
  <2>3. \A j \in S : j \in Int
    BY <1>2
  <2>4. R(P(k)) \in SUBSET R(P(n)) /\ P(n) \in R(P(n)) /\ P(n) \notin R(P(k))
    BY <2>2, <2>3
  <2>5. R(P(n)) \in SUBSET S
    OBVIOUS
  <2> HIDE DEF R
  <2>6. IsFiniteSet(R(P(n)))
    BY <1>3, <2>5, FS_Subset
  <2>7. k <= n /\ k # n
    BY <2>2, <2>4, <2>6, FS_Subset
  <2> QED
    BY <1>3, <2>7
<1> HIDE DEF R
<1>8. CASE s = m
  <2>1. e = s
    BY <1>3, <1>8
  <2> QED
    BY <1>1, <1>3, <1>4, <1>5, <1>8, <2>1 DEF N
<1>9. CASE s # m
  <2>1. s + 1 \in 1 .. m
    BY <1>3, <1>9
  <2>2. P(s + 1) \in 1 .. N
    BY <1>6, <2>1
  <2>3. FullStart(F, s) = P(s + 1) - 1
    BY <1>4, <1>9
  <2>4. CASE e = s
    BY <1>1, <1>3, <1>5, <2>2, <2>3, <2>4 DEF N
  <2>5. CASE e # s
    <3>1. e \in s + 1 .. m /\ e \in 1 .. m
      BY <1>3, <2>5
    <3>2. P(s + 1) <= P(e) /\ P(e) \in 1 .. N
      BY <1>6, <1>7, <2>1, <3>1
    <3> QED
      BY <1>1, <1>3, <1>5, <2>2, <2>3, <2>5, <3>2 DEF N
  <2> QED
    BY <2>4, <2>5
<1> QED
  BY <1>8, <1>9

(* What a replica's own operation makes of its buffer.                      *)
Does(w, x, b, op, c) ==
    /\ BufferOK(x, c)
    /\ c.version = Observe(b.version, op.ts)
    /\ Covered(x, c.version) = Covered(w, b.version) \cup {op}
    /\ c.deferred = b.deferred /\ c.waiting = b.waiting
    /\ KeepsOrder(x, b.frags, c.frags)

LEMMA OwnEdit ==
    ASSUME NEW w, NEW x, NEW b, NEW op, Adds(w, x, b, op), op.kind = "edit",
           op.ts[1] = b.clock + 1, NEW dead,
           dead = {i \in op.start + 1 .. op.end : b.frags[i].visible}, NEW c,
           c = [clock |-> b.clock + 2, version |-> Observe(b.version, op.ts),
                frags |-> Splice(b.frags, op.start, op.end, NewFragments(op.ts, op.len), dead, op.ts),
                undos |-> b.undos, deferred |-> b.deferred,
                deferredReplicas |-> b.deferredReplicas, waiting |-> b.waiting]
    PROVE  Does(w, x, b, op, c)
<1> DEFINE F == b.frags
           v == b.version
           at == op.start
           upTo == op.end
           G == Splice(F, at, upTo, NewFragments(op.ts, op.len), dead, op.ts)
<1>1. /\ WorldOK(w) /\ BufferOK(w, b) /\ View(w, F, v) /\ Sound(w, v) /\ op.version = v
      /\ op \in x.ops /\ op.ts \in Timestamps /\ x.seen[op.ts] = F /\ EditOK(x, op)
  BY DEF Adds, BufferOK
<1>2. Agree(F, F)
  BY <1>1 DEF View, Agree
<1>3. WorldOK(x) /\ BufferOK(x, b)
  BY <1>1, <1>2, AddsWorld, AddsBuffer
<1>4. /\ View(x, F, v) /\ Sound(x, v) /\ Covered(x, v) = Covered(w, v)
  BY <1>1, AddsView, AddsSame
<1>5. F \in Seq(Fragments) /\ Len(F) \in Nat /\ DOMAIN F = 1 .. Len(F)
  BY <1>1, SeqParts DEF View
<1>6. /\ op.len \in Nat /\ at \in 0 .. Len(F) /\ upTo \in at .. Len(F)
      /\ x.erased[op.ts] = {Char(F[i]) : i \in {k \in at + 1 .. upTo : F[k].visible}}
  BY <1>1, <1>5 DEF EditOK
<1>7. op \notin Covered(x, v) /\ ObservedAll(v, op.version) /\ v \in Versions
  <2>1. ~ Observed(v, op.ts)
    BY <1>1, AddsNew
  <2> QED
    BY <1>1, <2>1 DEF Covered, ObservedAll, Sound, Versions
<1>8. dead \in SUBSET (at + 1 .. upTo) /\ {Char(F[i]) : i \in dead} = x.erased[op.ts]
  BY <1>6
<1>9. IsAnchor(x, F, op.ts, at)
  <2>1. CASE at = 0
    BY <1>1, <2>1 DEF IsAnchor
  <2>2. CASE at # 0
    BY <1>1, <1>6, <2>2 DEF IsAnchor
  <2> QED
    BY <2>1, <2>2
<1>10. at < Len(F) => Before(F[at + 1].ts, op.ts)
  <2> SUFFICES ASSUME at < Len(F) PROVE Before(F[at + 1].ts, op.ts)
    OBVIOUS
  <2>1. at + 1 \in DOMAIN F
    BY <1>5, <1>6
  <2>2. Char(F[at + 1]) \in CharsOf(x, op.version)
    BY <1>1, <1>4, <2>1 DEF View, Kept
  <2>3. Before(Char(F[at + 1])[1], op.ts)
    BY <1>1, <1>3, <2>2, KnownIsBefore
  <2> QED
    BY <2>3, CharIs
<1>11. Site(x, F, op, at, at, upTo, dead)
  <2>1. \A j \in at + 1 .. at : Before(op.ts, F[j].ts)
    BY <1>6
  <2>2. at \in at .. Len(F)
    BY <1>5, <1>6
  <2> QED
    BY <1>6, <1>8, <1>9, <1>10, <2>1, <2>2 DEF Site
<1>12. Spliced(F, G, op.ts, op.len, at, dead)
  BY <1>1, <1>5, <1>6, <1>8, SpliceIs
<1> HIDE DEF F, G, at, upTo, v
<1>13. View(x, G, Observe(v, op.ts))
  BY <1>1, <1>3, <1>4, <1>7, <1>11, <1>12, InsertView
<1>14. ASSUME NEW H, NEW u, View(x, H, u), Agree(F, H) PROVE Agree(G, H)
  BY <1>1, <1>3, <1>4, <1>7, <1>11, <1>12, <1>14, InsertAgree
<1>15. KeepsOrder(x, F, G)
  BY <1>14 DEF KeepsOrder
<1>16. EntriesOf(x, Observe(v, op.ts)) = b.undos
  <2>1. EntriesOf(x, Observe(v, op.ts)) = EntriesOf(x, v)
    BY <1>1, <1>3, <1>4, <1>7, EditCovers
  <2>2. b.undos = EntriesOf(x, v)
    BY <1>3 DEF BufferOK, v
  <2> QED
    BY <2>1, <2>2
<1>17. ObserveClock(b.clock, op.ts) = b.clock + 2
  <2>1. b.clock \in Nat
    BY <1>1, BufferParts DEF BufferOK
  <2> QED
    BY <2>1 DEF ObserveClock
<1>18. c = [clock |-> ObserveClock(b.clock, op.ts), version |-> Observe(b.version, op.ts),
            frags |-> G, undos |-> EntriesOf(x, Observe(b.version, op.ts)),
            deferred |-> b.deferred, deferredReplicas |-> b.deferredReplicas,
            waiting |-> b.waiting]
  BY <1>16, <1>17, Zenon DEF G, F, v, at, upTo
<1>19. /\ c.version = Observe(b.version, op.ts) /\ c.frags = G
       /\ c.deferred = b.deferred /\ c.waiting = b.waiting
  BY <1>18
<1>20. b.waiting \subseteq Versions
  BY <1>1, BufferParts DEF BufferOK
<1>21. BufferOK(x, c)
  BY <1>1, <1>3, <1>7, <1>13, <1>15, <1>18, <1>20, NewVersion DEF F, v
<1>22. Covered(x, c.version) = Covered(w, b.version) \cup {op}
  BY <1>1, <1>3, <1>4, <1>7, <1>19, CoverOne DEF v
<1> QED
  BY <1>15, <1>19, <1>21, <1>22, Zenon DEF Does, F

LEMMA OwnUndo ==
    ASSUME NEW w, NEW x, NEW b, NEW op, Adds(w, x, b, op), op.kind = "undo",
           op.ts[1] = b.clock, NEW c,
           c = ApplyUndo([b EXCEPT !.clock = Tick(@), !.version = Observe(@, op.ts)], op)
    PROVE  Does(w, x, b, op, c)
<1> DEFINE d == [b EXCEPT !.clock = Tick(@), !.version = Observe(@, op.ts)]
           v == b.version
           u == Observe(b.version, op.ts)
           k == b.clock + 1
<1>1. /\ WorldOK(w) /\ BufferOK(w, b) /\ View(w, b.frags, v) /\ Sound(w, v) /\ op.version = v
      /\ op \in x.ops /\ op.ts \in Timestamps
  BY DEF Adds, BufferOK
<1>2. Agree(b.frags, b.frags)
  BY <1>1 DEF View, Agree
<1>3. WorldOK(x) /\ BufferOK(x, b) /\ b \in Buffers(x)
  BY <1>1, <1>2, AddsWorld, AddsBuffer DEF BufferOK
<1>4. View(x, b.frags, v) /\ Sound(x, v) /\ Covered(x, v) = Covered(w, v)
  BY <1>1, AddsView, AddsSame
<1>5. ObservedAll(v, op.version) /\ v \in Versions /\ u \in Versions
  BY <1>1, ObserveIs DEF ObservedAll, Sound, Versions
<1>6. /\ b = [clock |-> b.clock, version |-> b.version, frags |-> b.frags,
              undos |-> b.undos, deferred |-> b.deferred,
              deferredReplicas |-> b.deferredReplicas, waiting |-> b.waiting]
      /\ b.version \in Versions /\ b.waiting \subseteq Versions /\ b.clock \in Nat
      /\ b.frags \in Seq(Fragments)
      /\ b.undos \subseteq Entries(x) /\ b.deferred \subseteq x.ops
      /\ b.deferredReplicas \subseteq Replicas
  BY <1>3, BufferParts
<1>7. d = [b EXCEPT !.clock = k, !.version = u]
  BY Zenon DEF Tick
<1>8. k \in Nat /\ k = ObserveClock(b.clock, op.ts)
  BY <1>6 DEF ObserveClock
<1>9. c = ApplyUndo(d, op)
  OBVIOUS
<1> HIDE DEF d, u, k
<1>10. /\ d = [clock |-> k, version |-> u, frags |-> b.frags,
               undos |-> b.undos, deferred |-> b.deferred,
               deferredReplicas |-> b.deferredReplicas, waiting |-> b.waiting]
       /\ d.clock = k /\ d.version = u /\ d.frags = b.frags /\ d.undos = b.undos
       /\ d.deferred = b.deferred /\ d.deferredReplicas = b.deferredReplicas
       /\ d.waiting = b.waiting
  BY <1>6, <1>7
<1>11. d \in Buffers(x)
  BY <1>5, <1>6, <1>8, <1>10, BufferParts
<1>12. View(x, d.frags, v) /\ d.undos = EntriesOf(x, v)
  BY <1>3, <1>4, <1>10 DEF BufferOK
<1>13. /\ c = [clock |-> d.clock, version |-> d.version, frags |-> c.frags,
               undos |-> EntriesOf(x, Observe(v, op.ts)),
               deferred |-> d.deferred, deferredReplicas |-> d.deferredReplicas,
               waiting |-> d.waiting]
       /\ View(x, c.frags, Observe(v, op.ts))
       /\ KeepsOrder(x, d.frags, c.frags)
  BY <1>1, <1>3, <1>4, <1>5, <1>9, <1>11, <1>12, AppliedUndo
<1> DEFINE G == c.frags
<1> HIDE DEF G
<1>14. c = [clock |-> ObserveClock(b.clock, op.ts), version |-> Observe(b.version, op.ts),
            frags |-> G, undos |-> EntriesOf(x, Observe(b.version, op.ts)),
            deferred |-> b.deferred, deferredReplicas |-> b.deferredReplicas,
            waiting |-> b.waiting]
  BY <1>8, <1>10, <1>13, Zenon DEF G, u, v
<1>15. /\ c.version = Observe(b.version, op.ts) /\ c.deferred = b.deferred /\ c.waiting = b.waiting
  BY <1>14
<1>16. View(x, G, Observe(b.version, op.ts)) /\ KeepsOrder(x, b.frags, G)
  BY <1>10, <1>13, Zenon DEF G, v
<1>17. BufferOK(x, c)
  BY <1>1, <1>3, <1>5, <1>6, <1>14, <1>16, NewVersion
<1>18. Covered(x, c.version) = Covered(w, b.version) \cup {op}
  BY <1>1, <1>3, <1>4, <1>5, <1>15, CoverOne
<1> QED
  BY <1>15, <1>16, <1>17, <1>18, Zenon DEF Does, G

-----------------------------------------------------------------------------
(* What a new operation leaves of the replicas.                             *)

LEMMA OwnReplica ==
    ASSUME NEW w, NEW x, NEW r, NEW b, NEW op, NEW c, Adds(w, x, b, op), Does(w, x, b, op, c),
           op.ts[2] = r, NEW done, ReplicaOK(w, r, b, done)
    PROVE  ReplicaOK(x, r, c, done \cup {op.ts})
<1>1. /\ WorldOK(w) /\ BufferOK(w, b) /\ Sound(w, b.version) /\ Unready(b)
      /\ op.ts \in Timestamps /\ r \in Replicas /\ x.ops = w.ops \cup {op}
      /\ done = Stamps(Covered(w, b.version))
      /\ b.version \in Versions /\ b.deferred \subseteq w.ops /\ b.waiting \subseteq Versions
  BY BufferParts, StampParts DEF Adds, BufferOK, ReplicaOK
<1>2. /\ BufferOK(x, c) /\ c.version = Observe(b.version, op.ts)
      /\ Covered(x, c.version) = Covered(w, b.version) \cup {op}
      /\ c.deferred = b.deferred /\ c.waiting = b.waiting
  BY DEF Does
<1>3. /\ c.version \in Versions /\ Observed(c.version, op.ts) /\ ObservedAll(c.version, b.version)
      /\ \A q \in Replicas : q # r => c.version[q] = b.version[q]
  BY <1>1, <1>2, ObserveIs
<1>4. ASSUME NEW v \in Versions, ~ ObservedAll(b.version, v), v[r] <= b.version[r]
      PROVE  ~ ObservedAll(c.version, v)
  <2>1. PICK q \in Replicas : ~ (b.version[q] >= v[q])
    BY <1>4 DEF ObservedAll
  <2>2. b.version[q] \in Nat /\ v[q] \in Nat
    BY <1>1 DEF Versions
  <2>3. q # r
    BY <1>4, <2>1, <2>2
  <2> QED
    BY <1>3, <2>1, <2>3 DEF ObservedAll
<1>5. Unready(c)
  <2>1. ASSUME NEW p \in c.deferred PROVE ~ ObservedAll(c.version, p.version)
    <3>1. p \in w.ops /\ p \in b.deferred /\ p.version \in Versions /\ Sound(w, p.version)
      BY <1>1, <1>2, OpTyped
    <3>2. p.version[r] <= b.version[r]
      BY <1>1, <3>1, OwnIsAhead DEF ReplicaOK
    <3>3. ~ ObservedAll(b.version, p.version)
      BY <1>1, <3>1 DEF Unready
    <3> QED
      BY <1>4, <3>1, <3>2, <3>3
  <2> QED
    BY <2>1 DEF Unready
<1>6. done \cup {op.ts} = Stamps(Covered(x, c.version))
  BY <1>1, <1>2 DEF Stamps
<1>7. \A p \in x.ops : p.ts[2] = r => Observed(c.version, p.ts)
  <2> SUFFICES ASSUME NEW p \in w.ops, p.ts[2] = r PROVE Observed(c.version, p.ts)
    BY <1>1, <1>3
  <2>1. p \in Covered(w, b.version)
    BY DEF ReplicaOK, Covered
  <2> QED
    BY <1>2, <2>1 DEF Covered
<1>8. \A v \in c.waiting : v[r] <= c.version[r] /\ ~ ObservedAll(c.version, v)
  <2> SUFFICES ASSUME NEW v \in b.waiting
               PROVE  v[r] <= c.version[r] /\ ~ ObservedAll(c.version, v)
    BY <1>2
  <2>1. v \in Versions /\ v[r] <= b.version[r] /\ ~ ObservedAll(b.version, v)
    BY <1>1 DEF ReplicaOK
  <2>2. b.version[r] <= c.version[r]
    BY <1>1, <1>3 DEF ObservedAll, Versions
  <2>3. v[r] \in Nat /\ b.version[r] \in Nat /\ c.version[r] \in Nat
    BY <1>1, <1>3, <2>1 DEF Versions
  <2> QED
    BY <1>4, <2>1, <2>2, <2>3
<1> QED
  BY <1>2, <1>5, <1>6, <1>7, <1>8 DEF ReplicaOK

LEMMA OtherReplica ==
    ASSUME NEW w, NEW x, NEW b, NEW op, Adds(w, x, b, op), NEW q, op.ts[2] # q,
           NEW c, NEW done, ReplicaOK(w, q, c, done),
           Agree(c.frags, b.frags)
    PROVE  ReplicaOK(x, q, c, done)
<1>1. BufferOK(w, c) /\ Sound(w, c.version)
  BY DEF ReplicaOK, BufferOK
<1>2. BufferOK(x, c)
  BY <1>1, AddsBuffer
<1>3. Covered(x, c.version) = Covered(w, c.version)
  BY <1>1, AddsSame
<1>4. \A p \in x.ops : p.ts[2] = q => Observed(c.version, p.ts)
  BY DEF ReplicaOK, Adds
<1> QED
  BY <1>2, <1>3, <1>4 DEF ReplicaOK

-----------------------------------------------------------------------------
(* The steps keep the invariant: first those that broadcast.                *)

LEMMA WorldIs ==
    /\ World.ops = ops /\ World.seen = seen /\ World.erased = erased
    /\ World'.ops = ops' /\ World'.seen = seen' /\ World'.erased = erased'
BY DEF World

LEMMA ReplicaHas ==
    ASSUME TextInv, NEW r \in Replicas
    PROVE  /\ WorldOK(World) /\ BufferOK(World, buf[r]) /\ Unready(buf[r])
           /\ ReplicaOK(World, r, buf[r], applied[r])
           /\ applied[r] = Stamps(Covered(World, buf[r].version))
           /\ Sound(World, buf[r].version) /\ View(World, buf[r].frags, buf[r].version)
           /\ \A p \in ops : p.ts[2] = r => Observed(buf[r].version, p.ts)
           /\ buf[r].clock \in Nat /\ buf[r].version \in Versions
           /\ buf[r].frags \in Seq(Fragments)
           /\ \A q \in Replicas : buf[r].version[q] < buf[r].clock
           /\ \A q \in Replicas : Agree(buf[q].frags, buf[r].frags)
           /\ undoStack[r] \in Seq(Transactions(applied[r]))
           /\ redoStack[r] \in Seq(Transactions(applied[r]))
<1>1. /\ WorldOK(World) /\ ReplicaOK(World, r, buf[r], applied[r])
      /\ \A q \in Replicas : Agree(buf[q].frags, buf[r].frags)
      /\ undoStack[r] \in Seq(Transactions(applied[r]))
      /\ redoStack[r] \in Seq(Transactions(applied[r]))
  BY DEF TextInv
<1>2. /\ BufferOK(World, buf[r]) /\ Unready(buf[r])
      /\ applied[r] = Stamps(Covered(World, buf[r].version))
      /\ \A p \in World.ops : p.ts[2] = r => Observed(buf[r].version, p.ts)
  BY <1>1 DEF ReplicaOK
<1>3. /\ Sound(World, buf[r].version) /\ View(World, buf[r].frags, buf[r].version)
      /\ buf[r] \in Buffers(World) /\ \A q \in Replicas : buf[r].version[q] < buf[r].clock
  BY <1>2 DEF BufferOK
<1>4. buf[r].clock \in Nat /\ buf[r].version \in Versions /\ buf[r].frags \in Seq(Fragments)
  BY <1>3, BufferParts
<1> QED
  BY <1>1, <1>2, <1>3, <1>4, WorldIs

LEMMA BroadcastIs ==
    ASSUME TextInv, NEW r \in Replicas, NEW op, NEW chars, Broadcast(r, op, chars),
           op.ts \in Timestamps, op.ts[2] = r, op.ts[1] >= buf[r].clock
    PROVE  /\ World'.ops = World.ops \cup {op}
           /\ op.ts \notin Stamps(World.ops)
           /\ \A t \in Stamps(World.ops) : World'.seen[t] = World.seen[t] /\ World'.erased[t] = World.erased[t]
           /\ World'.seen[op.ts] = buf[r].frags /\ World'.erased[op.ts] = chars
<1>1. op.ts \notin Stamps(ops)
  <2> SUFFICES ASSUME NEW p \in ops, p.ts = op.ts PROVE FALSE
    BY DEF Stamps
  <2>1. Observed(buf[r].version, op.ts) /\ buf[r].version[r] < buf[r].clock
        /\ buf[r].version \in Versions /\ buf[r].clock \in Nat
    BY ReplicaHas
  <2>2. buf[r].version[r] >= op.ts[1] /\ op.ts[1] \in Nat /\ buf[r].version[r] \in Nat
    BY <2>1, StampParts DEF Observed, Versions
  <2> QED
    BY <2>1, <2>2
<1>2. DOMAIN seen = Stamps(ops) /\ DOMAIN erased = Stamps(ops)
  BY DEF TextInv
<1>3. /\ ops' = ops \cup {op}
      /\ erased' = [t \in DOMAIN erased \cup {op.ts} |-> IF t = op.ts THEN chars ELSE erased[t]]
      /\ seen' = [t \in DOMAIN seen \cup {op.ts} |-> IF t = op.ts THEN buf[r].frags ELSE seen[t]]
  BY DEF Broadcast
<1>4. \A t \in Stamps(ops) : seen'[t] = seen[t] /\ erased'[t] = erased[t]
  BY <1>1, <1>2, <1>3
<1>5. seen'[op.ts] = buf[r].frags /\ erased'[op.ts] = chars
  BY <1>3
<1> QED
  BY <1>1, <1>3, <1>4, <1>5, WorldIs, Zenon

LEMMA OwnStep ==
    ASSUME TextInv, NEW r \in Replicas, NEW op, NEW chars, Broadcast(r, op, chars),
           op.ts[2] = r, Adds(World, World', buf[r], op), Does(World, World', buf[r], op, buf'[r]),
           buf' = [buf EXCEPT ![r] = buf'[r]],
           undoStack' = [undoStack EXCEPT ![r] = undoStack'[r]],
           redoStack' = [redoStack EXCEPT ![r] = redoStack'[r]],
           undoStack'[r] \in Seq(Transactions(applied[r] \cup {op.ts})),
           redoStack'[r] \in Seq(Transactions(applied[r] \cup {op.ts}))
    PROVE  TextInv'
<1> DEFINE w == World
           x == World'
<1>1. DOMAIN buf = Replicas /\ DOMAIN applied = Replicas /\ DOMAIN undoStack = Replicas
      /\ DOMAIN redoStack = Replicas /\ DOMAIN seen = Stamps(ops) /\ DOMAIN erased = Stamps(ops)
      /\ DOMAIN deps = Stamps(ops)
  BY DEF TextInv
<1>2. /\ ops' = ops \cup {op}
      /\ applied' = [applied EXCEPT ![r] = applied[r] \cup {op.ts}]
      /\ DOMAIN deps' = DOMAIN deps \cup {op.ts} /\ DOMAIN seen' = DOMAIN seen \cup {op.ts}
      /\ DOMAIN erased' = DOMAIN erased \cup {op.ts}
      /\ \A t \in DOMAIN deps \cup {op.ts} : deps'[t] = IF t = op.ts THEN applied[r] ELSE deps[t]
  BY DEF Broadcast
<1>3. Stamps(ops') = Stamps(ops) \cup {op.ts}
  BY <1>2 DEF Stamps
<1>4. /\ DOMAIN buf' = Replicas /\ DOMAIN applied' = Replicas
      /\ DOMAIN undoStack' = Replicas /\ DOMAIN redoStack' = Replicas
      /\ DOMAIN seen' = Stamps(ops') /\ DOMAIN erased' = Stamps(ops') /\ DOMAIN deps' = Stamps(ops')
  BY <1>1, <1>2, <1>3
<1>5. \A q \in Replicas : q # r => /\ buf'[q] = buf[q] /\ applied'[q] = applied[q]
                                   /\ undoStack'[q] = undoStack[q] /\ redoStack'[q] = redoStack[q]
  BY <1>1, <1>2
<1>6. applied'[r] = applied[r] \cup {op.ts}
  BY <1>1, <1>2
<1>7. WorldOK(w) /\ WorldOK(x)
  BY AddsWorld DEF TextInv
<1>8. \A p \in ops' : deps'[p.ts] = Stamps(Covered(x, p.version))
  <2> SUFFICES ASSUME NEW p \in ops' PROVE deps'[p.ts] = Stamps(Covered(x, p.version))
    OBVIOUS
  <2>1. op.ts \notin Stamps(ops)
    BY AddsNew, WorldIs
  <2>2. CASE p = op
    <3>1. deps'[op.ts] = applied[r]
      BY <1>2
    <3>2. op.version = buf[r].version /\ Sound(w, buf[r].version)
          /\ applied[r] = Stamps(Covered(w, buf[r].version))
      BY ReplicaHas DEF Adds
    <3>3. Covered(x, buf[r].version) = Covered(w, buf[r].version)
      BY <3>2, AddsSame
    <3> QED
      BY <2>2, <3>1, <3>2, <3>3, Zenon
  <2>3. CASE p \in ops
    <3>1. p.ts \in Stamps(ops) /\ p.ts # op.ts
      BY <2>1, <2>3 DEF Stamps
    <3>2. deps'[p.ts] = deps[p.ts]
      BY <1>1, <1>2, <3>1
    <3>3. deps[p.ts] = Stamps(Covered(w, p.version))
      BY <2>3 DEF TextInv
    <3>4. Sound(w, p.version)
      BY <1>7, <2>3, OpTyped, WorldIs
    <3>5. Covered(x, p.version) = Covered(w, p.version)
      BY <3>4, AddsSame
    <3> QED
      BY <3>2, <3>3, <3>5, Zenon
  <2> QED
    BY <1>2, <2>2, <2>3
<1>9. ASSUME NEW q \in Replicas
      PROVE  ReplicaOK(x, q, buf'[q], applied'[q])
  <2>1. ReplicaOK(w, q, buf[q], applied[q])
        /\ Agree(buf[q].frags, buf[r].frags)
    BY ReplicaHas
  <2>2. CASE q = r
    <3>1. ReplicaOK(x, r, buf'[r], applied[r] \cup {op.ts})
      BY <2>1, <2>2, OwnReplica
    <3> QED
      BY <1>6, <2>2, <3>1
  <2>3. CASE q # r
    <3>1. ReplicaOK(x, q, buf[q], applied[q])
      BY <2>1, <2>3, OtherReplica
    <3> QED
      BY <1>5, <2>3, <3>1
  <2> QED
    BY <2>2, <2>3
<1>10. ASSUME NEW q \in Replicas PROVE Agree(buf'[r].frags, buf'[q].frags)
  <2>1. CASE q = r
    <3>1. View(x, buf'[r].frags, buf'[r].version)
      BY DEF Does, BufferOK
    <3> QED
      BY <2>1, <3>1 DEF View, Agree
  <2>2. CASE q # r
    <3>1. Agree(buf[r].frags, buf[q].frags) /\ Sound(w, buf[q].version)
          /\ View(w, buf[q].frags, buf[q].version)
      BY ReplicaHas
    <3>2. View(x, buf[q].frags, buf[q].version)
      BY <3>1, AddsView
    <3>3. KeepsOrder(x, buf[r].frags, buf'[r].frags)
      BY DEF Does
    <3>4. Agree(buf'[r].frags, buf[q].frags)
      BY <3>1, <3>2, <3>3, Zenon DEF KeepsOrder
    <3> QED
      BY <1>5, <2>2, <3>4
  <2> QED
    BY <2>1, <2>2
<1>11. ASSUME NEW p \in Replicas, NEW q \in Replicas PROVE Agree(buf'[p].frags, buf'[q].frags)
  <2>1. CASE p = r
    BY <1>10, <2>1
  <2>2. CASE q = r
    BY <1>10, <2>2, AgreeBack
  <2>3. CASE p # r /\ q # r
    BY <1>5, <2>3 DEF TextInv
  <2> QED
    BY <2>1, <2>2, <2>3
<1>12. ASSUME NEW q \in Replicas
       PROVE  /\ undoStack'[q] \in Seq(Transactions(applied'[q]))
              /\ redoStack'[q] \in Seq(Transactions(applied'[q]))
  <2>1. CASE q = r
    BY <1>6, <2>1
  <2>2. CASE q # r
    BY <1>5, <2>2, ReplicaHas
  <2> QED
    BY <2>1, <2>2
<1> QED
  BY <1>4, <1>7, <1>8, <1>9, <1>11, <1>12 DEF TextInv

(* The undo and redo stacks.                                                *)
LEMMA StackGrows ==
    ASSUME NEW done, NEW more, done \subseteq more, NEW stack \in Seq(Transactions(done))
    PROVE  stack \in Seq(Transactions(more))
<1>1. Transactions(done) \subseteq Transactions(more)
  BY DEF Transactions
<1> QED
  BY <1>1, SeqMonotonic

LEMMA StackOps ==
    ASSUME NEW S, NEW stack \in Seq(S)
    PROVE  /\ \A t \in S : Append(stack, t) \in Seq(S)
           /\ \A i \in DOMAIN stack : stack[i] \in S /\ RemoveAt(stack, i) \in Seq(S)
           /\ stack # <<>> => Last(stack) \in S /\ Front(stack) \in Seq(S)
<1>1. Len(stack) \in Nat /\ DOMAIN stack = 1 .. Len(stack) /\ \A i \in 1 .. Len(stack) : stack[i] \in S
  BY SeqParts
<1>2. \A t \in S : Append(stack, t) \in Seq(S)
  OBVIOUS
<1>3. ASSUME NEW i \in 1 .. Len(stack) PROVE RemoveAt(stack, i) \in Seq(S)
  <2> DEFINE k == i - 1
             m == i + 1
             n == Len(stack)
  <2>1. k \in Int /\ m \in Int /\ n \in Int /\ 1 \in Int
        /\ (\A j \in 1 .. k : stack[j] \in S) /\ (\A j \in m .. n : stack[j] \in S)
    BY <1>1
  <2> HIDE DEF k, m, n
  <2>2. SubSeq(stack, 1, k) \in Seq(S) /\ SubSeq(stack, m, n) \in Seq(S)
    BY <2>1, SubSeqProperties
  <2>3. SubSeq(stack, 1, k) \o SubSeq(stack, m, n) \in Seq(S)
    BY <2>2, ConcatProperties
  <2> QED
    BY <2>3 DEF RemoveAt, k, m, n
<1>4. ASSUME stack # <<>> PROVE Last(stack) \in S /\ Front(stack) \in Seq(S)
  <2>1. Len(stack) \in 1 .. Len(stack)
    BY <1>1, <1>4, EmptySeq
  <2> DEFINE k == Len(stack) - 1
  <2>2. k \in Int /\ 1 \in Int /\ \A j \in 1 .. k : stack[j] \in S
    BY <1>1
  <2> HIDE DEF k
  <2>3. SubSeq(stack, 1, k) \in Seq(S)
    BY <2>2, SubSeqProperties
  <2> QED
    BY <1>1, <2>1, <2>3 DEF Last, Front, k
<1> QED
  BY <1>1, <1>2, <1>3, <1>4

LEMMA PushEditIs ==
    ASSUME NEW done, NEW t, NEW stack \in Seq(Transactions(done)), NEW grouped \in BOOLEAN,
           grouped => stack # <<>>
    PROVE  PushEdit(stack, t, grouped) \in Seq(Transactions(done \cup {t}))
<1> DEFINE more == done \cup {t}
           T == Transactions(more)
<1>1. stack \in Seq(T)
  BY StackGrows
<1>2. CASE ~ grouped
  <2>1. PushEdit(stack, t, grouped) = Append(stack, [edits |-> {t}, final |-> FALSE])
    BY <1>2 DEF PushEdit
  <2>2. [edits |-> {t}, final |-> FALSE] \in T
    BY DEF Transactions
  <2> HIDE DEF T
  <2> QED
    BY <1>1, <2>1, <2>2, StackOps DEF T
<1>3. CASE grouped
  <2> DEFINE n == Len(stack)
             u == [stack[n] EXCEPT !.edits = stack[n].edits \cup {t}]
  <2>1. PushEdit(stack, t, grouped) = [stack EXCEPT ![n] = u]
    BY <1>3 DEF PushEdit
  <2>2. n \in 1 .. Len(stack) /\ stack[n] \in T
    BY <1>1, <1>3, SeqParts, EmptySeq
  <2>3. u \in T
    BY <2>2 DEF Transactions
  <2> HIDE DEF u, n, T
  <2> QED
    BY <1>1, <2>1, <2>2, <2>3, ExceptSeq DEF T
<1> QED
  BY <1>2, <1>3

LEMMA EditStep ==
    ASSUME TextInv, NEW r \in Replicas, NEW s \in 0 .. Cardinality(VisibleAt(buf[r].frags)),
           NEW e \in s .. Cardinality(VisibleAt(buf[r].frags)), NEW n \in 0 .. MaxInsert,
           NEW grouped \in Grouping, Edit(r, s, e, n, grouped)
    PROVE  TextInv'
<1> DEFINE b == buf[r]
           ts == <<Tick(b.clock), r>>
           from == FullStart(b.frags, s)
           to == FullEnd(b.frags, s, e)
           dead == {i \in from + 1..to : b.frags[i].visible}
           chars == {Char(b.frags[i]) : i \in dead}
           op == [kind |-> "edit", ts |-> ts, version |-> b.version,
                  start |-> from, end |-> to, len |-> n]
           G == Splice(b.frags, from, to, NewFragments(ts, n), dead, ts)
<1>1. /\ buf' = [buf EXCEPT ![r].clock = Tick(Tick(@)), ![r].version = Observe(@, ts), ![r].frags = G]
      /\ undoStack' = [undoStack EXCEPT ![r] = PushEdit(@, ts, grouped)]
      /\ redoStack' = [redoStack EXCEPT ![r] = <<>>]
      /\ Broadcast(r, op, chars)
      /\ grouped => undoStack[r] # <<>>
  BY Zenon DEF Edit
<1>2. /\ BufferOK(World, b) /\ WorldOK(World) /\ b.clock \in Nat /\ b.version \in Versions
      /\ b.frags \in Seq(Fragments) /\ \A q \in Replicas : b.version[q] < b.clock
      /\ undoStack[r] \in Seq(Transactions(applied[r]))
      /\ \A p \in ops : p.ts[2] = r => Observed(b.version, p.ts)
      /\ \A q \in Replicas : b.version[q] \in Nat
  BY ReplicaHas DEF Versions
<1>3. DOMAIN buf = Replicas /\ DOMAIN undoStack = Replicas /\ DOMAIN redoStack = Replicas
  BY DEF TextInv
<1>4. from \in 0 .. Len(b.frags) /\ to \in from .. Len(b.frags) /\ Len(b.frags) \in Nat
  BY <1>2, FullRange, SeqParts
<1>5. n \in Nat /\ grouped \in BOOLEAN
  BY ReplicasAssumption
<1>6. ts \in Timestamps /\ ts[1] = b.clock + 1 /\ ts[2] = r /\ ts[1] > 1 /\ ts[1] >= b.clock
  BY <1>2 DEF Timestamps, Tick
<1>7. op.kind = "edit" /\ op.ts = ts /\ op.version = b.version /\ op.start = from /\ op.end = to
      /\ op.len = n
  OBVIOUS
<1> HIDE DEF op, ts, from, to
<1>8. /\ World'.ops = World.ops \cup {op}
      /\ op.ts \notin Stamps(World.ops)
      /\ \A t \in Stamps(World.ops) : World'.seen[t] = World.seen[t] /\ World'.erased[t] = World.erased[t]
      /\ World'.seen[op.ts] = b.frags /\ World'.erased[op.ts] = chars
  BY <1>1, <1>6, <1>7, BroadcastIs
<1>9. EditOK(World', op)
  <2>1. chars = {Char(b.frags[i]) : i \in {k \in op.start + 1 .. op.end : b.frags[k].visible}}
    <3>1. dead = {k \in op.start + 1 .. op.end : b.frags[k].visible}
      BY <1>7
    <3> QED
      BY <3>1, Zenon
  <2> HIDE DEF chars
  <2>2. World'.erased[op.ts] = {Char(World'.seen[op.ts][i]) :
          i \in {k \in op.start + 1 .. op.end : World'.seen[op.ts][k].visible}}
    <3> DEFINE S == World'.seen[op.ts]
               E == World'.erased[op.ts]
               F == b.frags
    <3>1. S = F /\ E = chars
      BY <1>8
    <3>2. chars = {Char(F[i]) : i \in {k \in op.start + 1 .. op.end : F[k].visible}}
      BY <2>1
    <3> HIDE DEF S, E, F
    <3>3. E = {Char(S[i]) : i \in {k \in op.start + 1 .. op.end : S[k].visible}}
      BY <3>1, <3>2
    <3> QED
      BY <3>3 DEF S, E
  <2>3. /\ op.len \in Nat /\ op.start \in Nat /\ op.end \in Nat
        /\ op.start <= op.end /\ op.end <= Len(b.frags)
    BY <1>4, <1>5, <1>7
  <2>4. op.end <= Len(World'.seen[op.ts])
    BY <1>8, <2>3, Zenon
  <2> QED
    BY <2>2, <2>3, <2>4, Zenon DEF EditOK
<1> HIDE DEF chars
<1>10. Adds(World, World', b, op)
  BY <1>2, <1>6, <1>7, <1>8, <1>9, WorldIs DEF Adds
<1>11. buf'[r] = [clock |-> b.clock + 2, version |-> Observe(b.version, op.ts),
                  frags |-> Splice(b.frags, op.start, op.end, NewFragments(op.ts, op.len), dead, op.ts),
                  undos |-> b.undos, deferred |-> b.deferred,
                  deferredReplicas |-> b.deferredReplicas, waiting |-> b.waiting]
  <2> DEFINE k == b.clock + 2
             v == Observe(b.version, ts)
  <2>1. Tick(Tick(b.clock)) = k
    BY <1>2 DEF Tick
  <2>2. buf'[r] = [b EXCEPT !.clock = Tick(Tick(b.clock)), !.version = v, !.frags = G]
    <3> HIDE DEF G
    <3> QED
      BY <1>1, <1>3
  <2>3. b = [clock |-> b.clock, version |-> b.version, frags |-> b.frags,
             undos |-> b.undos, deferred |-> b.deferred,
             deferredReplicas |-> b.deferredReplicas, waiting |-> b.waiting]
    BY <1>2, BufferParts DEF BufferOK
  <2> HIDE DEF G, k, v, b
  <2>4. buf'[r] = [b EXCEPT !.clock = k, !.version = v, !.frags = G]
    BY <2>1, <2>2, Zenon
  <2>5. buf'[r] = [clock |-> k, version |-> v, frags |-> G,
             undos |-> b.undos, deferred |-> b.deferred,
             deferredReplicas |-> b.deferredReplicas, waiting |-> b.waiting]
    BY <2>3, <2>4
  <2> QED
    BY <1>7, <2>5, Zenon DEF G, k, v
<1>12. dead = {i \in op.start + 1 .. op.end : b.frags[i].visible}
  BY <1>7, Zenon
<1> HIDE DEF dead, G
<1>13. Does(World, World', b, op, buf'[r])
  BY <1>6, <1>7, <1>10, <1>11, <1>12, OwnEdit
<1>14. /\ buf' = [buf EXCEPT ![r] = buf'[r]]
       /\ undoStack' = [undoStack EXCEPT ![r] = undoStack'[r]]
       /\ redoStack' = [redoStack EXCEPT ![r] = redoStack'[r]]
       /\ undoStack'[r] = PushEdit(undoStack[r], ts, grouped) /\ redoStack'[r] = <<>>
  BY <1>1, <1>3
<1>15. /\ undoStack'[r] \in Seq(Transactions(applied[r] \cup {op.ts}))
       /\ redoStack'[r] \in Seq(Transactions(applied[r] \cup {op.ts}))
  <2>1. undoStack'[r] \in Seq(Transactions(applied[r] \cup {ts}))
    BY <1>1, <1>2, <1>5, <1>14, PushEditIs
  <2>2. redoStack'[r] \in Seq(Transactions(applied[r] \cup {ts}))
    BY <1>14, EmptySeq
  <2> QED
    BY <1>7, <2>1, <2>2, Zenon
<1>16. op.ts[2] = r
  BY <1>6, <1>7
<1> QED
  BY <1>1, <1>10, <1>13, <1>14, <1>15, <1>16, OwnStep

(* undo and redo, of whatever transaction, whatever stack it goes to.       *)
LEMMA UndoStep ==
    ASSUME TextInv, NEW r \in Replicas, NEW tx \in Transactions(applied[r]), UndoOrRedo(r, tx),
           undoStack' = [undoStack EXCEPT ![r] = undoStack'[r]],
           redoStack' = [redoStack EXCEPT ![r] = redoStack'[r]],
           undoStack'[r] \in Seq(Transactions(applied[r])),
           redoStack'[r] \in Seq(Transactions(applied[r]))
    PROVE  TextInv'
<1> DEFINE b == buf[r]
           ts == <<b.clock, r>>
           counts == [e \in tx.edits |-> UndoCount(b.undos, e) + 1]
           op == [kind |-> "undo", ts |-> ts, version |-> b.version, counts |-> counts]
<1>1. /\ buf' = [buf EXCEPT ![r] =
              ApplyUndo([b EXCEPT !.clock = Tick(@), !.version = Observe(@, ts)], op)]
      /\ Broadcast(r, op, {})
  BY Zenon DEF UndoOrRedo
<1>2. /\ BufferOK(World, b) /\ WorldOK(World) /\ b.clock \in Nat /\ b.version \in Versions
      /\ \A q \in Replicas : b.version[q] < b.clock
      /\ applied[r] = Stamps(Covered(World, b.version))
      /\ \A p \in ops : p.ts[2] = r => Observed(b.version, p.ts)
      /\ \A q \in Replicas : b.version[q] \in Nat
  BY ReplicaHas DEF Versions
<1>3. DOMAIN buf = Replicas
  BY DEF TextInv
<1>4. tx.edits \subseteq Stamps(Covered(World, b.version)) /\ tx.edits # {}
  BY <1>2 DEF Transactions
<1>5. b.clock > 1
  <2>1. PICK p \in Covered(World, b.version) : p.ts \in tx.edits
    BY <1>4 DEF Stamps
  <2>2. p \in World.ops /\ b.version[p.ts[2]] >= p.ts[1]
    BY DEF Covered, Observed
  <2>3. p.ts[1] > 1 /\ p.ts[1] \in Nat /\ p.ts[2] \in Replicas
    BY <1>2, <2>2, OpTyped
  <2> QED
    BY <1>2, <2>2, <2>3
<1>6. ts \in Timestamps /\ ts[1] = b.clock /\ ts[2] = r /\ ts[1] > 1 /\ ts[1] >= b.clock
  BY <1>2, <1>5 DEF Timestamps
<1>7. op.kind = "undo" /\ op.ts = ts /\ op.version = b.version /\ DOMAIN op.counts = tx.edits
  OBVIOUS
<1> HIDE DEF op, ts
<1>8. /\ World'.ops = World.ops \cup {op}
      /\ op.ts \notin Stamps(World.ops)
      /\ \A t \in Stamps(World.ops) : World'.seen[t] = World.seen[t] /\ World'.erased[t] = World.erased[t]
      /\ World'.seen[op.ts] = b.frags /\ World'.erased[op.ts] = {}
  BY <1>1, <1>6, <1>7, BroadcastIs
<1>9. UndoOK(World', op)
  <2>1. Covered(World, b.version) \subseteq Covered(World', b.version)
    BY <1>8 DEF Covered
  <2>2. Stamps(Covered(World, b.version)) \subseteq Stamps(Covered(World', b.version))
    BY <2>1 DEF Stamps
  <2> QED
    BY <1>4, <1>7, <1>8, <2>2 DEF UndoOK
<1>10. Adds(World, World', b, op)
  BY <1>2, <1>6, <1>7, <1>8, <1>9, WorldIs DEF Adds
<1>11. buf'[r] = ApplyUndo([b EXCEPT !.clock = Tick(@), !.version = Observe(@, op.ts)], op)
  <2>1. buf'[r] = ApplyUndo([b EXCEPT !.clock = Tick(@), !.version = Observe(@, ts)], op)
    BY <1>1, <1>3, Zenon
  <2> QED
    BY <1>7, <2>1, Zenon
<1>12. Does(World, World', b, op, buf'[r])
  <2>1. op.ts[1] = b.clock
    BY <1>6, <1>7
  <2> QED
    BY <1>7, <1>10, <1>11, <2>1, OwnUndo
<1>13. buf' = [buf EXCEPT ![r] = buf'[r]]
  BY <1>1, <1>3, <1>11, <1>7
<1>14. /\ undoStack'[r] \in Seq(Transactions(applied[r] \cup {op.ts}))
       /\ redoStack'[r] \in Seq(Transactions(applied[r] \cup {op.ts}))
  BY StackGrows
<1>15. op.ts[2] = r
  BY <1>6, <1>7
<1> QED
  BY <1>1, <1>10, <1>12, <1>13, <1>14, <1>15, OwnStep

LEMMA UndoOrRedoStep ==
    ASSUME TextInv, NEW r \in Replicas, (\E i \in DOMAIN undoStack[r] : Undo(r, i)) \/ Redo(r)
    PROVE  TextInv'
<1> DEFINE T == Transactions(applied[r])
<1>1. undoStack[r] \in Seq(T) /\ redoStack[r] \in Seq(T)
  BY ReplicaHas
<1>2. DOMAIN undoStack = Replicas /\ DOMAIN redoStack = Replicas
  BY DEF TextInv
<1> HIDE DEF T
<1>3. ASSUME NEW i \in DOMAIN undoStack[r], Undo(r, i) PROVE TextInv'
  <2>1. /\ UndoOrRedo(r, undoStack[r][i])
        /\ undoStack' = [undoStack EXCEPT ![r] = RemoveAt(undoStack[r], i)]
        /\ redoStack' = [redoStack EXCEPT ![r] = Append(redoStack[r], undoStack[r][i])]
    BY <1>3 DEF Undo
  <2>2. undoStack[r][i] \in T /\ RemoveAt(undoStack[r], i) \in Seq(T)
        /\ Append(redoStack[r], undoStack[r][i]) \in Seq(T)
    BY <1>1, StackOps
  <2>3. /\ undoStack'[r] = RemoveAt(undoStack[r], i)
        /\ redoStack'[r] = Append(redoStack[r], undoStack[r][i])
    BY <1>2, <2>1
  <2>4. /\ undoStack' = [undoStack EXCEPT ![r] = undoStack'[r]]
        /\ redoStack' = [redoStack EXCEPT ![r] = redoStack'[r]]
        /\ undoStack'[r] \in Seq(T) /\ redoStack'[r] \in Seq(T)
    BY <2>1, <2>2, <2>3, Zenon
  <2> QED
    BY <2>1, <2>2, <2>4, UndoStep DEF T
<1>4. ASSUME Redo(r) PROVE TextInv'
  <2>1. /\ UndoOrRedo(r, Last(redoStack[r])) /\ redoStack[r] # <<>>
        /\ redoStack' = [redoStack EXCEPT ![r] = Front(redoStack[r])]
        /\ undoStack' = [undoStack EXCEPT ![r] = Append(undoStack[r], Last(redoStack[r]))]
    BY <1>4 DEF Redo
  <2>2. Last(redoStack[r]) \in T /\ Front(redoStack[r]) \in Seq(T)
        /\ Append(undoStack[r], Last(redoStack[r])) \in Seq(T)
    BY <1>1, <2>1, StackOps
  <2>3. /\ redoStack'[r] = Front(redoStack[r])
        /\ undoStack'[r] = Append(undoStack[r], Last(redoStack[r]))
    BY <1>2, <2>1
  <2>4. /\ undoStack' = [undoStack EXCEPT ![r] = undoStack'[r]]
        /\ redoStack' = [redoStack EXCEPT ![r] = redoStack'[r]]
        /\ undoStack'[r] \in Seq(T) /\ redoStack'[r] \in Seq(T)
    BY <2>1, <2>2, <2>3, Zenon
  <2> QED
    BY <2>1, <2>2, <2>4, UndoStep DEF T
<1> QED
  BY <1>3, <1>4

-----------------------------------------------------------------------------
(* The steps that broadcast nothing.                                        *)

(* The world is the same, and only replica r has another buffer.            *)
LEMMA QuietStep ==
    ASSUME TextInv, NEW r \in Replicas, UNCHANGED <<ops, deps, erased, seen>>,
           DOMAIN buf' = Replicas, DOMAIN applied' = Replicas, DOMAIN undoStack' = Replicas,
           UNCHANGED redoStack,
           \A q \in Replicas : q # r =>
              buf'[q] = buf[q] /\ applied'[q] = applied[q] /\ undoStack'[q] = undoStack[q],
           ReplicaOK(World, r, buf'[r], applied'[r]),
           undoStack'[r] \in Seq(Transactions(applied'[r])),
           redoStack[r] \in Seq(Transactions(applied'[r])),
           KeepsOrder(World, buf[r].frags, buf'[r].frags)
    PROVE  TextInv'
<1>1. World' = World
  BY DEF World
<1>2. ASSUME NEW q \in Replicas
      PROVE  /\ ReplicaOK(World, q, buf'[q], applied'[q])
             /\ undoStack'[q] \in Seq(Transactions(applied'[q]))
             /\ redoStack'[q] \in Seq(Transactions(applied'[q]))
  <2>1. CASE q = r
    BY <2>1
  <2>2. CASE q # r
    BY <2>2, ReplicaHas
  <2> QED
    BY <2>1, <2>2
<1>3. ASSUME NEW q \in Replicas PROVE Agree(buf'[r].frags, buf'[q].frags)
  <2>1. CASE q = r
    <3>1. View(World, buf'[r].frags, buf'[r].version)
      BY DEF ReplicaOK, BufferOK
    <3> QED
      BY <2>1, <3>1 DEF View, Agree
  <2>2. CASE q # r
    <3>1. Agree(buf[r].frags, buf[q].frags) /\ View(World, buf[q].frags, buf[q].version)
      BY ReplicaHas
    <3>2. Agree(buf'[r].frags, buf[q].frags)
      BY <3>1, Zenon DEF KeepsOrder
    <3> QED
      BY <2>2, <3>2
  <2> QED
    BY <2>1, <2>2
<1>4. ASSUME NEW p \in Replicas, NEW q \in Replicas PROVE Agree(buf'[p].frags, buf'[q].frags)
  <2>1. CASE p = r
    BY <1>3, <2>1
  <2>2. CASE q = r
    BY <1>3, <2>2, AgreeBack
  <2>3. CASE p # r /\ q # r
    BY <2>3 DEF TextInv
  <2> QED
    BY <2>1, <2>2, <2>3
<1>5. WorldOK(World) /\ DOMAIN redoStack' = Replicas
  BY DEF TextInv
<1>6. /\ DOMAIN seen' = Stamps(ops') /\ DOMAIN erased' = Stamps(ops') /\ DOMAIN deps' = Stamps(ops')
      /\ \A op \in ops' : deps'[op.ts] = Stamps(Covered(World', op.version))
  BY <1>1 DEF TextInv
<1> QED
  BY <1>1, <1>2, <1>4, <1>5, <1>6 DEF TextInv

LEMMA PushStep ==
    ASSUME TextInv, NEW r \in Replicas, NEW op \in OpsOf("edit"), PushTransaction(r, op)
    PROVE  TextInv'
<1> DEFINE tx == [edits |-> {op.ts}, final |-> TRUE]
           T == Transactions(applied[r])
<1>1. /\ undoStack' = [undoStack EXCEPT ![r] = Append(undoStack[r], tx)]
      /\ UNCHANGED <<buf, redoStack, ops, waits, applied, deps, erased, seen>>
      /\ Observed(buf[r].version, op.ts)
  BY DEF PushTransaction
<1>2. DOMAIN undoStack = Replicas /\ DOMAIN buf = Replicas /\ DOMAIN applied = Replicas
  BY DEF TextInv
<1>3. /\ applied[r] = Stamps(Covered(World, buf[r].version)) /\ undoStack[r] \in Seq(T)
      /\ redoStack[r] \in Seq(T) /\ ReplicaOK(World, r, buf[r], applied[r])
  BY ReplicaHas
<1>4. op.ts \in applied[r]
  BY <1>1, <1>3, WorldIs DEF Stamps, Covered, OpsOf
<1>5. tx \in T
  BY <1>4 DEF Transactions
<1> HIDE DEF tx, T
<1>6. Append(undoStack[r], tx) \in Seq(T)
  BY <1>3, <1>5, StackOps
<1>7. /\ undoStack'[r] = Append(undoStack[r], tx) /\ DOMAIN undoStack' = Replicas
      /\ \A q \in Replicas : q # r => undoStack'[q] = undoStack[q]
  BY <1>1, <1>2
<1>8. /\ undoStack'[r] \in Seq(Transactions(applied'[r]))
      /\ redoStack[r] \in Seq(Transactions(applied'[r]))
  BY <1>1, <1>3, <1>6, <1>7 DEF T
<1>9. KeepsOrder(World, buf[r].frags, buf'[r].frags)
  BY <1>1 DEF KeepsOrder
<1> QED
  BY <1>1, <1>2, <1>3, <1>7, <1>8, <1>9, QuietStep

LEMMA WaitStep ==
    ASSUME TextInv, NEW r \in Replicas, NEW q \in Replicas, WaitForVersion(r, q)
    PROVE  TextInv'
<1> DEFINE b == buf[r]
           v == buf[q].version
           W == b.waiting \cup {v}
           c == buf'[r]
<1>1. /\ ~ ObservedAll(b.version, v)
      /\ buf' = [buf EXCEPT ![r] = [b EXCEPT !.waiting = W]]
      /\ UNCHANGED <<undoStack, redoStack, ops, pushes, applied, deps, erased, seen>>
  BY DEF WaitForVersion
<1>2. DOMAIN undoStack = Replicas /\ DOMAIN buf = Replicas /\ DOMAIN applied = Replicas
  BY DEF TextInv
<1>3. /\ ReplicaOK(World, r, b, applied[r]) /\ BufferOK(World, b) /\ WorldOK(World)
      /\ Sound(World, b.version)
      /\ undoStack[r] \in Seq(Transactions(applied[r])) /\ redoStack[r] \in Seq(Transactions(applied[r]))
  BY ReplicaHas
<1>4. Sound(World, v) /\ v \in Versions
  BY ReplicaHas
<1>5. v[r] <= b.version[r]
  BY <1>3, <1>4, OwnIsAhead DEF ReplicaOK
<1>6. /\ b = [clock |-> b.clock, version |-> b.version, frags |-> b.frags,
              undos |-> b.undos, deferred |-> b.deferred,
              deferredReplicas |-> b.deferredReplicas, waiting |-> b.waiting]
      /\ b.version \in Versions /\ b.waiting \subseteq Versions /\ b.clock \in Nat
      /\ b.frags \in Seq(Fragments)
      /\ b.undos \subseteq Entries(World) /\ b.deferred \subseteq World.ops
      /\ b.deferredReplicas \subseteq Replicas
  BY <1>3, BufferParts DEF BufferOK
<1>7. c = [b EXCEPT !.waiting = W]
  BY <1>1, <1>2, Zenon
<1>8. W \subseteq Versions /\ \A u \in W : u[r] <= b.version[r] /\ ~ ObservedAll(b.version, u)
  BY <1>1, <1>3, <1>4, <1>5, <1>6 DEF ReplicaOK
<1> HIDE DEF b, W, c, v
<1>9. /\ c.clock = b.clock /\ c.version = b.version /\ c.frags = b.frags /\ c.undos = b.undos
      /\ c.deferred = b.deferred /\ c.deferredReplicas = b.deferredReplicas /\ c.waiting = W
      /\ c = [clock |-> b.clock, version |-> b.version, frags |-> b.frags,
              undos |-> b.undos, deferred |-> b.deferred,
              deferredReplicas |-> b.deferredReplicas, waiting |-> W]
  BY <1>6, <1>7
<1>10. c \in Buffers(World)
  BY <1>6, <1>8, <1>9, BufferParts
<1>11. BufferOK(World, c)
  BY <1>3, <1>9, <1>10, Zenon DEF BufferOK
<1>12. ReplicaOK(World, r, c, applied[r])
  <2>1. Unready(c)
    BY <1>3, <1>9, Zenon DEF ReplicaOK, Unready
  <2>2. \A u \in c.waiting : u[r] <= c.version[r] /\ ~ ObservedAll(c.version, u)
    BY <1>8, <1>9, Zenon
  <2> QED
    BY <1>3, <1>9, <1>11, <2>1, <2>2, Zenon DEF ReplicaOK
<1>13. KeepsOrder(World, b.frags, c.frags)
  BY <1>9, Zenon DEF KeepsOrder
<1>14. /\ DOMAIN buf' = Replicas /\ applied' = applied
       /\ \A p \in Replicas : p # r => buf'[p] = buf[p]
  BY <1>1, <1>2
<1> QED
  BY <1>1, <1>2, <1>3, <1>12, <1>13, <1>14, QuietStep DEF b, c

LEMMA ApplyStep ==
    ASSUME TextInv, NEW r \in Replicas, NEW batch \in Batches, ApplyOps(r, batch)
    PROVE  TextInv'
<1> DEFINE b == buf[r]
           c == ApplyAll(b, batch)
           Q == {batch[i] : i \in 1 .. Len(batch)}
<1>1. /\ buf' = [buf EXCEPT ![r] = c]
      /\ applied' = [applied EXCEPT ![r] =
                     applied[r] \cup {op.ts : op \in (b.deferred \cup ToSet(batch)) \ buf'[r].deferred}]
      /\ UNCHANGED <<undoStack, redoStack, ops, pushes, waits, deps, erased, seen>>
  BY DEF ApplyOps
<1>2. DOMAIN undoStack = Replicas /\ DOMAIN buf = Replicas /\ DOMAIN applied = Replicas
  BY DEF TextInv
<1>3. /\ ReplicaOK(World, r, b, applied[r]) /\ BufferOK(World, b) /\ WorldOK(World)
      /\ applied[r] = Stamps(Covered(World, b.version)) /\ b.version \in Versions
      /\ undoStack[r] \in Seq(Transactions(applied[r])) /\ redoStack[r] \in Seq(Transactions(applied[r]))
  BY ReplicaHas
<1>4. Len(batch) \in Nat /\ (\A i \in 1 .. Len(batch) : batch[i] \in World.ops)
      /\ DOMAIN batch = 1 .. Len(batch)
  <2>1. PICK n \in 1 .. MaxBatch : batch \in [1 .. n -> ops]
    BY DEF Batches
  <2>2. n \in Nat
    BY ReplicasAssumption
  <2>3. batch \in Seq(ops) /\ Len(batch) = n
    BY <2>1, <2>2, FunSeq
  <2> QED
    BY <2>1, <2>2, <2>3, WorldIs
<1>5. ToSet(batch) = Q
  BY <1>4, Zenon DEF ToSet
<1>6. Brings(World, b, c, Q)
  BY <1>3, <1>4, ApplyAllIs
<1>7. buf'[r] = c
  BY <1>1, <1>2, Zenon
<1> HIDE DEF b, c, Q
<1>8. /\ BufferOK(World, c) /\ Unready(c)
      /\ KeepsOrder(World, b.frags, c.frags) /\ ObservedAll(c.version, b.version)
      /\ Covered(World, c.version) = Covered(World, b.version) \cup ((b.deferred \cup Q) \ c.deferred)
      /\ c.waiting \subseteq b.waiting
      /\ (\A v \in b.waiting : ~ ObservedAll(b.version, v))
            => \A v \in c.waiting : ~ ObservedAll(c.version, v)
  BY <1>6 DEF Brings
<1>9. c.version \in Versions
  BY <1>8, BufferParts DEF BufferOK
<1>10. applied'[r] = applied[r] \cup {op.ts : op \in (b.deferred \cup Q) \ c.deferred}
  BY <1>1, <1>2, <1>5, <1>7
<1>11. applied'[r] = Stamps(Covered(World, c.version)) /\ applied[r] \subseteq applied'[r]
  BY <1>3, <1>8, <1>10 DEF Stamps
<1>12. \A p \in World.ops : p.ts[2] = r => Observed(c.version, p.ts)
  <2> SUFFICES ASSUME NEW p \in World.ops, p.ts[2] = r PROVE Observed(c.version, p.ts)
    OBVIOUS
  <2>1. p \in Covered(World, b.version)
    BY <1>3 DEF ReplicaOK, Covered
  <2> QED
    BY <1>8, <2>1 DEF Covered
<1>13. \A v \in c.waiting : v[r] <= c.version[r] /\ ~ ObservedAll(c.version, v)
  <2> SUFFICES ASSUME NEW v \in c.waiting
               PROVE  v[r] <= c.version[r] /\ ~ ObservedAll(c.version, v)
    OBVIOUS
  <2>1. v \in b.waiting /\ v[r] <= b.version[r]
    BY <1>3, <1>8 DEF ReplicaOK
  <2>2. v \in Versions
    BY <1>3, <2>1, BufferParts DEF BufferOK
  <2>3. c.version[r] >= b.version[r]
    BY <1>8 DEF ObservedAll
  <2>4. v[r] <= c.version[r]
    BY <1>3, <1>9, <2>1, <2>2, <2>3 DEF Versions
  <2>5. ~ ObservedAll(c.version, v)
    BY <1>3, <1>8 DEF ReplicaOK
  <2> QED
    BY <2>4, <2>5
<1>14. ReplicaOK(World, r, c, applied'[r])
  BY <1>8, <1>11, <1>12, <1>13 DEF ReplicaOK
<1>15. /\ undoStack'[r] \in Seq(Transactions(applied'[r]))
       /\ redoStack[r] \in Seq(Transactions(applied'[r]))
  BY <1>1, <1>3, <1>11, StackGrows
<1>16. /\ DOMAIN buf' = Replicas /\ DOMAIN applied' = Replicas /\ DOMAIN undoStack' = Replicas
       /\ \A q \in Replicas : q # r =>
              buf'[q] = buf[q] /\ applied'[q] = applied[q] /\ undoStack'[q] = undoStack[q]
  BY <1>1, <1>2
<1>17. ReplicaOK(World, r, buf'[r], applied'[r]) /\ KeepsOrder(World, buf[r].frags, buf'[r].frags)
  BY <1>7, <1>8, <1>14, Zenon DEF b
<1> QED
  BY <1>1, <1>15, <1>16, <1>17, QuietStep

-----------------------------------------------------------------------------
(* The initial state.                                                       *)

LEMMA NothingUndone ==
    ASSUME NEW t
    PROVE  ~ IsUndone({}, t)
<1>1. CountOf({}) = 0
  <2>1. {0} \cup {u.count : u \in {}} = {0}
    OBVIOUS
  <2>2. Max({0}) = 0
    BY DEF Max
  <2> QED
    BY <2>1, <2>2 DEF CountOf
<1>2. {u \in {} : u.edit = t} = {}
  OBVIOUS
<1> QED
  BY <1>1, <1>2 DEF IsUndone, UndoCount

(* The base text, in a world without operations.                            *)
LEMMA BaseView ==
    ASSUME NEW w, w.ops = {}
    PROVE  /\ View(w, NewFragments(BaseTs, BaseLength), BaseVersion)
           /\ Sound(w, BaseVersion) /\ EntriesOf(w, BaseVersion) = {}
           /\ Covered(w, BaseVersion) = {}
<1> DEFINE F == NewFragments(BaseTs, BaseLength)
           v == BaseVersion
<1>1. BaseTs \in Timestamps /\ BaseLength \in Nat /\ v \in Versions
  BY BaseIs
<1>2. /\ F \in Seq(Fragments) /\ Len(F) = BaseLength
      /\ \A k \in 1 .. BaseLength :
            /\ F[k].ts = BaseTs /\ F[k].off = k /\ F[k].dels = {} /\ F[k].visible = TRUE
            /\ \A q \in Replicas : F[k].maxUndos[q] = 0
  <2>1. F \in Seq(Fragments) /\ Len(F) = BaseLength
    BY <1>1, NewFragmentsAre
  <2>2. \A k \in 1 .. BaseLength :
            /\ F[k].ts = BaseTs /\ F[k].off = k /\ F[k].dels = {} /\ F[k].visible = TRUE
            /\ \A q \in Replicas : F[k].maxUndos[q] = 0
    BY DEF NewFragments
  <2> QED
    BY <2>1, <2>2
<1>3. DOMAIN F = 1 .. BaseLength
  BY <1>2, SeqParts
<1> HIDE DEF F
<1>4. Covered(w, v) = {}
  BY DEF Covered
<1>5. EntriesOf(w, v) = {}
  BY <1>4 DEF EntriesOf
<1>6. \A k : <<BaseTs, k>> \in CharsOf(w, v) <=> k \in 1 .. BaseLength
  BY <1>4, CharsAre
<1>7. \A c \in CharsOf(w, v) : c \in {BaseTs} \X (1 .. BaseLength)
  BY <1>4 DEF CharsOf
<1>8. Sound(w, v)
  BY <1>1, <1>4 DEF Sound, Versions
<1>9. ASSUME NEW k \in 1 .. BaseLength PROVE Kept(w, v, F[k]) /\ Placed(w, F, k)
  <2>1. /\ F[k].ts = BaseTs /\ F[k].off = k /\ F[k].dels = {} /\ F[k].visible = TRUE
        /\ \A q \in Replicas : F[k].maxUndos[q] = 0
    BY <1>2
  <2>2. Char(F[k]) = <<BaseTs, k>>
    BY <2>1 DEF Char
  <2>3. F[k].dels = {t \in Stamps(Covered(w, v)) : Char(F[k]) \in w.erased[t]}
    BY <1>4, <2>1 DEF Stamps
  <2>4. IsVisible(F[k], {}) = TRUE
    BY <2>1, NothingUndone DEF IsVisible
  <2>5. F[k].visible = IsVisible(F[k], EntriesOf(w, v))
    BY <1>5, <2>1, <2>4, Zenon
  <2>6. \A q \in Replicas : LastTouch(w, v, Char(F[k]), q, F[k].maxUndos[q])
    BY <1>4, <2>1 DEF LastTouch
  <2>7. Placed(w, F, k)
    <3>1. 0 \in 0 .. k - 1 /\ IsAnchor(w, F, F[k].ts, 0)
      BY <1>1, <2>1 DEF IsAnchor
    <3>2. ASSUME NEW j \in 1 .. k - 1 PROVE Higher(F[j], F[k])
      <4>1. j \in 1 .. BaseLength /\ j < k
        BY <1>1
      <4>2. F[j].ts = BaseTs /\ F[j].off = j
        BY <1>2, <4>1
      <4> QED
        BY <2>1, <4>1, <4>2 DEF Higher
    <3>3. \A j \in 0 + 1 .. k - 1 : Higher(F[j], F[k])
      BY <3>2
    <3> QED
      BY <3>1, <3>3, Zenon DEF Placed
  <2> QED
    BY <1>6, <2>2, <2>3, <2>5, <2>6, <2>7, Zenon DEF Kept
<1>10. \A k \in 1 .. BaseLength : Char(F[k]) = <<BaseTs, k>>
  BY <1>2 DEF Char
<1>11. \A c \in CharsOf(w, v) : \E i \in DOMAIN F : Char(F[i]) = c
  BY <1>3, <1>7, <1>10
<1>12. \A i, j \in DOMAIN F : Char(F[i]) = Char(F[j]) => i = j
  BY <1>3, <1>10
<1>13. View(w, F, v)
  BY <1>2, <1>3, <1>9, <1>11, <1>12 DEF View
<1> QED
  BY <1>4, <1>5, <1>8, <1>13 DEF F

LEMMA InvStarts == Init => TextInv
<1> SUFFICES ASSUME Init PROVE TextInv
  OBVIOUS
<1>1. ops = {} /\ World.ops = {}
  BY DEF Init, World
<1>2. /\ View(World, NewFragments(BaseTs, BaseLength), BaseVersion)
      /\ Sound(World, BaseVersion) /\ EntriesOf(World, BaseVersion) = {}
      /\ Covered(World, BaseVersion) = {}
  BY <1>1, BaseView
<1>3. Stamps({}) = {}
  BY DEF Stamps
<1>4. /\ DOMAIN buf = Replicas /\ DOMAIN applied = Replicas
      /\ DOMAIN undoStack = Replicas /\ DOMAIN redoStack = Replicas
      /\ DOMAIN seen = {} /\ DOMAIN erased = {} /\ DOMAIN deps = {}
  BY DEF Init
<1>5. WorldOK(World)
  BY <1>1, FS_EmptySet DEF WorldOK
<1>6. ASSUME NEW r \in Replicas
      PROVE  /\ ReplicaOK(World, r, buf[r], applied[r])
             /\ undoStack[r] \in Seq(Transactions(applied[r]))
             /\ redoStack[r] \in Seq(Transactions(applied[r]))
             /\ buf[r].frags = NewFragments(BaseTs, BaseLength)
  <2> DEFINE b == buf[r]
             k == IF BaseLength > 0 THEN ObserveClock(1, BaseTs) ELSE 1
  <2>1. b = NewBuffer(r) /\ applied[r] = {} /\ undoStack[r] = <<>> /\ redoStack[r] = <<>>
    BY DEF Init
  <2>2. b = [clock |-> k, version |-> BaseVersion, frags |-> NewFragments(BaseTs, BaseLength),
             undos |-> {}, deferred |-> {}, deferredReplicas |-> {}, waiting |-> {}]
    BY <2>1 DEF NewBuffer, BaseVersion
  <2>3. k \in Nat /\ \A q \in Replicas : BaseVersion[q] < k
    BY BaseIs DEF ObserveClock
  <2> HIDE DEF b, k
  <2>4. /\ b.clock = k /\ b.version = BaseVersion /\ b.frags = NewFragments(BaseTs, BaseLength)
        /\ b.undos = {} /\ b.deferred = {} /\ b.deferredReplicas = {} /\ b.waiting = {}
        /\ b = [clock |-> b.clock, version |-> b.version, frags |-> b.frags,
                undos |-> b.undos, deferred |-> b.deferred,
                deferredReplicas |-> b.deferredReplicas, waiting |-> b.waiting]
    BY <2>2
  <2>5. b \in Buffers(World)
    <3>1. NewFragments(BaseTs, BaseLength) \in Seq(Fragments) /\ BaseVersion \in Versions
      BY <1>2 DEF View, Sound
    <3> QED
      BY <2>3, <2>4, <3>1, BufferParts
  <2>6. BufferOK(World, b)
    BY <1>1, <1>2, <2>3, <2>4, <2>5 DEF BufferOK
  <2>7. ReplicaOK(World, r, b, {})
    BY <1>1, <1>2, <1>3, <2>4, <2>6 DEF ReplicaOK, Unready
  <2>8. <<>> \in Seq(Transactions({}))
    BY EmptySeq
  <2> QED
    BY <2>1, <2>4, <2>7, <2>8 DEF b
<1>7. ASSUME NEW r \in Replicas, NEW q \in Replicas PROVE Agree(buf[r].frags, buf[q].frags)
  BY <1>2, <1>6 DEF View, Agree
<1> QED
  BY <1>1, <1>3, <1>4, <1>5, <1>6, <1>7 DEF TextInv

LEMMA InvStays == TextInv /\ [Next]_vars => TextInv'
<1> SUFFICES ASSUME TextInv, [Next]_vars PROVE TextInv'
  OBVIOUS
<1>1. CASE Next
  <2>1. PICK r \in Replicas :
       \/ \E s \in 0..Cardinality(VisibleAt(buf[r].frags)) :
          \E e \in s..Cardinality(VisibleAt(buf[r].frags)) :
          \E n \in 0..MaxInsert, grouped \in Grouping : Edit(r, s, e, n, grouped)
       \/ \E i \in DOMAIN undoStack[r] : Undo(r, i)
       \/ Redo(r)
       \/ \E op \in OpsOf("edit") : PushTransaction(r, op)
       \/ \E q \in Replicas : WaitForVersion(r, q)
       \/ \E batch \in Batches : ApplyOps(r, batch)
    BY <1>1, Zenon DEF Next
  <2>2. CASE \E s \in 0..Cardinality(VisibleAt(buf[r].frags)) :
             \E e \in s..Cardinality(VisibleAt(buf[r].frags)) :
             \E n \in 0..MaxInsert, grouped \in Grouping : Edit(r, s, e, n, grouped)
    BY <2>2, EditStep, Zenon
  <2>3. CASE (\E i \in DOMAIN undoStack[r] : Undo(r, i)) \/ Redo(r)
    BY <2>3, UndoOrRedoStep
  <2>4. CASE \E op \in OpsOf("edit") : PushTransaction(r, op)
    BY <2>4, PushStep
  <2>5. CASE \E q \in Replicas : WaitForVersion(r, q)
    BY <2>5, WaitStep
  <2>6. CASE \E batch \in Batches : ApplyOps(r, batch)
    BY <2>6, ApplyStep
  <2> QED
    BY <2>1, <2>2, <2>3, <2>4, <2>5, <2>6, Zenon
<1>2. CASE UNCHANGED vars
  <2>1. /\ buf' = buf /\ undoStack' = undoStack /\ redoStack' = redoStack /\ ops' = ops
        /\ applied' = applied /\ deps' = deps /\ erased' = erased /\ seen' = seen
    BY <1>2 DEF vars
  <2>2. World' = World
    BY <2>1 DEF World
  <2> QED
    BY <2>1, <2>2, Zenon DEF TextInv
<1> QED
  BY <1>1, <1>2

-----------------------------------------------------------------------------
(* The properties.                                                          *)

(* The inductive invariant: every buffer is the view of its version, every  *)
(* operation was made on such a view, all views have their characters in    *)
(* the same order, and nothing that is ready waits in a queue.              *)
THEOREM TextInvariant == Spec => []TextInv
<1> QED
  BY InvStarts, InvStays, PTL DEF Spec

LEMMA OpsDiffer ==
    ASSUME TextInv, NEW r \in Replicas, NEW op \in ops
    PROVE  Observed(buf[r].version, op.ts) <=> op.ts \in applied[r]
<1>1. applied[r] = Stamps(Covered(World, buf[r].version)) /\ WorldOK(World)
  BY ReplicaHas
<1>2. \A p \in ops : p.ts = op.ts => p = op
  BY <1>1, WorldIs DEF WorldOK
<1> QED
  BY <1>1, <1>2, WorldIs DEF Stamps, Covered

(* A version vector covers exactly what was applied (can_apply_op).         *)
THEOREM VersionHolds == Spec => []VersionIsExact
<1>1. TextInv => VersionIsExact
  BY OpsDiffer DEF VersionIsExact
<1> QED
  BY <1>1, TextInvariant, PTL

(* Nothing that could be applied is left in the queue (flush_deferred_ops). *)
THEOREM QueueHolds == Spec => []NothingReadyDeferred
<1>1. TextInv => NothingReadyDeferred
  BY ReplicaHas DEF NothingReadyDeferred, Unready
<1> QED
  BY <1>1, TextInvariant, PTL

(* No wait is open for a version the replica has reached (apply_op).        *)
THEOREM WaitersHolds == Spec => []WaitersServed
<1>1. TextInv => WaitersServed
  <2> SUFFICES ASSUME TextInv, NEW r \in Replicas
               PROVE  StillWaiting(buf[r].waiting, buf[r].version) = buf[r].waiting
    BY DEF WaitersServed
  <2>1. \A v \in buf[r].waiting : ~ ObservedAll(buf[r].version, v)
    BY ReplicaHas DEF ReplicaOK
  <2> QED
    BY <2>1 DEF StillWaiting
<1> QED
  BY <1>1, TextInvariant, PTL

(* No two replicas disagree on the order of two characters, and no          *)
(* character is there twice (apply_remote_edit).                            *)
THEOREM OrderHolds == Spec => []SameOrder
<1>1. TextInv => SameOrder
  BY DEF TextInv, SameOrder, Agree
<1> QED
  BY <1>1, TextInvariant, PTL

(* The visible flag is the visibility that the undo map defines             *)
(* (Fragment::is_visible).                                                  *)
THEOREM VisibleHolds == Spec => []VisibleIsExact
<1>1. TextInv => VisibleIsExact
  <2> SUFFICES ASSUME TextInv, NEW r \in Replicas, NEW f \in ToSet(buf[r].frags)
               PROVE  f.visible = IsVisible(f, buf[r].undos)
    BY DEF VisibleIsExact
  <2>1. View(World, buf[r].frags, buf[r].version)
        /\ buf[r].undos = EntriesOf(World, buf[r].version)
    BY ReplicaHas DEF BufferOK
  <2>2. PICK i \in DOMAIN buf[r].frags : f = buf[r].frags[i]
    BY DEF ToSet
  <2>3. Kept(World, buf[r].version, f)
    BY <2>1, <2>2 DEF View
  <2>4. f.visible = IsVisible(f, EntriesOf(World, buf[r].version))
    BY <2>3, Zenon DEF Kept
  <2> QED
    BY <2>1, <2>4, Zenon
<1> QED
  BY <1>1, TextInvariant, PTL

(* A remote replica deletes exactly the characters that the author saw      *)
(* (was_visible).                                                           *)
THEOREM ErasedHolds == Spec => []ErasedIsExact
<1>1. TextInv => ErasedIsExact
  <2> SUFFICES ASSUME TextInv, NEW r \in Replicas, NEW t \in applied[r]
               PROVE  {Char(f) : f \in {g \in ToSet(buf[r].frags) : t \in g.dels}} = erased[t]
    BY DEF ErasedIsExact
  <2> DEFINE F == buf[r].frags
             v == buf[r].version
  <2>1. /\ View(World, F, v) /\ Sound(World, v) /\ WorldOK(World)
        /\ t \in Stamps(Covered(World, v))
    BY ReplicaHas
  <2>2. \A i \in DOMAIN F : t \in F[i].dels <=> Char(F[i]) \in erased[t]
    BY <2>1, WorldIs DEF View, Kept
  <2>3. \A c \in erased[t] : \E i \in DOMAIN F : Char(F[i]) = c
    <3>1. PICK op \in Covered(World, v) : op.ts = t
      BY <2>1 DEF Stamps
    <3>2. erased[t] \subseteq CharsOf(World, v)
      <4>1. op \in World.ops /\ op.version \in Versions /\ v \in Versions /\ ObservedAll(v, op.version)
        BY <2>1, <3>1, OpTyped DEF Covered, Sound
      <4>2. CharsOf(World, op.version) \subseteq CharsOf(World, v)
        BY <2>1, <4>1, CoveredGrows, CharsGrow
      <4>3. \A c \in World.erased[op.ts] : c \in CharsOf(World, op.version)
        BY <2>1, <4>1, ErasedAreChars
      <4> QED
        BY <3>1, <4>2, <4>3, WorldIs
    <3> QED
      BY <2>1, <3>2 DEF View
  <2>4. ToSet(F) = {F[i] : i \in DOMAIN F}
    BY DEF ToSet
  <2> QED
    BY <2>2, <2>3, <2>4
<1> QED
  BY <1>1, TextInvariant, PTL

(* The state has the shape of Buffer and History; what is deferred was      *)
(* broadcast, transactions name edits that were applied, and no two         *)
(* operations share a timestamp.                                            *)
THEOREM TypeHolds == Spec => []TypeOK
<1>1. TextInv => TypeOK
  <2> SUFFICES ASSUME TextInv PROVE TypeOK
    OBVIOUS
  <2>1. ASSUME NEW r \in Replicas
        PROVE  /\ buf[r].clock \in Nat
               /\ buf[r].version \in Versions
               /\ \A f \in ToSet(buf[r].frags) :
                    /\ f.ts \in Timestamps
                    /\ f.dels \subseteq Timestamps
                    /\ f.visible \in BOOLEAN
                    /\ f.maxUndos \in Versions
               /\ buf[r].deferred \subseteq ops
               /\ buf[r].deferredReplicas = {op.ts[2] : op \in buf[r].deferred}
               /\ buf[r].waiting \subseteq Versions
               /\ \A t \in ToSet(undoStack[r] \o redoStack[r]) :
                    t.edits # {} /\ t.edits \subseteq applied[r]
    <3>1. /\ BufferOK(World, buf[r]) /\ buf[r].frags \in Seq(Fragments)
          /\ buf[r].clock \in Nat /\ buf[r].version \in Versions
      BY ReplicaHas
    <3>2. buf[r].deferred \subseteq ops /\ buf[r].waiting \subseteq Versions
          /\ buf[r].deferredReplicas = {op.ts[2] : op \in buf[r].deferred}
      BY <3>1, BufferParts, WorldIs DEF BufferOK
    <3>3. \A f \in ToSet(buf[r].frags) : f \in Fragments
      BY <3>1, SeqParts DEF ToSet
    <3>4. \A f \in Fragments : f.ts \in Timestamps /\ f.dels \subseteq Timestamps
                               /\ f.visible \in BOOLEAN /\ f.maxUndos \in Versions
      BY DEF Fragments
    <3>5. ASSUME NEW t \in ToSet(undoStack[r] \o redoStack[r])
          PROVE  t.edits # {} /\ t.edits \subseteq applied[r]
      <4> DEFINE T == Transactions(applied[r])
                 U == undoStack[r]
                 V == redoStack[r]
                 S == U \o V
      <4>1. U \in Seq(T) /\ V \in Seq(T)
        BY ReplicaHas
      <4> HIDE DEF T, U, V
      <4>2. S \in Seq(T)
        BY <4>1, ConcatProperties
      <4>3. \A i \in DOMAIN S : S[i] \in T
        BY <4>2, SeqParts
      <4>4. t \in T
        BY <4>3, <3>5 DEF ToSet, U, V
      <4> QED
        BY <4>4 DEF T, Transactions
    <3> QED
      BY <3>1, <3>2, <3>3, <3>4, <3>5
  <2>2. \A o, p \in ops : o.ts = p.ts => o = p
    BY WorldIs DEF TextInv, WorldOK
  <2> QED
    BY <2>1, <2>2 DEF TypeOK
<1> QED
  BY <1>1, TextInvariant, PTL

-----------------------------------------------------------------------------
(* Convergence: a view is determined by the operations it covers.           *)

(* Of two sequences with the same characters in the same order, the first   *)
(* is no longer than the second, and its characters are those at the same   *)
(* places there.                                                            *)
LEMMA SamePlaces ==
    ASSUME NEW F \in Seq(Fragments), NEW G \in Seq(Fragments), Agree(F, G),
           \A i \in DOMAIN F : \E k \in DOMAIN G : Char(F[i]) = Char(G[k]),
           \A k \in DOMAIN G : \E i \in DOMAIN F : Char(F[i]) = Char(G[k]),
           \A i, j \in DOMAIN F : Char(F[i]) = Char(F[j]) => i = j,
           \A i, j \in DOMAIN G : Char(G[i]) = Char(G[j]) => i = j
    PROVE  \A i \in 1 .. Len(F) : i <= Len(G) /\ Char(F[i]) = Char(G[i])
<1>1. /\ Len(F) \in Nat /\ DOMAIN F = 1 .. Len(F)
      /\ Len(G) \in Nat /\ DOMAIN G = 1 .. Len(G)
  BY SeqParts
<1> DEFINE S == {i \in 1 .. Len(F) : ~ (i <= Len(G) /\ Char(F[i]) = Char(G[i]))}
<1> SUFFICES ASSUME S # {} PROVE FALSE
  OBVIOUS
<1>2. PICK n \in S : \A m \in S : n <= m
  <2>1. S \subseteq Nat
    BY <1>1
  <2> HIDE DEF S
  <2> QED
    BY <2>1, Least
<1>3. n \in 1 .. Len(F) /\ ~ (n <= Len(G) /\ Char(F[n]) = Char(G[n]))
  OBVIOUS
<1>4. \A i \in 1 .. n - 1 : i <= Len(G) /\ Char(F[i]) = Char(G[i])
  BY <1>1, <1>2, <1>3
<1> HIDE DEF S
<1>5. PICK k \in 1 .. Len(G) : Char(F[n]) = Char(G[k])
  BY <1>1, <1>3
<1>6. k > n
  <2>1. k # n
    BY <1>1, <1>3, <1>5
  <2>2. CASE k < n
    <3>1. k \in 1 .. n - 1 /\ k \in 1 .. Len(F)
      BY <1>1, <1>3, <2>2
    <3>2. Char(F[k]) = Char(F[n])
      BY <1>4, <1>5, <3>1
    <3> QED
      BY <1>1, <1>3, <2>1, <3>1, <3>2
  <2> QED
    BY <1>1, <1>3, <2>1, <2>2
<1>7. n \in 1 .. Len(G)
  BY <1>1, <1>3, <1>6
<1>8. PICK i \in 1 .. Len(F) : Char(F[i]) = Char(G[n])
  BY <1>1, <1>7
<1>9. i > n
  <2>1. i # n
    BY <1>1, <1>3, <1>7, <1>8
  <2>2. CASE i < n
    <3>1. i \in 1 .. n - 1 /\ i \in 1 .. Len(G)
      BY <1>1, <1>3, <1>7, <2>2
    <3>2. Char(G[i]) = Char(G[n])
      BY <1>4, <1>8, <3>1
    <3> QED
      BY <1>1, <1>7, <2>1, <3>1, <3>2
  <2> QED
    BY <1>1, <1>3, <2>1, <2>2
<1>10. n < i <=> k < n
  BY <1>1, <1>3, <1>5, <1>7, <1>8 DEF Agree
<1> QED
  BY <1>1, <1>3, <1>6, <1>9, <1>10

(* What a buffer keeps of a character depends on what its version covers.   *)
LEMMA KeptSame ==
    ASSUME NEW w, NEW u, NEW v, Covered(w, u) = Covered(w, v),
           NEW f \in Fragments, NEW g \in Fragments, Char(f) = Char(g),
           Kept(w, u, f), Kept(w, v, g)
    PROVE  f = g
<1>1. f.ts = g.ts /\ f.off = g.off
  BY DEF Char
<1>2. f.dels = g.dels
  BY DEF Kept
<1>3. EntriesOf(w, u) = EntriesOf(w, v)
  BY DEF EntriesOf
<1>4. f.visible = g.visible
  <2>1. /\ f.visible = IsVisible(f, EntriesOf(w, u))
        /\ g.visible = IsVisible(g, EntriesOf(w, v))
    BY Zenon DEF Kept
  <2>2. IsVisible(f, EntriesOf(w, u)) <=> IsVisible(g, EntriesOf(w, v))
    BY <1>1, <1>2, <1>3, Zenon DEF IsVisible
  <2>3. f.visible \in BOOLEAN /\ g.visible \in BOOLEAN
    BY DEF Fragments
  <2> QED
    BY <2>1, <2>2, <2>3, Zenon
<1>5. f.maxUndos = g.maxUndos
  <2>1. f.maxUndos \in Versions /\ g.maxUndos \in Versions
    BY DEF Fragments
  <2>2. ASSUME NEW q \in Replicas PROVE f.maxUndos[q] = g.maxUndos[q]
    <3> DEFINE m == f.maxUndos[q]
               n == g.maxUndos[q]
               c == Char(f)
    <3>1. LastTouch(w, u, c, q, m) /\ LastTouch(w, v, c, q, n)
      BY DEF Kept
    <3>2. m \in Nat /\ n \in Nat
      BY <2>1 DEF Versions
    <3>3. LastTouch(w, u, c, q, n)
      BY <3>1 DEF LastTouch
    <3> HIDE DEF m, n, c
    <3>4. m <= n
      BY <3>1, <3>2, <3>3 DEF LastTouch
    <3>5. n <= m
      BY <3>1, <3>2, <3>3 DEF LastTouch
    <3> QED
      BY <3>2, <3>4, <3>5 DEF m, n
  <2> QED
    BY <2>1, <2>2 DEF Versions
<1>6. /\ f = [ts |-> f.ts, off |-> f.off, dels |-> f.dels, visible |-> f.visible, maxUndos |-> f.maxUndos]
      /\ g = [ts |-> g.ts, off |-> g.off, dels |-> g.dels, visible |-> g.visible, maxUndos |-> g.maxUndos]
  BY DEF Fragments
<1> QED
  BY <1>1, <1>2, <1>4, <1>5, <1>6, Zenon

LEMMA ViewsSame ==
    ASSUME NEW w, NEW u, NEW v, Covered(w, u) = Covered(w, v), NEW F, NEW G,
           View(w, F, u), View(w, G, v), Agree(F, G)
    PROVE  F = G
<1>1. CharsOf(w, u) = CharsOf(w, v)
  BY DEF CharsOf
<1>2. F \in Seq(Fragments) /\ G \in Seq(Fragments)
  BY DEF View
<1>3. /\ Len(F) \in Nat /\ DOMAIN F = 1 .. Len(F) /\ \A i \in 1 .. Len(F) : F[i] \in Fragments
      /\ Len(G) \in Nat /\ DOMAIN G = 1 .. Len(G) /\ \A i \in 1 .. Len(G) : G[i] \in Fragments
  BY <1>2, SeqParts
<1>4. /\ \A i \in DOMAIN F : Char(F[i]) \in CharsOf(w, u)
      /\ \A i \in DOMAIN G : Char(G[i]) \in CharsOf(w, v)
  BY DEF View, Kept
<1>5. /\ \A i \in DOMAIN F : \E k \in DOMAIN G : Char(F[i]) = Char(G[k])
      /\ \A k \in DOMAIN G : \E i \in DOMAIN F : Char(F[i]) = Char(G[k])
  BY <1>1, <1>4 DEF View
<1>6. /\ \A i, j \in DOMAIN F : Char(F[i]) = Char(F[j]) => i = j
      /\ \A i, j \in DOMAIN G : Char(G[i]) = Char(G[j]) => i = j
  BY DEF View
<1>7. \A i \in 1 .. Len(F) : i <= Len(G) /\ Char(F[i]) = Char(G[i])
  BY <1>2, <1>5, <1>6, SamePlaces
<1>8. \A i \in 1 .. Len(G) : i <= Len(F) /\ Char(G[i]) = Char(F[i])
  BY <1>2, <1>5, <1>6, SamePlaces, AgreeBack
<1>9. Len(F) = Len(G)
  <2> DEFINE m == Len(F)
             n == Len(G)
  <2>1. m \in Nat /\ n \in Nat /\ (\A i \in 1 .. m : i <= n) /\ (\A i \in 1 .. n : i <= m)
    BY <1>3, <1>7, <1>8
  <2> HIDE DEF m, n
  <2>2. m <= n
    <3>1. CASE m = 0
      BY <2>1, <3>1
    <3>2. CASE m \in 1 .. m
      BY <2>1, <3>2
    <3> QED
      BY <2>1, <3>1, <3>2
  <2>3. n <= m
    <3>1. CASE n = 0
      BY <2>1, <3>1
    <3>2. CASE n \in 1 .. n
      BY <2>1, <3>2
    <3> QED
      BY <2>1, <3>1, <3>2
  <2> QED
    BY <2>1, <2>2, <2>3 DEF m, n
<1>10. ASSUME NEW i \in 1 .. Len(F) PROVE F[i] = G[i]
  <2>1. Kept(w, u, F[i]) /\ Kept(w, v, G[i]) /\ Char(F[i]) = Char(G[i])
    BY <1>3, <1>7, <1>9 DEF View
  <2> QED
    BY <1>3, <1>9, <2>1, KeptSame
<1> QED
  BY <1>2, <1>9, <1>10, SeqEqual

(* Two replicas that have applied the same operations hold the same         *)
(* fragments: the same characters, in the same order, the same ones visible *)
(* (apply_remote_edit, apply_undo).                                         *)
THEOREM ConvergenceHolds == Spec => []Convergence
<1>1. TextInv => Convergence
  <2> SUFFICES ASSUME TextInv, NEW r \in Replicas, NEW q \in Replicas, applied[r] = applied[q]
               PROVE  buf[r].frags = buf[q].frags
    BY DEF Convergence
  <2>1. Covered(World, buf[r].version) = Covered(World, buf[q].version)
    BY OpsDiffer, WorldIs DEF Covered
  <2>2. /\ View(World, buf[r].frags, buf[r].version) /\ View(World, buf[q].frags, buf[q].version)
        /\ Agree(buf[r].frags, buf[q].frags)
    BY ReplicaHas
  <2> QED
    BY <2>1, <2>2, ViewsSame
<1> QED
  BY <1>1, TextInvariant, PTL

-----------------------------------------------------------------------------
(* Causal delivery.                                                         *)

LEMMA MakeStep ==
    ASSUME TextInv, NEW r \in Replicas, NEW op, NEW chars, Broadcast(r, op, chars),
           op.ts \in Timestamps, op.ts[2] = r, op.ts[1] >= buf[r].clock
    PROVE  Causal!Next
<1>1. op.ts \notin DOMAIN deps
  BY BroadcastIs, WorldIs DEF TextInv
<1>2. Causal!Make(r, op.ts)
  BY <1>1 DEF Broadcast, Causal!Make
<1>3. op.ts \in DOMAIN deps'
  BY DEF Broadcast
<1> QED
  BY <1>2, <1>3 DEF Causal!Next

LEMMA TakeInStep ==
    ASSUME TextInv, TextInv', NEW r \in Replicas, NEW batch \in Batches, ApplyOps(r, batch)
    PROVE  Causal!Next
<1> DEFINE group == applied'[r] \ applied[r]
           v == buf'[r].version
<1>1. deps' = deps /\ ops' = ops /\ World' = World
  BY DEF ApplyOps, World
<1>2. applied'[r] = Stamps(Covered(World, v)) /\ Sound(World, v) /\ WorldOK(World)
  BY <1>1 DEF TextInv, ReplicaOK, BufferOK
<1>3. applied' = [applied EXCEPT ![r] = applied[r] \cup group]
  <2>1. DOMAIN applied = Replicas
    BY DEF TextInv
  <2>2. PICK more : applied' = [applied EXCEPT ![r] = applied[r] \cup more]
    BY DEF ApplyOps
  <2> QED
    BY <2>1, <2>2
<1>4. group \subseteq DOMAIN deps \ applied[r]
  BY <1>2, WorldIs DEF TextInv, Stamps, Covered
<1>5. ASSUME NEW t \in group PROVE deps[t] \subseteq applied[r] \cup group
  <2>1. PICK op \in Covered(World, v) : op.ts = t
    BY <1>2 DEF Stamps
  <2>2. op \in World.ops /\ ObservedAll(v, op.version) /\ v \in Versions /\ op.version \in Versions
    BY <1>2, <2>1, OpTyped DEF Sound, Covered
  <2>3. Covered(World, op.version) \subseteq Covered(World, v)
    BY <1>2, <2>2, CoveredGrows
  <2>4. deps[t] = Stamps(Covered(World, op.version))
    BY <2>1, <2>2, WorldIs DEF TextInv
  <2> QED
    BY <1>2, <2>3, <2>4 DEF Stamps
<1> HIDE DEF group
<1>6. Causal!TakeIn(r, group)
  BY <1>1, <1>3, <1>5 DEF Causal!TakeIn
<1> QED
  BY <1>4, <1>6 DEF Causal!Next

LEMMA CausalStep ==
    ASSUME TextInv, TextInv', [Next]_vars
    PROVE  [Causal!Next]_(Causal!vars)
<1>1. ASSUME NEW r \in Replicas, NEW tx, UndoOrRedo(r, tx)
      PROVE  Causal!Next
  <2> DEFINE b == buf[r]
             ts == <<b.clock, r>>
             op == [kind |-> "undo", ts |-> ts, version |-> b.version,
                    counts |-> [e \in tx.edits |-> UndoCount(b.undos, e) + 1]]
  <2>1. Broadcast(r, op, {})
    BY <1>1, Zenon DEF UndoOrRedo
  <2>2. b.clock \in Nat
    BY ReplicaHas
  <2>3. op.ts \in Timestamps /\ op.ts[2] = r /\ op.ts[1] >= b.clock
    BY <2>2 DEF Timestamps
  <2> HIDE DEF op
  <2> QED
    BY <2>1, <2>3, MakeStep
<1>2. ASSUME NEW r \in Replicas, NEW s, NEW e, NEW n, NEW grouped, Edit(r, s, e, n, grouped)
      PROVE  Causal!Next
  <2> DEFINE b == buf[r]
             ts == <<Tick(b.clock), r>>
             from == FullStart(b.frags, s)
             to == FullEnd(b.frags, s, e)
             dead == {i \in from + 1..to : b.frags[i].visible}
             op == [kind |-> "edit", ts |-> ts, version |-> b.version,
                    start |-> from, end |-> to, len |-> n]
             chars == {Char(b.frags[i]) : i \in dead}
  <2>1. Broadcast(r, op, chars)
    BY <1>2, Zenon DEF Edit
  <2>2. b.clock \in Nat
    BY ReplicaHas
  <2>3. op.ts \in Timestamps /\ op.ts[2] = r /\ op.ts[1] >= b.clock
    BY <2>2 DEF Timestamps, Tick
  <2> HIDE DEF op, chars
  <2> QED
    BY <2>1, <2>3, MakeStep
<1>3. CASE Next
  <2>1. PICK r \in Replicas :
       \/ \E s \in 0..Cardinality(VisibleAt(buf[r].frags)) :
          \E e \in s..Cardinality(VisibleAt(buf[r].frags)) :
          \E n \in 0..MaxInsert, grouped \in Grouping : Edit(r, s, e, n, grouped)
       \/ \E i \in DOMAIN undoStack[r] : Undo(r, i)
       \/ Redo(r)
       \/ \E op \in OpsOf("edit") : PushTransaction(r, op)
       \/ \E q \in Replicas : WaitForVersion(r, q)
       \/ \E batch \in Batches : ApplyOps(r, batch)
    BY <1>3, Zenon DEF Next
  <2>2. CASE \E s \in 0..Cardinality(VisibleAt(buf[r].frags)) :
             \E e \in s..Cardinality(VisibleAt(buf[r].frags)) :
             \E n \in 0..MaxInsert, grouped \in Grouping : Edit(r, s, e, n, grouped)
    BY <1>2, <2>2, Zenon
  <2>3. CASE (\E i \in DOMAIN undoStack[r] : Undo(r, i)) \/ Redo(r)
    BY <1>1, <2>3, Zenon DEF Undo, Redo
  <2>4. CASE (\E op \in OpsOf("edit") : PushTransaction(r, op)) \/ \E q \in Replicas : WaitForVersion(r, q)
    BY <2>4 DEF PushTransaction, WaitForVersion, Causal!vars
  <2>5. CASE \E batch \in Batches : ApplyOps(r, batch)
    BY <2>5, TakeInStep
  <2> QED
    BY <2>1, <2>2, <2>3, <2>4, <2>5, Zenon
<1>4. CASE UNCHANGED vars
  BY <1>4 DEF vars, Causal!vars
<1> QED
  BY <1>3, <1>4

(* The version vectors and the queue implement causal delivery: a replica   *)
(* applies an operation only together with, or after, all its author had    *)
(* applied (apply_ops implements the abstract CausalOps).                   *)
THEOREM CausalHolds == Spec => CausalDelivery
<1>1. Init => Causal!Init
  BY DEF Init, Causal!Init
<1>2. TextInv /\ TextInv' /\ [Next]_vars => [Causal!Next]_(Causal!vars)
  BY CausalStep
<1> QED
  BY <1>1, <1>2, TextInvariant, PTL DEF Spec, CausalDelivery, Causal!Spec

-----------------------------------------------------------------------------
(* Anchors.                                                                 *)

LEMMA VisibleFinite ==
    ASSUME NEW F \in Seq(Fragments)
    PROVE  /\ Len(F) \in Nat /\ DOMAIN F = 1 .. Len(F)
           /\ VisibleAt(F) \in SUBSET (1 .. Len(F))
           /\ IsFiniteSet(VisibleAt(F)) /\ Cardinality(VisibleAt(F)) \in Nat
<1> DEFINE N == Len(F)
           S == VisibleAt(F)
<1>1. N \in Nat /\ DOMAIN F = 1 .. N
  BY SeqParts
<1>2. S \in SUBSET (1 .. N)
  BY <1>1 DEF VisibleAt
<1> HIDE DEF N, S
<1>3. IsFiniteSet(1 .. N)
  BY <1>1, FS_Interval
<1>4. IsFiniteSet(S) /\ Cardinality(S) \in Nat
  BY <1>2, <1>3, FS_Subset, FS_CardinalityType
<1> QED
  BY <1>1, <1>2, <1>4 DEF N, S

(* How many visible fragments there are in front of a place.                *)
LEMMA Widths ==
    ASSUME NEW G \in Seq(Fragments), NEW i \in DOMAIN G
    PROVE  /\ VisibleBefore(G, i) \in Nat /\ Cardinality(VisibleAt(G)) \in Nat
           /\ VisibleBefore(G, i) + (IF G[i].visible THEN 1 ELSE 0) <= Cardinality(VisibleAt(G))
           /\ \A k \in DOMAIN G : i < k =>
                 VisibleBefore(G, i) + (IF G[i].visible THEN 1 ELSE 0) <= VisibleBefore(G, k)
<1> DEFINE S == VisibleAt(G)
           B(k) == {j \in S : j < k}
           A == B(i) \cup (IF G[i].visible THEN {i} ELSE {})
<1>1. Len(G) \in Nat /\ DOMAIN G = 1 .. Len(G)
  BY SeqParts
<1>2. S \subseteq 1 .. Len(G) /\ IsFiniteSet(S)
  BY VisibleFinite
<1>3. ASSUME NEW k PROVE IsFiniteSet(B(k)) /\ Cardinality(B(k)) \in Nat
  <2>1. B(k) \in SUBSET S
    OBVIOUS
  <2> HIDE DEF B, S
  <2> QED
    BY <1>2, <2>1, FS_Subset, FS_CardinalityType
<1>4. IsFiniteSet(A) /\ Cardinality(A) = Cardinality(B(i)) + (IF G[i].visible THEN 1 ELSE 0)
  <2>1. IsFiniteSet(B(i)) /\ Cardinality(B(i)) \in Nat
    BY <1>3, Zenon
  <2>4. i \notin B(i)
    BY <1>1
  <2> HIDE DEF B
  <2>2. CASE G[i].visible
    <3>1. A = B(i) \cup {i}
      BY <2>2
    <3>2. IsFiniteSet(B(i) \cup {i}) /\ Cardinality(B(i) \cup {i}) = Cardinality(B(i)) + 1
      BY <2>1, <2>4, FS_AddElement
    <3> QED
      BY <2>2, <3>1, <3>2
  <2>3. CASE ~ G[i].visible
    <3>1. A = B(i)
      BY <2>3
    <3> QED
      BY <2>1, <2>3, <3>1
  <2> QED
    BY <2>2, <2>3
<1>5. A \in SUBSET S
  BY DEF VisibleAt
<1>6. ASSUME NEW k \in DOMAIN G, i < k PROVE A \in SUBSET B(k)
  BY <1>1, <1>2, <1>5, <1>6
<1>7. Cardinality(A) <= Cardinality(S)
  <2> HIDE DEF A
  <2> QED
    BY <1>2, <1>5, FS_Subset
<1>8. ASSUME NEW k \in DOMAIN G, i < k PROVE Cardinality(A) <= Cardinality(B(k))
  <2>1. A \in SUBSET B(k)
    BY <1>6, <1>8
  <2>2. IsFiniteSet(B(k))
    BY <1>3
  <2> HIDE DEF A, B
  <2> QED
    BY <2>1, <2>2, FS_Subset
<1>9. \A k : VisibleBefore(G, k) = Cardinality(B(k))
  BY DEF VisibleBefore
<1>10. Cardinality(S) \in Nat /\ Cardinality(B(i)) \in Nat
  BY <1>2, <1>3, FS_CardinalityType
<1> HIDE DEF A, B, S
<1> QED
  BY <1>4, <1>7, <1>8, <1>9, <1>10 DEF S

(* Ranks order the places of a set.                                         *)
LEMMA RanksOrder ==
    ASSUME NEW N \in Nat, NEW S \in SUBSET (1 .. N), NEW a \in S, NEW b \in S
    PROVE  /\ Cardinality({j \in S : j <= a}) \in Nat \ {0}
           /\ a < b => Cardinality({j \in S : j <= a}) < Cardinality({j \in S : j <= b})
<1> DEFINE R(k) == {j \in S : j <= k}
<1>1. IsFiniteSet(S)
  <2>1. IsFiniteSet(1 .. N)
    BY FS_Interval
  <2> QED
    BY <2>1, FS_Subset
<1>2. ASSUME NEW k PROVE IsFiniteSet(R(k)) /\ Cardinality(R(k)) \in Nat
  <2>1. R(k) \in SUBSET S
    OBVIOUS
  <2> HIDE DEF R
  <2> QED
    BY <1>1, <2>1, FS_Subset, FS_CardinalityType
<1>3. ASSUME a < b PROVE Cardinality(R(a)) < Cardinality(R(b))
  <2>0. a \in Nat /\ b \in Nat /\ S \subseteq Nat
    OBVIOUS
  <2>1. R(a) \in SUBSET R(b) /\ b \in R(b) /\ b \notin R(a)
    <3>1. \A j \in S : j <= a => j <= b
      BY <1>3, <2>0
    <3>2. b <= b /\ ~ (b <= a)
      BY <1>3, <2>0
    <3> QED
      BY <3>1, <3>2
  <2>2. IsFiniteSet(R(b)) /\ Cardinality(R(a)) \in Nat /\ Cardinality(R(b)) \in Nat
    BY <1>2
  <2> HIDE DEF R
  <2>3. R(a) # R(b)
    BY <2>1
  <2> QED
    BY <2>1, <2>2, <2>3, FS_Subset
<1>4. Cardinality(R(a)) # 0
  <2>1. a \in R(a) /\ IsFiniteSet(R(a))
    BY <1>2
  <2> HIDE DEF R
  <2> QED
    BY <2>1, FS_EmptySet
<1> QED
  BY <1>2, <1>3, <1>4

(* What anchor_at_offset names: an end of the text, or the visible fragment *)
(* to the left or to the right of the offset.                               *)
Names(F, o, bias, anchor) ==
    \/ anchor.kind = "min" /\ o = 0 /\ bias = "left"
    \/ anchor.kind = "max" /\ o = Cardinality(VisibleAt(F)) /\ bias = "right"
    \/ /\ anchor.kind = "char" /\ anchor.bias = bias
       /\ \E i \in VisibleAt(F) :
             /\ anchor.char = Char(F[i])
             /\ Cardinality({j \in VisibleAt(F) : j <= i}) = IF bias = "left" THEN o ELSE o + 1

LEMMA AnchorNames ==
    ASSUME NEW b, b.frags \in Seq(Fragments), NEW o \in 0 .. Cardinality(VisibleAt(b.frags)),
           NEW bias \in {"left", "right"}
    PROVE  Names(b.frags, o, bias, AnchorAtOffset(b, o, bias))
<1> DEFINE F == b.frags
           S == VisibleAt(F)
           m == Cardinality(S)
           N == Len(F)
           anchor == AnchorAtOffset(b, o, bias)
<1>1. N \in Nat /\ S \in SUBSET (1 .. N)
  BY VisibleFinite
<1>2. m \in Nat
  BY VisibleFinite
<1>3. ASSUME NEW n \in 1 .. m
      PROVE  Nth(S, n) \in S /\ Cardinality({j \in S : j <= Nth(S, n)}) = n
  <2> HIDE DEF S, N
  <2> QED
    BY <1>1, NthExists
<1>4. CASE bias = "left" /\ o = 0
  <2>1. anchor.kind = "min"
    BY <1>4 DEF AnchorAtOffset
  <2> QED
    BY <1>4, <2>1 DEF Names
<1>5. CASE bias = "left" /\ o # 0
  <2>1. anchor = [kind |-> "char", bias |-> bias, char |-> Char(F[Nth(S, o)])]
    BY <1>5 DEF AnchorAtOffset
  <2>2. o \in 1 .. m
    BY <1>2, <1>5
  <2>3. Nth(S, o) \in S /\ Cardinality({j \in S : j <= Nth(S, o)}) = o
    BY <1>3, <2>2
  <2>4. anchor.kind = "char" /\ anchor.bias = bias /\ anchor.char = Char(F[Nth(S, o)])
    BY <2>1
  <2> HIDE DEF anchor
  <2> QED
    BY <1>5, <2>3, <2>4 DEF Names, anchor
<1>6. CASE bias = "right" /\ o = m
  <2>1. anchor.kind = "max"
    BY <1>6 DEF AnchorAtOffset
  <2> QED
    BY <1>6, <2>1 DEF Names
<1>7. CASE bias = "right" /\ o # m
  <2>1. anchor = [kind |-> "char", bias |-> bias, char |-> Char(F[Nth(S, o + 1)])]
    BY <1>7 DEF AnchorAtOffset
  <2>2. o + 1 \in 1 .. m
    BY <1>2, <1>7
  <2>3. Nth(S, o + 1) \in S /\ Cardinality({j \in S : j <= Nth(S, o + 1)}) = o + 1
    BY <1>3, <2>2
  <2>4. anchor.kind = "char" /\ anchor.bias = bias /\ anchor.char = Char(F[Nth(S, o + 1)])
    BY <2>1
  <2> HIDE DEF anchor
  <2> QED
    BY <1>7, <2>3, <2>4 DEF Names, anchor
<1> QED
  BY <1>4, <1>5, <1>6, <1>7

(* Where offset_for_anchor finds it.                                        *)
LEMMA AnchorFound ==
    ASSUME NEW c, c.frags \in Seq(Fragments), NEW anchor,
           \A i, j \in DOMAIN c.frags : Char(c.frags[i]) = Char(c.frags[j]) => i = j
    PROVE  /\ anchor.kind = "min" => OffsetForAnchor(c, anchor) = 0
           /\ anchor.kind = "max" => OffsetForAnchor(c, anchor) = Cardinality(VisibleAt(c.frags))
           /\ \A i \in DOMAIN c.frags :
                 anchor.kind = "char" /\ anchor.char = Char(c.frags[i]) =>
                    OffsetForAnchor(c, anchor) = VisibleBefore(c.frags, i)
                       + (IF c.frags[i].visible /\ anchor.bias = "left" THEN 1 ELSE 0)
<1>1. anchor.kind = "min" => OffsetForAnchor(c, anchor) = 0
  BY DEF OffsetForAnchor
<1>2. anchor.kind = "max" => OffsetForAnchor(c, anchor) = Cardinality(VisibleAt(c.frags))
  BY DEF OffsetForAnchor
<1>3. ASSUME NEW i \in DOMAIN c.frags, anchor.kind = "char", anchor.char = Char(c.frags[i])
      PROVE  OffsetForAnchor(c, anchor) = VisibleBefore(c.frags, i)
                       + (IF c.frags[i].visible /\ anchor.bias = "left" THEN 1 ELSE 0)
  <2>1. FragmentOf(c, anchor) = i
    BY <1>3 DEF FragmentOf
  <2> QED
    BY <1>3, <2>1 DEF OffsetForAnchor
<1> QED
  BY <1>1, <1>2, <1>3

(* Two anchors made at F, the first one earlier, and found in G.            *)
LEMMA AnchorsOrdered ==
    ASSUME NEW F \in Seq(Fragments), NEW c, c.frags \in Seq(Fragments), Agree(F, c.frags),
           \A i, j \in DOMAIN c.frags : Char(c.frags[i]) = Char(c.frags[j]) => i = j,
           NEW o \in 0 .. Cardinality(VisibleAt(F)), NEW n \in {"left", "right"},
           NEW p \in 0 .. Cardinality(VisibleAt(F)), NEW m \in {"left", "right"},
           NEW A, Names(F, o, n, A), NEW B, Names(F, p, m, B),
           A.kind = "char" => \E i \in DOMAIN c.frags : A.char = Char(c.frags[i]),
           B.kind = "char" => \E i \in DOMAIN c.frags : B.char = Char(c.frags[i]),
           o < p \/ (o = p /\ n = "left")
    PROVE  OffsetForAnchor(c, A) <= OffsetForAnchor(c, B)
<1> DEFINE G == c.frags
           S == VisibleAt(F)
           M == Cardinality(VisibleAt(G))
<1>1. Len(F) \in Nat /\ DOMAIN F = 1 .. Len(F) /\ S \in SUBSET (1 .. Len(F))
  BY VisibleFinite
<1>2. Cardinality(S) \in Nat
  BY VisibleFinite
<1>3. M \in Nat
  BY VisibleFinite
<1>4. A.kind \in {"min", "max", "char"} /\ B.kind \in {"min", "max", "char"}
  BY DEF Names
<1>5. ASSUME NEW i \in DOMAIN G, NEW X, X.kind = "char", X.char = Char(G[i])
      PROVE  /\ OffsetForAnchor(c, X) = VisibleBefore(G, i)
                  + (IF G[i].visible /\ X.bias = "left" THEN 1 ELSE 0)
             /\ OffsetForAnchor(c, X) \in Nat /\ OffsetForAnchor(c, X) <= M
  <2>1. OffsetForAnchor(c, X) = VisibleBefore(G, i)
                  + (IF G[i].visible /\ X.bias = "left" THEN 1 ELSE 0)
    BY <1>5, AnchorFound
  <2>2. VisibleBefore(G, i) \in Nat /\ VisibleBefore(G, i) + (IF G[i].visible THEN 1 ELSE 0) <= M
    BY Widths
  <2> QED
    BY <1>3, <2>1, <2>2
<1>6. CASE A.kind = "min"
  <2>1. OffsetForAnchor(c, A) = 0
    BY <1>6, AnchorFound
  <2>2. OffsetForAnchor(c, B) \in Nat
    <3>1. CASE B.kind = "min"
      BY <3>1, AnchorFound
    <3>2. CASE B.kind = "max"
      BY <1>3, <3>2, AnchorFound
    <3>3. CASE B.kind = "char"
      BY <1>5, <3>3
    <3> QED
      BY <1>4, <3>1, <3>2, <3>3
  <2> QED
    BY <2>1, <2>2
<1>7. CASE B.kind = "max"
  <2>1. OffsetForAnchor(c, B) = M
    BY <1>7, AnchorFound
  <2>2. OffsetForAnchor(c, A) <= M
    <3>1. CASE A.kind = "min"
      BY <1>3, <3>1, AnchorFound
    <3>2. CASE A.kind = "max"
      BY <1>3, <3>2, AnchorFound
    <3>3. CASE A.kind = "char"
      BY <1>5, <3>3
    <3> QED
      BY <1>4, <3>1, <3>2, <3>3
  <2> QED
    BY <2>1, <2>2
<1>8. A.kind # "max"
  BY <1>2 DEF Names
<1>9. ASSUME B.kind = "min" PROVE A.kind = "min"
  <2>1. o = 0 /\ n = "left"
    BY <1>2, <1>9 DEF Names
  <2>2. \A a \in S : Cardinality({j \in S : j <= a}) # 0
    <3> HIDE DEF S
    <3> QED
      BY <1>1, RanksOrder
  <2> QED
    BY <2>1, <2>2 DEF Names
<1>10. CASE A.kind = "char" /\ B.kind = "char"
  <2>1. PICK a \in S : /\ A.char = Char(F[a])
                       /\ Cardinality({j \in S : j <= a}) = IF n = "left" THEN o ELSE o + 1
    BY <1>10 DEF Names
  <2>2. PICK b \in S : /\ B.char = Char(F[b])
                       /\ Cardinality({j \in S : j <= b}) = IF m = "left" THEN p ELSE p + 1
    BY <1>10 DEF Names
  <2>3. A.bias = n /\ B.bias = m
    BY <1>10 DEF Names
  <2>4. PICK i \in DOMAIN G : A.char = Char(G[i])
    BY <1>10
  <2>5. PICK k \in DOMAIN G : B.char = Char(G[k])
    BY <1>10
  <2>6. ~ (b < a)
    <3>1. b < a => Cardinality({j \in S : j <= b}) < Cardinality({j \in S : j <= a})
      <4> DEFINE N == Len(F)
      <4>1. N \in Nat /\ S \in SUBSET (1 .. N)
        BY <1>1
      <4> HIDE DEF S, N
      <4> QED
        BY <4>1, RanksOrder, Zenon
    <3>2. o \in Nat /\ p \in Nat
      BY <1>2
    <3> QED
      BY <2>1, <2>2, <3>1, <3>2
  <2>7. a \in DOMAIN F /\ b \in DOMAIN F /\ a \in Nat /\ b \in Nat
    BY <1>1
  <2>8. /\ OffsetForAnchor(c, A) = VisibleBefore(G, i) + (IF G[i].visible /\ n = "left" THEN 1 ELSE 0)
        /\ OffsetForAnchor(c, B) = VisibleBefore(G, k) + (IF G[k].visible /\ m = "left" THEN 1 ELSE 0)
    BY <1>5, <1>10, <2>3, <2>4, <2>5
  <2>9. VisibleBefore(G, i) \in Nat /\ VisibleBefore(G, k) \in Nat
    BY Widths
  <2>10. CASE a < b
    <3>1. i < k
      BY <2>1, <2>2, <2>4, <2>5, <2>7, <2>10 DEF Agree
    <3>2. VisibleBefore(G, i) + (IF G[i].visible THEN 1 ELSE 0) <= VisibleBefore(G, k)
      BY <3>1, Widths
    <3> QED
      BY <2>8, <2>9, <3>2
  <2>11. CASE a = b
    <3>1. i = k
      BY <2>1, <2>2, <2>4, <2>5, <2>11
    <3>2. m = "left"
      <4>1. (IF n = "left" THEN o ELSE o + 1) = (IF m = "left" THEN p ELSE p + 1)
        BY <2>1, <2>2, <2>11
      <4>2. o \in Nat /\ p \in Nat
        BY <1>2
      <4> QED
        BY <4>1, <4>2
    <3> QED
      BY <2>8, <2>9, <3>1, <3>2
  <2> QED
    BY <2>6, <2>7, <2>10, <2>11
<1> QED
  BY <1>4, <1>6, <1>7, <1>8, <1>9, <1>10

(* Of two anchors made at one replica the earlier one resolves, on whatever *)
(* replica, to an offset that is not after the later one's                  *)
(* (anchor_at_offset, offset_for_anchor).                                   *)
THEOREM AnchorsHold == Spec => []AnchorsNeverCross
<1>1. TextInv => AnchorsNeverCross
  <2> SUFFICES ASSUME TextInv, NEW r \in Replicas, NEW q \in Replicas,
                      NEW p \in (0 .. Cardinality(VisibleAt(buf[r].frags))) \X {"left", "right"},
                      NEW s \in (0 .. Cardinality(VisibleAt(buf[r].frags))) \X {"left", "right"},
                      CanResolve(buf[q], AnchorAtOffset(buf[r], p[1], p[2])),
                      CanResolve(buf[q], AnchorAtOffset(buf[r], s[1], s[2])),
                      p[1] < s[1] \/ (p[1] = s[1] /\ p[2] = "left")
               PROVE  OffsetForAnchor(buf[q], AnchorAtOffset(buf[r], p[1], p[2]))
                        <= OffsetForAnchor(buf[q], AnchorAtOffset(buf[r], s[1], s[2]))
    BY DEF AnchorsNeverCross
  <2> DEFINE F == buf[r].frags
             c == buf[q]
             A == AnchorAtOffset(buf[r], p[1], p[2])
             B == AnchorAtOffset(buf[r], s[1], s[2])
  <2>1. /\ WorldOK(World) /\ Sound(World, c.version) /\ View(World, c.frags, c.version)
        /\ View(World, F, buf[r].version) /\ F \in Seq(Fragments) /\ c.frags \in Seq(Fragments)
        /\ Agree(F, c.frags)
    BY ReplicaHas
  <2>2. Names(F, p[1], p[2], A) /\ Names(F, s[1], s[2], B)
    BY <2>1, AnchorNames
  <2>3. ASSUME NEW X, NEW o, NEW bias, Names(F, o, bias, X), CanResolve(c, X), X.kind = "char"
        PROVE  \E i \in DOMAIN c.frags : X.char = Char(c.frags[i])
    <3>1. PICK i \in DOMAIN F : X.char = Char(F[i])
      BY <2>3 DEF Names, VisibleAt
    <3>2. Char(F[i]) \in CharsOf(World, buf[r].version) /\ Observed(c.version, X.char[1])
      BY <2>1, <2>3 DEF View, Kept, CanResolve
    <3>3. X.char \in CharsOf(World, c.version)
      BY <2>1, <3>1, <3>2, CharObserved
    <3> QED
      BY <2>1, <3>3 DEF View
  <2>4. \A i, j \in DOMAIN c.frags : Char(c.frags[i]) = Char(c.frags[j]) => i = j
    BY <2>1 DEF View
  <2>5. /\ p[1] \in 0 .. Cardinality(VisibleAt(F)) /\ s[1] \in 0 .. Cardinality(VisibleAt(F))
        /\ p[2] \in {"left", "right"} /\ s[2] \in {"left", "right"}
    OBVIOUS
  <2>6. CanResolve(c, A) /\ CanResolve(c, B)
    OBVIOUS
  <2> HIDE DEF A, B, F, c
  <2>7. /\ A.kind = "char" => \E i \in DOMAIN c.frags : A.char = Char(c.frags[i])
        /\ B.kind = "char" => \E i \in DOMAIN c.frags : B.char = Char(c.frags[i])
    BY <2>2, <2>3, <2>6
  <2>8. OffsetForAnchor(c, A) <= OffsetForAnchor(c, B)
    BY <2>1, <2>2, <2>4, <2>5, <2>7, AnchorsOrdered
  <2> QED
    BY <2>8 DEF A, B, F, c
<1> QED
  BY <1>1, TextInvariant, PTL

-----------------------------------------------------------------------------
(* The text of an earlier version.                                          *)

(* S in F and T in W hold the same characters.                              *)
Match(F, S, W, T) ==
    /\ S \subseteq DOMAIN F /\ T \subseteq DOMAIN W
    /\ \A i, j \in DOMAIN F : Char(F[i]) = Char(F[j]) => i = j
    /\ \A i, j \in DOMAIN W : Char(W[i]) = Char(W[j]) => i = j
    /\ \A i \in S : \E m \in T : Char(F[i]) = Char(W[m])
    /\ \A m \in T : \E i \in S : Char(F[i]) = Char(W[m])

LEMMA MatchCounts ==
    ASSUME NEW F, NEW S, NEW W, NEW T, Match(F, S, W, T), IsFiniteSet(T)
    PROVE  Cardinality(S) = Cardinality(T)
<1> DEFINE f == [m \in T |-> CHOOSE i \in S : Char(F[i]) = Char(W[m])]
<1>1. ASSUME NEW m \in T PROVE f[m] \in S /\ Char(F[f[m]]) = Char(W[m])
  <2>1. \E i \in S : Char(F[i]) = Char(W[m])
    BY DEF Match
  <2> QED
    BY <2>1
<1>2. f \in [T -> S]
  BY <1>1
<1>3. ASSUME NEW m \in T, NEW n \in T, f[m] = f[n] PROVE m = n
  <2>1. Char(W[m]) = Char(W[n])
    BY <1>1, <1>3
  <2> QED
    BY <2>1 DEF Match
<1>4. ASSUME NEW i \in S PROVE \E m \in T : f[m] = i
  <2>1. PICK m \in T : Char(F[i]) = Char(W[m])
    BY DEF Match
  <2>2. Char(F[f[m]]) = Char(F[i]) /\ f[m] \in S
    BY <1>1, <2>1
  <2>3. f[m] = i
    BY <2>2 DEF Match
  <2> QED
    BY <2>3
<1> HIDE DEF f
<1>5. f \in Bijection(T, S)
  <2>1. f \in Injection(T, S)
    BY <1>2, <1>3 DEF Injection, IsInjective
  <2>2. f \in Surjection(T, S)
    BY <1>2, <1>4 DEF Surjection
  <2> QED
    BY <2>1, <2>2 DEF Bijection
<1> QED
  BY <1>5, FS_Bijection DEF ExistsBijection

LEMMA MatchReads ==
    ASSUME NEW F \in Seq(Fragments), NEW S, NEW W \in Seq(Fragments), NEW T,
           Match(F, S, W, T), Agree(F, W)
    PROVE  CharsAt(F, S) = CharsAt(W, T)
<1> DEFINE N == Len(F)
           M == Len(W)
           below(i) == {j \in S : j <= i}
           under(m) == {j \in T : j <= m}
<1>1. N \in Nat /\ DOMAIN F = 1 .. N /\ M \in Nat /\ DOMAIN W = 1 .. M
  BY SeqParts
<1>2. S \in SUBSET (1 .. N) /\ T \in SUBSET (1 .. M)
  BY <1>1 DEF Match
<1> HIDE DEF N, M
<1>3. IsFiniteSet(T)
  <2>1. IsFiniteSet(1 .. M)
    BY <1>1, FS_Interval
  <2> QED
    BY <1>2, <2>1, FS_Subset
<1>4. Cardinality(S) = Cardinality(T)
  BY <1>3, MatchCounts
<1>5. ASSUME NEW i \in S, NEW m \in T, Char(F[i]) = Char(W[m])
      PROVE  Cardinality(below(i)) = Cardinality(under(m))
  <2>1. ASSUME NEW j \in S, NEW k \in T, Char(F[j]) = Char(W[k]) PROVE j <= i <=> k <= m
    <3>1. i < j <=> m < k
      BY <1>1, <1>2, <1>5, <2>1 DEF Agree
    <3>2. i \in Nat /\ j \in Nat /\ m \in Nat /\ k \in Nat
      BY <1>1, <1>2
    <3> QED
      BY <3>1, <3>2
  <2>2. ASSUME NEW j \in below(i) PROVE \E k \in under(m) : Char(F[j]) = Char(W[k])
    <3>1. PICK k \in T : Char(F[j]) = Char(W[k])
      BY DEF Match
    <3> QED
      BY <2>1, <3>1
  <2>3. ASSUME NEW k \in under(m) PROVE \E j \in below(i) : Char(F[j]) = Char(W[k])
    <3>1. PICK j \in S : Char(F[j]) = Char(W[k])
      BY DEF Match
    <3> QED
      BY <2>1, <3>1
  <2>4. Match(F, below(i), W, under(m))
    <3>1. below(i) \subseteq DOMAIN F /\ under(m) \subseteq DOMAIN W
      BY <1>1, <1>2
    <3> HIDE DEF below, under
    <3> QED
      BY <2>2, <2>3, <3>1 DEF Match
  <2>5. IsFiniteSet(under(m))
    <3>1. under(m) \in SUBSET T
      OBVIOUS
    <3> HIDE DEF under
    <3> QED
      BY <1>3, <3>1, FS_Subset
  <2> HIDE DEF below, under
  <2> QED
    BY <2>4, <2>5, MatchCounts
<1>6. ASSUME NEW n \in 1 .. Cardinality(T)
      PROVE  Char(F[Nth(S, n)]) = Char(W[Nth(T, n)])
  <2> DEFINE m == Nth(T, n)
  <2>1. m \in T /\ Cardinality(under(m)) = n
    BY <1>1, <1>2, NthExists
  <2>2. PICK i \in S : Char(F[i]) = Char(W[m])
    BY <2>1 DEF Match
  <2>3. Cardinality(below(i)) = n
    <3> HIDE DEF m, below, under
    <3> QED
      BY <1>5, <2>1, <2>2
  <2>4. Nth(S, n) = i
    <3>1. Nth(S, Cardinality(below(i))) = i
      BY <1>1, <1>2, NthIs
    <3> QED
      BY <2>3, <3>1
  <2> QED
    BY <2>2, <2>4
<1> HIDE DEF below, under
<1> QED
  BY <1>4, <1>6 DEF CharsAt

(* A fragment that nothing newer than V has touched was visible at V        *)
(* exactly when it is visible now.                                          *)
LEMMA UntouchedIsSame ==
    ASSUME NEW w, WorldOK(w), NEW v, NEW V \in Versions, NEW f \in Fragments, Kept(w, v, f),
           ~ TouchedSince(f, V)
    PROVE  WasVisible(f, V, EntriesOf(w, v)) <=> f.visible
<1> DEFINE E == EntriesOf(w, v)
           c == Char(f)
<1>1. /\ Observed(V, f.ts) /\ \A d \in f.dels : Observed(V, d)
      /\ ObservedAll(V, f.maxUndos)
  BY DEF TouchedSince
<1>2. f.maxUndos \in Versions
  BY DEF Fragments
<1>3. c[1] = f.ts
  BY CharIs
<1>4. f.dels = {t \in Stamps(Covered(w, v)) : c \in w.erased[t]}
  BY DEF Kept
<1>5. ASSUME NEW e, e = f.ts \/ e \in f.dels
      PROVE  WasUndone(E, e, V) <=> IsUndone(E, e)
  <2>1. ASSUME NEW u \in E, u.edit = e PROVE Observed(V, u.undo)
    <3>1. PICK p \in Covered(w, v) : \E d \in DOMAIN p.counts :
             p.kind = "undo" /\ u = [edit |-> d, undo |-> p.ts, count |-> p.counts[d]]
      BY EntriesAre
    <3>2. p.kind = "undo" /\ e \in DOMAIN p.counts /\ u.undo = p.ts
      BY <2>1, <3>1
    <3>3. Touches(w, p, c)
      BY <1>3, <1>4, <1>5, <3>2 DEF Touches
    <3> DEFINE q == p.ts[2]
    <3>4. q \in Replicas /\ p.ts[1] \in Nat
      BY <3>1, OpTyped DEF Covered
    <3>5. LastTouch(w, v, c, q, f.maxUndos[q])
      BY <3>4 DEF Kept
    <3>6. p.ts[1] <= f.maxUndos[q]
      BY <3>1, <3>3, <3>5 DEF LastTouch
    <3>7. V[q] >= f.maxUndos[q] /\ V[q] \in Nat /\ f.maxUndos[q] \in Nat
      BY <1>1, <1>2, <3>4 DEF ObservedAll, Versions
    <3> QED
      BY <3>2, <3>4, <3>6, <3>7 DEF Observed
  <2>2. {u \in E : u.edit = e /\ Observed(V, u.undo)} = {u \in E : u.edit = e}
    BY <2>1
  <2> QED
    BY <2>2 DEF WasUndone, IsUndone, UndoCount
<1>6. f.visible <=> IsVisible(f, E)
  BY DEF Kept
<1> QED
  BY <1>1, <1>5, <1>6 DEF WasVisible, IsVisible

ShownAt(F, V, undos) ==
    {i \in DOMAIN F : IF TouchedSince(F[i], V) THEN WasVisible(F[i], V, undos) ELSE F[i].visible}

LEMMA ShownMatches ==
    ASSUME NEW w, WorldOK(w), NEW F, NEW v, View(w, F, v), Sound(w, v),
           NEW W, NEW V, View(w, W, V), Sound(w, V), ObservedAll(v, V)
    PROVE  Match(F, ShownAt(F, V, EntriesOf(w, v)), W, VisibleAt(W))
<1> DEFINE E == EntriesOf(w, v)
           S == ShownAt(F, V, E)
           T == VisibleAt(W)
<1>1. V \in Versions /\ v \in Versions /\ F \in Seq(Fragments)
  BY DEF Sound, View
<1>2. \A i \in DOMAIN F : F[i] \in Fragments /\ Kept(w, v, F[i])
  BY <1>1, SeqParts DEF View
<1>3. ASSUME NEW i \in DOMAIN F PROVE i \in S <=> WasVisible(F[i], V, E)
  <2>1. CASE TouchedSince(F[i], V)
    BY <2>1 DEF ShownAt
  <2>2. CASE ~ TouchedSince(F[i], V)
    <3>1. WasVisible(F[i], V, E) <=> F[i].visible
      BY <1>1, <1>2, <2>2, UntouchedIsSame
    <3>2. i \in S <=> F[i].visible
      BY <2>2 DEF ShownAt
    <3> QED
      BY <3>1, <3>2
  <2> QED
    BY <2>1, <2>2
<1>4. ASSUME NEW i \in DOMAIN F, NEW m \in DOMAIN W, Char(F[i]) = Char(W[m])
      PROVE  i \in S <=> m \in T
  <2>1. Kept(w, V, W[m])
    BY DEF View
  <2>2. WasVisible(F[i], V, E) <=> W[m].visible
    BY <1>1, <1>2, <1>4, <2>1, WasVisibleIs
  <2>3. m \in T <=> W[m].visible
    BY DEF VisibleAt
  <2> QED
    BY <1>3, <2>2, <2>3
<1>5. ASSUME NEW i \in S PROVE \E m \in T : Char(F[i]) = Char(W[m])
  <2>1. i \in DOMAIN F
    BY DEF ShownAt
  <2>2. Observed(V, F[i].ts)
    BY <1>3, <2>1 DEF WasVisible
  <2>3. PICK m \in DOMAIN W : Char(F[i]) = Char(W[m])
    BY <2>1, <2>2, Matching
  <2> QED
    BY <1>4, <2>1, <2>3
<1>6. ASSUME NEW m \in T PROVE \E i \in S : Char(F[i]) = Char(W[m])
  <2>1. m \in DOMAIN W
    BY DEF VisibleAt
  <2>2. PICK i \in DOMAIN F : Char(F[i]) = Char(W[m])
    BY <2>1, Matching
  <2> QED
    BY <1>4, <2>1, <2>2
<1>7. S \subseteq DOMAIN F /\ T \subseteq DOMAIN W
  BY DEF ShownAt, VisibleAt
<1> HIDE DEF S, T
<1>8. Match(F, S, W, T)
  BY <1>5, <1>6, <1>7 DEF Match, View
<1> QED
  BY <1>8 DEF S, T

(* Every replica that has reached the version of an operation can say what  *)
(* text its author had before it (rope_for_version): the summaries miss     *)
(* nothing that was inserted, deleted or undone since.                      *)
THEOREM OldTextHolds == Spec => []OldTextIsExact
<1>1. TextInv => OldTextIsExact
  <2> SUFFICES ASSUME TextInv, NEW r \in Replicas, NEW op \in ops,
                      ObservedAll(buf[r].version, op.version)
               PROVE  RopeForVersion(buf[r], op.version) = Text(seen[op.ts])
    BY DEF OldTextIsExact, Known
  <2> DEFINE F == buf[r].frags
             v == buf[r].version
             V == op.version
             W == seen[op.ts]
             S == ShownAt(F, V, EntriesOf(World, v))
  <2>1. /\ WorldOK(World) /\ Sound(World, v) /\ View(World, F, v)
        /\ BufferOK(World, buf[r])
    BY ReplicaHas
  <2>2. buf[r].undos = EntriesOf(World, v) /\ Agree(F, W)
    BY <2>1, WorldIs DEF BufferOK
  <2>3. View(World, W, V) /\ Sound(World, V)
    BY <2>1, WorldIs DEF WorldOK, OpOK
  <2>4. F \in Seq(Fragments) /\ W \in Seq(Fragments)
    BY <2>1, <2>3 DEF View
  <2>5. Match(F, S, W, VisibleAt(W))
    BY <2>1, <2>3, ShownMatches
  <2>6. RopeForVersion(buf[r], V) = CharsAt(F, S)
    BY <2>2 DEF RopeForVersion, ShownAt
  <2> HIDE DEF F, W, S, V, v
  <2>7. CharsAt(F, S) = CharsAt(W, VisibleAt(W))
    BY <2>2, <2>4, <2>5, MatchReads
  <2> QED
    BY <2>6, <2>7 DEF Text, W, V
<1> QED
  BY <1>1, TextInvariant, PTL

(* The characters of a text are those at the places it was read from.       *)
LEMMA CharsReadAre ==
    ASSUME NEW F \in Seq(Fragments), NEW S \in SUBSET DOMAIN F
    PROVE  \A c : (\E n \in DOMAIN CharsAt(F, S) : CharsAt(F, S)[n] = c) <=> \E i \in S : Char(F[i]) = c
<1> DEFINE N == Len(F)
           m == Cardinality(S)
<1>1. N \in Nat /\ S \in SUBSET (1 .. N)
  BY SeqParts
<1> HIDE DEF N
<1>2. IsFiniteSet(S) /\ m \in Nat
  <2>1. IsFiniteSet(1 .. N)
    BY <1>1, FS_Interval
  <2> QED
    BY <1>1, <2>1, FS_Subset, FS_CardinalityType
<1>3. DOMAIN CharsAt(F, S) = 1 .. m /\ \A n \in 1 .. m : CharsAt(F, S)[n] = Char(F[Nth(S, n)])
  BY DEF CharsAt
<1>4. ASSUME NEW n \in 1 .. m PROVE Nth(S, n) \in S
  BY <1>1, NthExists
<1>5. ASSUME NEW i \in S PROVE \E n \in 1 .. m : Nth(S, n) = i
  <2> DEFINE R == {j \in S : j <= i}
             n == Cardinality(R)
  <2>1. Nth(S, n) = i
    BY <1>1, NthIs
  <2>2. R \in SUBSET S /\ i \in R
    BY <1>1
  <2> HIDE DEF R
  <2>3. n \in Nat /\ n <= m /\ n # 0
    BY <1>2, <2>2, FS_Subset, FS_CardinalityType, FS_EmptySet
  <2>4. n \in 1 .. m
    BY <1>2, <2>3
  <2> QED
    BY <2>1, <2>4 DEF R
<1> QED
  BY <1>3, <1>4, <1>5

(* A buffer counts as unchanged since the version of an operation exactly   *)
(* when it shows the characters that its author saw (has_edits_since).      *)
THEOREM DirtyHolds == Spec => []DirtyIsExact
<1>1. TextInv => DirtyIsExact
  <2> SUFFICES ASSUME TextInv, NEW r \in Replicas, NEW op \in ops,
                      ObservedAll(buf[r].version, op.version)
               PROVE  HasEditsSince(buf[r], op.version) <=> Text(buf[r].frags) # Text(seen[op.ts])
    BY DEF DirtyIsExact, Known
  <2> DEFINE b == buf[r]
             F == b.frags
             v == b.version
             V == op.version
             W == seen[op.ts]
             E == EntriesOf(World, v)
             S == ShownAt(F, V, E)
             T == VisibleAt(F)
  <2>1. WorldOK(World) /\ Sound(World, v) /\ View(World, F, v) /\ BufferOK(World, b)
    BY ReplicaHas
  <2>2. b.undos = E /\ Agree(F, W)
    BY <2>1, WorldIs DEF BufferOK
  <2>3. View(World, W, V) /\ Sound(World, V)
    BY <2>1, WorldIs DEF WorldOK, OpOK
  <2>4. /\ F \in Seq(Fragments) /\ W \in Seq(Fragments) /\ V \in Versions /\ v \in Versions
        /\ \A i \in DOMAIN F : F[i] \in Fragments /\ Kept(World, v, F[i])
        /\ \A i, j \in DOMAIN F : Char(F[i]) = Char(F[j]) => i = j
    BY <2>1, <2>3, SeqParts DEF View, Sound
  <2>5. Text(W) = CharsAt(F, S) /\ Text(F) = CharsAt(F, T)
    <3>1. Match(F, S, W, VisibleAt(W))
      BY <2>1, <2>3, ShownMatches
    <3> HIDE DEF F, S, W
    <3>2. CharsAt(F, S) = CharsAt(W, VisibleAt(W))
      BY <2>2, <2>4, <3>1, MatchReads
    <3> QED
      BY <3>2 DEF Text
  <2>6. S \in SUBSET DOMAIN F /\ T \in SUBSET DOMAIN F
    BY DEF ShownAt, VisibleAt
  <2>7. ASSUME NEW i \in DOMAIN F
        PROVE  /\ i \in T <=> F[i].visible
               /\ TouchedSince(F[i], V) => (i \in S <=> WasVisible(F[i], V, E))
               /\ ~ TouchedSince(F[i], V) => (i \in S <=> F[i].visible)
               /\ V = v => (WasVisible(F[i], V, E) <=> F[i].visible)
    <3>1. V = v => (WasVisible(F[i], V, E) <=> F[i].visible)
      BY <2>1, <2>4, WasVisibleIs
    <3> QED
      BY <3>1 DEF ShownAt, VisibleAt
  <2>8. HasEditsSince(b, V) <=>
           V # v /\ \E i \in DOMAIN F : TouchedSince(F[i], V) /\ ~ (WasVisible(F[i], V, E) <=> F[i].visible)
    <3>1. \A i \in DOMAIN F : /\ WasVisible(F[i], V, E) \in BOOLEAN
                              /\ F[i].visible \in BOOLEAN
      BY <2>4 DEF Fragments, WasVisible
    <3> QED
      BY <2>2, <3>1, Zenon DEF HasEditsSince, ToSet
  <2> HIDE DEF F, S, T, E, V, v, W, b
  <2>9. HasEditsSince(b, V) <=> S # T
    <3>1. ASSUME HasEditsSince(b, V) PROVE S # T
      BY <2>7, <2>8, <3>1
    <3>2. ASSUME S # T PROVE HasEditsSince(b, V)
      <4>1. PICK i \in DOMAIN F : ~ (i \in S <=> i \in T)
        BY <2>6, <3>2
      <4> QED
        BY <2>7, <2>8, <4>1
    <3> QED
      BY <3>1, <3>2
  <2>10. S = T <=> CharsAt(F, S) = CharsAt(F, T)
    <3>1. ASSUME CharsAt(F, S) = CharsAt(F, T) PROVE S = T
      <4>1. F \in Seq(Fragments)
        BY <2>4
      <4>2. /\ \A c : (\E n \in DOMAIN CharsAt(F, S) : CharsAt(F, S)[n] = c) <=> \E i \in S : Char(F[i]) = c
            /\ \A c : (\E n \in DOMAIN CharsAt(F, T) : CharsAt(F, T)[n] = c) <=> \E i \in T : Char(F[i]) = c
        BY <2>6, <4>1, CharsReadAre, Zenon
      <4>3. \A c : (\E i \in S : Char(F[i]) = c) <=> (\E i \in T : Char(F[i]) = c)
        BY <3>1, <4>2, Zenon
      <4>4. ASSUME NEW i \in S PROVE i \in T
        <5>1. PICK j \in T : Char(F[j]) = Char(F[i])
          BY <4>3, Zenon
        <5> QED
          BY <2>4, <2>6, <5>1
      <4>5. ASSUME NEW i \in T PROVE i \in S
        <5>1. PICK j \in S : Char(F[j]) = Char(F[i])
          BY <4>3, Zenon
        <5> QED
          BY <2>4, <2>6, <5>1
      <4> QED
        BY <4>4, <4>5
    <3> QED
      BY <3>1
  <2> QED
    BY <2>5, <2>9, <2>10 DEF F, W, V, b
<1> QED
  BY <1>1, TextInvariant, PTL

=============================================================================
