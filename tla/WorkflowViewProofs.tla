------------------------- MODULE WorkflowViewProofs -------------------------
(***************************************************************************)
(* The properties of WorkflowView, for all workflows, files and bounds.    *)
(* First what job_order says of cycles, what the edits make of a workflow  *)
(* and what a step makes of a simulation; then the invariant, which is     *)
(* ViewInv (the workflow is sound, and the simulation a lawful one of it)  *)
(* and FileInv and UnseenInv (what the view knows of its files).           *)
(***************************************************************************)
EXTENDS WorkflowView, WorkflowSimulationProofs

-----------------------------------------------------------------------------
(* The job order *)

Known(w) == \A j \in DOMAIN w : w[j].needs \subseteq DOMAIN w

(* The ids of a workflow are finitely many numbers.                         *)
LEMMA FiniteJobs ==
    ASSUME NEW w, IsWorkflow(w)
    PROVE  DOMAIN w \subseteq Nat /\ IsFiniteSet(DOMAIN w)
<1>1. MaxJob \in Nat /\ DOMAIN w \subseteq 1 .. MaxJob
  BY BoundsAssumption DEF IsWorkflow
<1>2. IsFiniteSet(1 .. MaxJob)
  BY <1>1, FS_Interval
<1>3. IsFiniteSet(DOMAIN w)
  BY <1>1, <1>2, FS_Subset
<1> QED
  BY <1>1, <1>3

(* Jobs that can be put in an order are on no cycle: of a cycle's jobs none *)
(* could have been the first in the order.                                  *)
LEMMA OrderMeansNoCycle ==
    ASSUME NEW w, IsWorkflow(w), HasJobOrder(w)
    PROVE  ~Cyclic(w)
<1> DEFINE s == Sorted(w)
<1>1. DOMAIN w \subseteq Nat /\ IsFiniteSet(DOMAIN w)
  BY FiniteJobs
<1>2. Ordered(w, s) /\ Len(s) = Cardinality(DOMAIN w)
  BY <1>1, SortedIsOrdered DEF HasJobOrder
<1> HIDE DEF s
<1>3. s \in Seq(DOMAIN w) /\ Len(s) \in Nat /\ DOMAIN s = 1 .. Len(s)
  BY <1>2, LenProperties DEF Ordered
<1>4. ToSet(s) \subseteq DOMAIN w
  BY <1>3 DEF ToSet
<1>5. Cardinality(ToSet(s)) = Cardinality(DOMAIN w)
  BY <1>2 DEF Ordered
<1>6. ToSet(s) = DOMAIN w
  BY <1>1, <1>4, <1>5, FS_Subset
<1> SUFFICES ASSUME NEW S \in SUBSET DOMAIN w, S /= {}, \A j \in S : w[j].needs \intersect S /= {}
             PROVE  FALSE
  BY DEF Cyclic
<1> DEFINE I == {i \in 1 .. Len(s) : s[i] \in S}
<1>7. I \subseteq Nat /\ I /= {}
  BY <1>3, <1>6 DEF ToSet
<1>8. PICK i \in I : \A j \in I : i <= j
  <2> HIDE DEF I
  <2> QED
    BY <1>7, Least
<1>9. PICK n \in w[s[i]].needs : n \in S
  BY <1>8
<1>10. i \in 1 .. Len(s)
  BY <1>8
<1>11. PICK j \in 1 .. i - 1 : s[j] = n
  BY <1>2, <1>9, <1>10 DEF Ordered
<1>12. j \in I /\ j < i /\ j \in Nat /\ i \in Nat
  BY <1>3, <1>9, <1>10, <1>11
<1> QED
  BY <1>8, <1>12

(* And jobs that cannot have a cycle among those that were left over.       *)
LEMMA NoCycleMeansOrder ==
    ASSUME NEW w, IsWorkflow(w), Known(w), ~Cyclic(w)
    PROVE  HasJobOrder(w)
<1> DEFINE s == Sorted(w)
           S == DOMAIN w \ ToSet(s)
<1>1. DOMAIN w \subseteq Nat /\ IsFiniteSet(DOMAIN w)
  BY FiniteJobs
<1>2. Ordered(w, s) /\ (Len(s) = Cardinality(DOMAIN w) \/ Queue(w, s) = {})
  BY <1>1, SortedIsOrdered
<1> SUFFICES Len(s) = Cardinality(DOMAIN w)
  BY DEF HasJobOrder, Known
<1> SUFFICES ASSUME Queue(w, s) = {} PROVE Len(s) = Cardinality(DOMAIN w)
  BY <1>2
<1> HIDE DEF s
<1>3. s \in Seq(DOMAIN w) /\ DOMAIN s = 1 .. Len(s)
  BY <1>2, LenProperties DEF Ordered
<1>4. \A j \in S : w[j].needs \intersect S /= {}
  BY DEF Queue, Known
<1>5. S = {}
  BY <1>4 DEF Cyclic
<1>6. ToSet(s) = DOMAIN w
  <2>1. ToSet(s) \subseteq DOMAIN w
    BY <1>3 DEF ToSet
  <2> QED
    BY <1>5, <2>1
<1> QED
  BY <1>2, <1>6 DEF Ordered

-----------------------------------------------------------------------------
(* What the operations make of a workflow *)

Sound(w) == IsWorkflow(w) /\ Known(w) /\ ~Cyclic(w)

(* A text that parses, and the seed.                                        *)
LEMMA ValidIsSound ==
    ASSUME NEW w, IsWorkflow(w), HasJobOrder(w)
    PROVE  Sound(w)
  BY OrderMeansNoCycle DEF Sound, Known, HasJobOrder

(* add_job. *)
LEMMA AddedIsSound ==
    ASSUME NEW w, Sound(w), NEW j \in 1 .. MaxJob, j \notin DOMAIN w
    PROVE  LET v == [i \in DOMAIN w \union {j} |-> IF i = j THEN [needs |-> {}, legs |-> 1] ELSE w[i]]
           IN  Sound(v) /\ DOMAIN v = DOMAIN w \union {j}
<1> DEFINE v == [i \in DOMAIN w \union {j} |-> IF i = j THEN [needs |-> {}, legs |-> 1] ELSE w[i]]
<1>1. /\ DOMAIN v = DOMAIN w \union {j} /\ v[j] = [needs |-> {}, legs |-> 1]
      /\ \A i \in DOMAIN w : v[i] = w[i]
  OBVIOUS
<1>2. \A i \in DOMAIN w : w[i] \in [needs : SUBSET (1 .. MaxJob), legs : Nat]
  BY DEF Sound, IsWorkflow
<1>3. v \in [DOMAIN v -> [needs : SUBSET (1 .. MaxJob), legs : Nat]]
  BY <1>1, <1>2
<1> HIDE DEF v
<1>4. IsWorkflow(v)
  BY <1>1, <1>3 DEF Sound, IsWorkflow
<1>5. Known(v)
  BY <1>1 DEF Sound, Known
<1>6. ~Cyclic(v)
  <2> SUFFICES ASSUME NEW S \in SUBSET DOMAIN v, S /= {}, \A i \in S : v[i].needs \intersect S /= {}
               PROVE  FALSE
    BY DEF Cyclic
  <2>1. j \notin S
    BY <1>1
  <2>2. S \in SUBSET DOMAIN w /\ \A i \in S : w[i].needs \intersect S /= {}
    BY <1>1, <2>1
  <2> QED
    BY <2>2 DEF Sound, Cyclic
<1> QED
  BY <1>1, <1>4, <1>5, <1>6 DEF Sound, v

(* remove_selected_job. *)
LEMMA RemovedIsSound ==
    ASSUME NEW w, Sound(w), NEW j
    PROVE  Sound(WithoutJob(w, j))
<1> DEFINE v == WithoutJob(w, j)
<1>1. \A i \in DOMAIN w : w[i] \in [needs : SUBSET (1 .. MaxJob), legs : Nat]
  BY DEF Sound, IsWorkflow
<1>2. /\ DOMAIN v = DOMAIN w \ {j}
      /\ \A i \in DOMAIN v : v[i] = [w[i] EXCEPT !.needs = w[i].needs \ {j}]
  BY DEF WithoutJob
<1>3. \A i \in DOMAIN v : /\ v[i] \in [needs : SUBSET (1 .. MaxJob), legs : Nat]
                          /\ v[i].needs = w[i].needs \ {j}
  BY <1>1, <1>2
<1>4. v = [i \in DOMAIN v |-> v[i]]
  BY DEF WithoutJob
<1> HIDE DEF v
<1>5. IsWorkflow(v)
  BY <1>2, <1>3, <1>4 DEF Sound, IsWorkflow
<1>6. Known(v)
  BY <1>2, <1>3 DEF Sound, Known
<1>7. ~Cyclic(v)
  <2> SUFFICES ASSUME NEW S \in SUBSET DOMAIN v, S /= {}, \A i \in S : v[i].needs \intersect S /= {}
               PROVE  FALSE
    BY DEF Cyclic
  <2>1. S \in SUBSET DOMAIN w /\ \A i \in S : w[i].needs \intersect S /= {}
    BY <1>2, <1>3
  <2> QED
    BY <2>1 DEF Sound, Cyclic
<1> QED
  BY <1>5, <1>6, <1>7 DEF Sound, v

(* toggle_need, whether it is kept or not.                                  *)
LEMMA ToggledIsWorkflow ==
    ASSUME NEW w, IsWorkflow(w), Known(w), NEW j \in DOMAIN w, NEW n \in DOMAIN w
    PROVE  /\ IsWorkflow(Toggled(w, j, n)) /\ Known(Toggled(w, j, n))
           /\ DOMAIN Toggled(w, j, n) = DOMAIN w
<1> DEFINE v == Toggled(w, j, n)
           m == IF n \in w[j].needs THEN w[j].needs \ {n} ELSE w[j].needs \union {n}
<1>1. /\ w \in [DOMAIN w -> [needs : SUBSET (1 .. MaxJob), legs : Nat]]
      /\ DOMAIN w \subseteq 1 .. MaxJob
  BY DEF IsWorkflow
<1>2. v = [w EXCEPT ![j] = [w[j] EXCEPT !.needs = m]]
  BY DEF Toggled
<1>3. m \in SUBSET (1 .. MaxJob) /\ m \subseteq DOMAIN w
  BY <1>1 DEF Known
<1> HIDE DEF m, v
<1>4. /\ DOMAIN v = DOMAIN w
      /\ v \in [DOMAIN w -> [needs : SUBSET (1 .. MaxJob), legs : Nat]]
      /\ v[j].needs = m /\ \A i \in DOMAIN w \ {j} : v[i] = w[i]
  BY <1>1, <1>2, <1>3
<1>5. IsWorkflow(v)
  BY <1>1, <1>4 DEF IsWorkflow
<1>6. Known(v)
  BY <1>3, <1>4 DEF Known
<1> QED
  BY <1>4, <1>5, <1>6 DEF v

-----------------------------------------------------------------------------
(* Steps of a simulation *)

(* Among any jobs there is one that needs none of them.                     *)
NoLoop(needs) ==
    \A K \in SUBSET DOMAIN needs : K /= {} => \E k \in K : needs[k] \intersect K = {}

(* The legs of the jobs of a sound workflow.                                *)
LEMMA SoundHasNoLoop ==
    ASSUME NEW w, Sound(w)
    PROVE  /\ NoLoop(Needs(w)) /\ Closed(Needs(w)) /\ IsFiniteSet(DOMAIN Needs(w))
<1>1. IsFiniteSet(DOMAIN w) /\ (\A j \in DOMAIN w : w[j].legs \in Nat) /\ Known(w)
  BY FiniteJobs DEF Sound, IsWorkflow
<1>2. Closed(Needs(w)) /\ DOMAIN Needs(w) = Keys(w) /\ IsFiniteSet(Keys(w))
  BY <1>1, NeedsAreClosed DEF Known
<1>3. ASSUME NEW K \in SUBSET Keys(w), K /= {}, \A k \in K : Needs(w)[k] \intersect K /= {}
      PROVE  FALSE
  <2> DEFINE S == {k[1] : k \in K}
  <2>1. \A k \in Keys(w) : k[1] \in DOMAIN w
    BY DEF Keys, Legs
  <2>2. S \in SUBSET DOMAIN w /\ S /= {}
    BY <1>3, <2>1
  <2>3. ASSUME NEW j \in S
        PROVE  w[j].needs \intersect S /= {}
    <3>1. PICK k \in K : k[1] = j
      OBVIOUS
    <3>2. PICK n \in Needs(w)[k] : n \in K
      BY <1>3
    <3>3. PICK i \in w[j].needs : n \in Legs(w, i)
      BY <3>1, <3>2 DEF Needs
    <3>4. n[1] = i
      BY <3>3 DEF Legs
    <3> QED
      BY <3>2, <3>3, <3>4
  <2> HIDE DEF S
  <2> QED
    BY <2>2, <2>3 DEF Sound, Cyclic
<1> QED
  BY <1>2, <1>3 DEF NoLoop

Started(status) == {k \in DOMAIN status : status[k] /= "Pending"}
Launched(status) == {k \in DOMAIN status : status[k] \in {"Running"} \union Terminal}
Over(status) == {k \in DOMAIN status : status[k] \in Terminal}

(* Cardinalities of disjoint sets add up.                                   *)
LEMMA DisjointUnion ==
    ASSUME NEW A, NEW B, IsFiniteSet(A), IsFiniteSet(B), A \intersect B = {}
    PROVE  IsFiniteSet(A \union B) /\ Cardinality(A \union B) = Cardinality(A) + Cardinality(B)
<1>1. Cardinality(A) \in Nat /\ Cardinality(B) \in Nat /\ Cardinality(A \intersect B) = 0
  BY FS_CardinalityType, FS_EmptySet
<1>2. /\ IsFiniteSet(A \union B)
      /\ Cardinality(A \union B) = Cardinality(A) + Cardinality(B) - Cardinality(A \intersect B)
  BY FS_Union
<1> QED
  BY <1>1, <1>2

(* Progress counts a job once for every one of three marks it has passed.   *)
LEMMA Measured ==
    ASSUME NEW s, NEW D, IsFiniteSet(D), s.status \in [D -> Statuses]
    PROVE  /\ Progress(s) = Cardinality(Started(s.status)) + Cardinality(Launched(s.status))
                                + Cardinality(Over(s.status))
           /\ IsFiniteSet(Started(s.status)) /\ Cardinality(Started(s.status)) \in Nat
           /\ IsFiniteSet(Launched(s.status)) /\ Cardinality(Launched(s.status)) \in Nat
           /\ IsFiniteSet(Over(s.status)) /\ Cardinality(Over(s.status)) \in Nat
<1> DEFINE A == {k \in DOMAIN s.status : s.status[k] \in {"Ready"}}
           B == {k \in DOMAIN s.status : s.status[k] \in {"Running"}}
           C == {k \in DOMAIN s.status : s.status[k] \in Terminal}
<1>1. Progress(s) = Cardinality(A) + 2 * Cardinality(B) + 3 * Cardinality(C)
  BY DEF Progress
<1>2. /\ A \subseteq D /\ B \subseteq D /\ C \subseteq D
      /\ B \intersect C = {} /\ A \intersect (B \union C) = {}
      /\ Over(s.status) = C /\ Launched(s.status) = B \union C
      /\ Started(s.status) = A \union (B \union C)
  BY DEF Over, Launched, Started, Terminal, Statuses
<1> HIDE DEF A, B, C
<1>3. /\ IsFiniteSet(A) /\ IsFiniteSet(B) /\ IsFiniteSet(C)
      /\ Cardinality(A) \in Nat /\ Cardinality(B) \in Nat /\ Cardinality(C) \in Nat
  BY <1>2, FS_Subset, FS_CardinalityType
<1>4. IsFiniteSet(B \union C) /\ Cardinality(B \union C) = Cardinality(B) + Cardinality(C)
  BY <1>2, <1>3, DisjointUnion
<1>5. /\ IsFiniteSet(A \union (B \union C))
      /\ Cardinality(A \union (B \union C)) = Cardinality(A) + Cardinality(B \union C)
  BY <1>2, <1>3, <1>4, DisjointUnion
<1> QED
  BY <1>1, <1>2, <1>3, <1>4, <1>5

(* It grows when no job loses a mark and one wins one.                      *)
LEMMA ProgressGrows ==
    ASSUME NEW s, NEW t, NEW D, IsFiniteSet(D),
           s.status \in [D -> Statuses], t.status \in [D -> Statuses],
           Started(s.status) \subseteq Started(t.status),
           Launched(s.status) \subseteq Launched(t.status),
           Over(s.status) \subseteq Over(t.status),
           \/ Started(s.status) /= Started(t.status)
           \/ Launched(s.status) /= Launched(t.status)
           \/ Over(s.status) /= Over(t.status)
    PROVE  Progress(t) > Progress(s)
<1> DEFINE a == Cardinality(Started(s.status))  a2 == Cardinality(Started(t.status))
           b == Cardinality(Launched(s.status)) b2 == Cardinality(Launched(t.status))
           c == Cardinality(Over(s.status))     c2 == Cardinality(Over(t.status))
<1>1. /\ Progress(s) = a + b + c /\ a \in Nat /\ b \in Nat /\ c \in Nat
      /\ Progress(t) = a2 + b2 + c2 /\ a2 \in Nat /\ b2 \in Nat /\ c2 \in Nat
      /\ IsFiniteSet(Started(t.status)) /\ IsFiniteSet(Launched(t.status)) /\ IsFiniteSet(Over(t.status))
  BY Measured
<1>2. a <= a2 /\ (a = a2 => Started(s.status) = Started(t.status))
  BY <1>1, FS_Subset
<1>3. b <= b2 /\ (b = b2 => Launched(s.status) = Launched(t.status))
  BY <1>1, FS_Subset
<1>4. c <= c2 /\ (c = c2 => Over(s.status) = Over(t.status))
  BY <1>1, FS_Subset
<1> HIDE DEF a, b, c, a2, b2, c2
<1> QED
  BY <1>1, <1>2, <1>3, <1>4

(* Every step counts, in every simulation that the rules allow.             *)
LEMMA StepCounts ==
    ASSUME NEW needs, Closed(needs), NoLoop(needs), IsFiniteSet(DOMAIN needs),
           NEW s \in Sims(needs), ~s.finished
    PROVE  LET after == Step(s)
           IN  /\ after.sim.finished \/ Progress(after.sim) > Progress(s)
               /\ ~after.ok => Having(s, "Failed") /= {}
               /\ after.sim.finished => IsFinished(after.sim.status)
<1>1. /\ s \in [needs : {needs}, status : [DOMAIN needs -> Statuses], finished : BOOLEAN]
      /\ Lawful(needs, s.status)
  BY DEF Sims
<1>2. CASE Having(s, "Ready") /= {}
  <2> DEFINE t == [k \in DOMAIN s.status |-> IF s.status[k] = "Ready" THEN "Running" ELSE s.status[k]]
             u == [s EXCEPT !.status = t]
  <2>1. /\ t \in [DOMAIN needs -> Statuses]
        /\ \A k \in DOMAIN needs : t[k] = IF s.status[k] = "Ready" THEN "Running" ELSE s.status[k]
    BY <1>1 DEF Statuses
  <2>2. Step(s) = [sim |-> u, ok |-> TRUE]
    BY <1>2 DEF Step
  <2> HIDE DEF t
  <2>3. u.status = t /\ u.finished = FALSE
    BY <1>1
  <2> HIDE DEF u
  <2>4. /\ Started(s.status) \subseteq Started(t) /\ Launched(s.status) \subseteq Launched(t)
        /\ Over(s.status) \subseteq Over(t)
    BY <1>1, <2>1 DEF Started, Launched, Over, Terminal
  <2>5. Launched(s.status) /= Launched(t)
    <3>1. PICK k \in DOMAIN needs : s.status[k] = "Ready"
      BY <1>1, <1>2 DEF Having
    <3>2. k \in Launched(t) /\ k \notin Launched(s.status)
      BY <1>1, <2>1, <3>1 DEF Launched, Terminal
    <3> QED
      BY <3>2
  <2>6. Progress(u) > Progress(s)
    BY <1>1, <2>1, <2>3, <2>4, <2>5, ProgressGrows
  <2> QED
    BY <2>2, <2>3, <2>6
<1>3. CASE Having(s, "Ready") = {}
  <2> DEFINE t == [k \in DOMAIN s.status |-> IF s.status[k] = "Running" THEN "Succeeded" ELSE s.status[k]]
             u == Settled(s, t)
             r == Refreshed(needs, t)
  <2>1. /\ t \in [DOMAIN needs -> Statuses]
        /\ \A k \in DOMAIN needs : t[k] = IF s.status[k] = "Running" THEN "Succeeded" ELSE s.status[k]
    BY <1>1 DEF Statuses
  <2>2. Step(s) = [sim |-> u, ok |-> Having(s, "Running") /= {} \/ u.finished]
    BY <1>3 DEF Step
  <2> HIDE DEF t
  <2>3. Touched(needs, t)
    <3>1. ASSUME NEW k \in DOMAIN needs, NEW n \in needs[k], t[k] \in {"Running", "Succeeded"}
          PROVE  t[n] \in {"Succeeded", "Failed"}
      BY <1>1, <2>1, <3>1 DEF Lawful, Touched, Closed
    <3>2. ASSUME NEW k \in DOMAIN needs, t[k] = "Blocked"
          PROVE  \E n \in needs[k] : t[n] \in {"Failed", "Blocked"}
      <4>1. PICK n \in needs[k] : s.status[n] \in {"Failed", "Blocked"}
        BY <1>1, <2>1, <3>2 DEF Lawful, Touched
      <4> QED
        BY <2>1, <4>1 DEF Closed
    <3> QED
      BY <2>1, <3>1, <3>2 DEF Touched
  <2>4. u \in Sims(needs) /\ u.status = r /\ u.finished = IsFinished(r)
    BY <2>3, SettledIsLawful
  <2> SUFFICES /\ IsFinished(r) \/ Progress(u) > Progress(s)
               /\ Having(s, "Running") = {} /\ ~IsFinished(r) => Having(s, "Failed") /= {}
    <3> HIDE DEF u, r
    <3> DEFINE o == Having(s, "Running") /= {} \/ u.finished
    <3>0. Step(s) = [sim |-> u, ok |-> o]
      BY <2>2
    <3>1. Step(s).sim = u /\ (Step(s).ok <=> o)
      <4> HIDE DEF o
      <4> QED
        BY <3>0
    <3> QED
      BY <2>4, <3>1
  <2>5. r \in [DOMAIN needs -> Statuses]
    BY <2>4 DEF Sims
  <2> HIDE DEF u, r
  <2>6. /\ Started(s.status) \subseteq Started(r) /\ Launched(s.status) \subseteq Launched(r)
        /\ Over(s.status) \subseteq Over(r)
    <3>1. ASSUME NEW k \in DOMAIN needs, s.status[k] /= "Pending"
          PROVE  r[k] \in Terminal
      <4>1. s.status[k] /= "Ready"
        BY <1>1, <1>3 DEF Having
      <4>2. CASE s.status[k] = "Blocked"
        <5>1. t[k] = "Blocked" /\ \E n \in needs[k] : t[n] \in {"Failed", "Blocked"}
          BY <2>1, <2>3, <4>2 DEF Touched
        <5> QED
          BY <2>1, <5>1, RefreshedAt DEF r, Terminal
      <4>3. CASE s.status[k] \in {"Running", "Succeeded", "Failed"}
        <5>1. t[k] \in {"Succeeded", "Failed"}
          BY <2>1, <4>3
        <5> QED
          BY <2>1, <5>1, RefreshedAt DEF r, Terminal
      <4> QED
        BY <1>1, <3>1, <4>1, <4>2, <4>3 DEF Statuses
    <3>2. \A k \in DOMAIN needs : s.status[k] \in {"Running"} \union Terminal => s.status[k] /= "Pending"
      BY DEF Terminal
    <3> QED
      BY <1>1, <2>5, <3>1, <3>2 DEF Started, Launched, Over, Terminal
  <2>7. CASE Having(s, "Running") /= {}
    <3>1. PICK k \in DOMAIN needs : s.status[k] = "Running"
      BY <1>1, <2>7 DEF Having
    <3>2. r[k] = "Succeeded"
      BY <2>1, <3>1, RefreshedAt DEF r
    <3>3. k \in Over(r) /\ k \notin Over(s.status)
      BY <1>1, <2>5, <3>1, <3>2 DEF Over, Terminal
    <3>4. Progress(u) > Progress(s)
      BY <1>1, <2>4, <2>5, <2>6, <3>3, ProgressGrows
    <3> QED
      BY <2>7, <3>4
  <2>8. CASE Having(s, "Running") = {} /\ IsFinished(r)
    BY <2>8
  <2>9. CASE Having(s, "Running") = {} /\ ~IsFinished(r)
    <3> DEFINE P == {k \in DOMAIN needs : s.status[k] = "Pending"}
               X == {k \in DOMAIN needs : s.status[k] = "Blocked"}
    <3>1. t = s.status
      BY <1>1, <2>1, <2>9 DEF Having
    <3>2. \A k \in DOMAIN needs : s.status[k] \in {"Pending", "Succeeded", "Failed", "Blocked"}
      BY <1>1, <1>3, <2>9 DEF Having, Statuses
    <3>3. P /= {}
      <4>1. PICK k \in DOMAIN needs : r[k] \notin Terminal
        BY <2>5, <2>9 DEF IsFinished
      <4>2. k \notin Over(s.status)
        BY <1>1, <2>5, <2>6, <4>1 DEF Over
      <4> QED
        BY <1>1, <3>2, <4>2 DEF Over, Terminal
    <3>4. PICK k \in P : needs[k] \intersect P = {}
      BY <3>3 DEF NoLoop
    <3>5. \A n \in needs[k] : s.status[n] \in {"Succeeded", "Failed", "Blocked"}
      BY <3>2, <3>4 DEF Closed
    <3>6. k \in DOMAIN needs /\ s.status[k] = "Pending" /\ t[k] = "Pending"
      BY <3>1, <3>4
    <3>7. r[k] /= "Pending"
      <4>1. CASE \E n \in needs[k] : t[n] \in {"Failed", "Blocked"}
        BY <2>1, <3>6, <4>1, RefreshedAt DEF r
      <4>2. CASE ~\E n \in needs[k] : t[n] \in {"Failed", "Blocked"}
        <5>1. \A n \in needs[k] : t[n] = "Succeeded"
          BY <3>1, <3>5, <4>2
        <5> QED
          BY <2>1, <3>6, <5>1, RefreshedAt DEF r
      <4> QED
        BY <4>1, <4>2
    <3>8. k \in Started(r) /\ k \notin Started(s.status)
      BY <1>1, <2>5, <3>6, <3>7 DEF Started
    <3>9. Progress(u) > Progress(s)
      BY <1>1, <2>4, <2>5, <2>6, <3>8, ProgressGrows
    <3>10. Having(s, "Failed") /= {}
      <4> SUFFICES ASSUME Having(s, "Failed") = {} PROVE FALSE
        OBVIOUS
      <4>1. \A n \in DOMAIN needs : s.status[n] /= "Failed"
        BY <1>1 DEF Having
      <4>2. \A n \in X : needs[n] \intersect X /= {}
        BY <1>1, <4>1 DEF Lawful, Touched, Closed
      <4>3. X = {}
        BY <4>2 DEF NoLoop
      <4>4. \A n \in needs[k] : s.status[n] = "Succeeded"
        BY <3>5, <3>6, <4>1, <4>3 DEF Closed
      <4> QED
        BY <1>1, <3>6, <4>4 DEF Lawful
    <3> QED
      BY <3>9, <3>10
  <2> QED
    BY <2>7, <2>8, <2>9
<1> QED
  BY <1>2, <1>3

-----------------------------------------------------------------------------
(* The invariant *)

ViewInv ==
    /\ mode \in {"Flow", "Yaml", "Simulate"}
    /\ Sound(workflow)
    /\ selected \in DOMAIN workflow \union {NoJob}
    /\ IsText(text)
    /\ simulation /= NoSim => simulation \in Sims(Needs(workflow))

FileInv ==
    /\ path \in Paths \union {NoPath}
    /\ baseline \in {"absent", "current", "old"}
    /\ unseen \in [Paths -> {"no", "yes", "raced"}]
    /\ disk = [p \in Paths |-> disk[p]]
    /\ \A p \in Paths : disk[p] = Absent \/ IsText(disk[p])
    /\ \/ busy = Idle
       \/ /\ busy.path \in Paths
          /\ \/ busy.op = "load" /\ busy = Loading(busy.path, busy.text) /\ IsText(busy.text)
             \/ busy = Saving("write", busy.path)
             \/ busy = Saving("probe", busy.path)

(* Foreign contents that the view has not read are in a file whose mtime it *)
(* does not take for the one it knows; and never in the file that a handler *)
(* is at work on, unless they have come since.                              *)
UnseenInv ==
    /\ \A p \in Paths : unseen[p] = "yes" =>
          disk[p] /= Absent /\ (p = path => baseline /= "current")
    /\ busy /= Idle => unseen[busy.path] /= "yes"

IInv == ViewInv /\ FileInv /\ UnseenInv

(* from_workflow. *)
LEMMA FromWorkflowIsLawful ==
    ASSUME NEW w, Sound(w)
    PROVE  FromWorkflow(w) \in Sims(Needs(w))
  BY SoundHasNoLoop, FreshIsLawful DEF FromWorkflow

(* A text that parses.                                                      *)
LEMMA ParsesIsSound ==
    ASSUME NEW t, IsText(t), Parses(t)
    PROVE  Sound(t)
  BY ValidIsSound DEF IsText, Parses, IsValid

-----------------------------------------------------------------------------
(* What the view holds stays right.                                         *)
LEMMA StepKeepsView ==
    ASSUME IInv, Next
    PROVE  ViewInv'
<1> USE DEF NoJob
<1>1. ViewInv /\ FileInv
  BY DEF IInv
<1>2. ASSUME UNCHANGED viewVars
      PROVE  ViewInv'
  BY <1>1, <1>2 DEF ViewInv, viewVars
<1>3. ASSUME NEW w, Sound(w), Apply(w), NEW t, IsText(t), SetEditorText(t),
             mode' \in {"Flow", "Yaml", "Simulate"}
      PROVE  ViewInv'
  BY <1>3 DEF ViewInv, Apply, SetEditorText
<1>4. ASSUME NEW w, Sound(w), Edited(w), selected' \in DOMAIN w \union {NoJob}
      PROVE  ViewInv'
  <2>1. simulation' = FromWorkflow(w) \/ simulation' = NoSim
    BY <1>4 DEF Edited, InvalidateSimulation
  <2>2. FromWorkflow(w) \in Sims(Needs(w))
    BY <1>4, FromWorkflowIsLawful
  <2> QED
    BY <1>1, <1>4, <2>1, <2>2 DEF ViewInv, Edited
<1>5. ASSUME NEW s, Show(s), s \in Sims(Needs(workflow))
      PROVE  ViewInv'
  BY <1>1, <1>5 DEF ViewInv, Show
<1>6. ASSUME NEW m \in {"Flow", "Yaml", "Simulate"}, LeaveYaml(m)
      PROVE  ViewInv'
  <2>1. Sound(text)
    BY <1>1, <1>6, ParsesIsSound DEF ViewInv, LeaveYaml
  <2>2. simulation' = FromWorkflow(text) \/ simulation' = NoSim
    BY <1>6 DEF LeaveYaml
  <2>3. FromWorkflow(text) \in Sims(Needs(text))
    BY <2>1, FromWorkflowIsLawful
  <2> QED
    BY <1>1, <1>6, <2>1, <2>2, <2>3 DEF ViewInv, LeaveYaml, SetEditorText
<1>7. ASSUME NEW m \in {"Flow", "Yaml", "Simulate"}, SetMode(m)
      PROVE  ViewInv'
  <2>1. simulation' = FromWorkflow(workflow) \/ simulation' = simulation
    BY <1>7 DEF SetMode
  <2>2. FromWorkflow(workflow) \in Sims(Needs(workflow))
    BY <1>1, FromWorkflowIsLawful DEF ViewInv
  <2>3. IsText(workflow)
    BY <1>1 DEF ViewInv, Sound, IsText
  <2> QED
    BY <1>1, <1>7, <2>1, <2>2, <2>3 DEF ViewInv, SetMode, SetEditorText
<1>8. ASSUME NEW t \in Texts, EditYaml(t)
      PROVE  ViewInv'
  BY <1>1, <1>8, TextsAssumption DEF ViewInv, EditYaml, SetEditorText
<1>9. ASSUME NEW j \in 1 .. MaxJob, Select(j)
      PROVE  ViewInv'
  BY <1>1, <1>9 DEF ViewInv, Select
<1>10. ASSUME NEW n \in 1 .. MaxJob, ToggleNeed(n)
       PROVE  ViewInv'
  <2> DEFINE v == Toggled(workflow, selected, n)
  <2>1. IsWorkflow(v) /\ DOMAIN v = DOMAIN workflow
    BY <1>1, <1>10, ToggledIsWorkflow DEF ViewInv, Sound, ToggleNeed
  <2>2. HasJobOrder(v) /\ Edited(v) /\ selected' = selected
    BY <1>10 DEF ToggleNeed
  <2> HIDE DEF v
  <2>3. Sound(v)
    BY <2>1, <2>2, ValidIsSound
  <2> QED
    BY <1>1, <1>4, <2>1, <2>2, <2>3 DEF ViewInv
<1>11. ASSUME AddJob
       PROVE  ViewInv'
  <2> DEFINE v(j) == [i \in DOMAIN workflow \union {j} |->
                        IF i = j THEN [needs |-> {}, legs |-> 1] ELSE workflow[i]]
  <2>1. PICK j \in Cardinality(DOMAIN workflow) + 1 .. MaxJob :
            j \notin DOMAIN workflow /\ Edited(v(j)) /\ selected' = j
    BY <1>11 DEF AddJob
  <2>2. Sound(workflow)
    BY <1>1 DEF ViewInv
  <2>3. Cardinality(DOMAIN workflow) \in Nat
    BY <2>2, FiniteJobs, FS_CardinalityType DEF Sound
  <2>4. j \in 1 .. MaxJob
    BY <2>3, BoundsAssumption
  <2>5. Sound(v(j)) /\ DOMAIN v(j) = DOMAIN workflow \union {j}
    BY <2>1, <2>2, <2>4, AddedIsSound
  <2> HIDE DEF v
  <2> QED
    BY <1>4, <2>1, <2>5
<1>12. ASSUME RemoveSelectedJob
       PROVE  ViewInv'
  <2>1. Sound(WithoutJob(workflow, selected))
    BY <1>1, RemovedIsSound DEF ViewInv
  <2> QED
    BY <1>4, <1>12, <2>1 DEF RemoveSelectedJob
<1>13. ASSUME SimStep \/ SimPlayAll \/ SimReset \/ FailSelected
       PROVE  ViewInv'
  <2> DEFINE needs == Needs(workflow)
  <2>1. simulation \in Sims(needs)
    BY <1>1, <1>13 DEF ViewInv, SimStep, SimPlayAll, SimReset, FailSelected, Simulating
  <2>2. Closed(needs) /\ IsFiniteSet(DOMAIN needs)
    BY <1>1, SoundHasNoLoop DEF ViewInv
  <2> HIDE DEF needs
  <2>3. Step(simulation).sim \in Sims(needs) /\ PlayAll(simulation).sim \in Sims(needs)
    BY <2>1, <2>2, StepIsLawful, PlayAllIsLawful
  <2>4. simulation.needs = needs /\ Fresh(needs) \in Sims(needs)
    BY <2>1, <2>2, FreshIsLawful DEF Sims
  <2>5. FailJob(simulation, selected) \in Sims(needs)
    BY <2>1, <2>2, FailJobIsLawful
  <2>6. \E s \in Sims(needs) : Show(s)
    BY <1>13, <2>3, <2>4, <2>5 DEF SimStep, SimPlayAll, SimReset, FailSelected
  <2> QED
    BY <1>5, <2>6 DEF needs
<1>14. ASSUME NEW p \in Paths, LoadRead(p) \/ \E t \in Texts \union {Absent} : ForeignWrite(p, t)
       PROVE  ViewInv'
  <2>1. UNCHANGED viewVars
    BY <1>14 DEF LoadRead, ForeignWrite
  <2> QED
    BY <1>2, <2>1
<1>15. ASSUME SaveWrite \/ SaveFails \/ SaveLosesFile \/ SaveProbe
       PROVE  ViewInv'
  <2>1. UNCHANGED viewVars
    BY <1>15 DEF SaveWrite, SaveFails, SaveLosesFile, SaveProbe
  <2> QED
    BY <1>2, <2>1
<1>16. ASSUME LoadShow
       PROVE  ViewInv'
  <2>1. IsText(busy.text)
    BY <1>1, <1>16 DEF FileInv, LoadShow, Idle, Saving
  <2>2. CASE Parses(busy.text)
    <3>1. Sound(busy.text)
      BY <2>1, <2>2, ParsesIsSound
    <3>2. Apply(busy.text) /\ SetEditorText(busy.text) /\ mode' = mode
      BY <1>16, <2>2 DEF LoadShow
    <3> QED
      BY <1>1, <1>3, <2>1, <3>1, <3>2 DEF ViewInv
  <2>3. CASE ~Parses(busy.text)
    BY <1>1, <1>16, <2>1, <2>3 DEF LoadShow, ViewInv, SetEditorText
  <2> QED
    BY <2>2, <2>3
<1>17. ASSUME CreateNew
       PROVE  ViewInv'
  <2>1. Sound(Seed) /\ IsText(Seed)
    BY SeedAssumption, ValidIsSound DEF IsValid, IsText
  <2>2. Apply(Seed) /\ SetEditorText(Seed) /\ mode' = "Flow"
    BY <1>17 DEF CreateNew
  <2> QED
    BY <1>3, <2>1, <2>2
<1>18. ASSUME SaveCheck
       PROVE  ViewInv'
  <2>1. mode' = mode
    BY <1>18 DEF SaveCheck
  <2>2. CASE mode = "Yaml"
    <3>1. Parses(text) /\ Apply(text) /\ SetEditorText(text)
      BY <1>18, <2>2 DEF SaveCheck
    <3>2. Sound(text)
      BY <1>1, <3>1, ParsesIsSound DEF ViewInv
    <3> QED
      BY <1>1, <1>3, <2>1, <3>1, <3>2 DEF ViewInv
  <2>3. CASE mode /= "Yaml"
    <3>1. IsText(workflow)
      BY <1>1 DEF ViewInv, Sound, IsText
    <3> QED
      BY <1>1, <1>18, <2>1, <2>3, <3>1 DEF ViewInv, SaveCheck, SetEditorText
  <2> QED
    BY <2>2, <2>3
<1> QED
  BY <1>6, <1>7, <1>8, <1>9, <1>10, <1>11, <1>12, <1>13, <1>14, <1>15, <1>16, <1>17, <1>18 DEF Next

(* So does what it knows of its files.                                      *)
LEMMA StepKeepsFile ==
    ASSUME IInv, Next
    PROVE  FileInv' /\ UnseenInv'
<1>1. ViewInv /\ FileInv /\ UnseenInv
  BY DEF IInv
<1>2. ASSUME UNCHANGED fileVars
      PROVE  FileInv' /\ UnseenInv'
  BY <1>1, <1>2 DEF FileInv, UnseenInv, fileVars
<1>3. ASSUME NEW m, LeaveYaml(m) \/ SetMode(m)
      PROVE  FileInv' /\ UnseenInv'
  BY <1>2, <1>3 DEF LeaveYaml, SetMode
<1>4. ASSUME NEW t, EditYaml(t) \/ Select(t) \/ ToggleNeed(t)
      PROVE  FileInv' /\ UnseenInv'
  BY <1>2, <1>4 DEF EditYaml, Select, ToggleNeed, Edited
<1>5. ASSUME AddJob \/ RemoveSelectedJob
      PROVE  FileInv' /\ UnseenInv'
  BY <1>2, <1>5 DEF AddJob, RemoveSelectedJob, Edited
<1>6. ASSUME SimStep \/ SimPlayAll \/ SimReset \/ FailSelected
      PROVE  FileInv' /\ UnseenInv'
  BY <1>2, <1>6 DEF SimStep, SimPlayAll, SimReset, FailSelected, Show
<1>7. ASSUME NEW p \in Paths, LoadRead(p)
      PROVE  FileInv' /\ UnseenInv'
  BY <1>1, <1>7 DEF FileInv, UnseenInv, LoadRead, Loading, Idle
<1>8. ASSUME NEW p \in Paths, NEW t \in Texts \union {Absent}, ForeignWrite(p, t)
      PROVE  FileInv' /\ UnseenInv'
  <2>1. t = Absent \/ IsText(t)
    BY TextsAssumption
  <2>2. FileInv'
    BY <1>1, <1>8, <2>1 DEF FileInv, ForeignWrite, Loading, Saving, Idle
  <2>3. UnseenInv'
    BY <1>1, <1>8 DEF FileInv, UnseenInv, ForeignWrite
  <2> QED
    BY <2>2, <2>3
<1>9. ASSUME LoadShow
      PROVE  FileInv' /\ UnseenInv'
  <2>1. busy.path \in Paths /\ busy /= Idle
    BY <1>1, <1>9 DEF FileInv, LoadShow, Idle
  <2>2. /\ busy' = Idle /\ path' = busy.path /\ disk' = disk /\ unseen' = unseen
        /\ baseline' \in {"absent", "current", "old"}
    BY <1>1, <1>9 DEF FileInv, LoadShow, Probed
  <2>3. FileInv'
    BY <1>1, <2>1, <2>2 DEF FileInv
  <2>4. UnseenInv'
    BY <1>1, <2>1, <2>2 DEF UnseenInv
  <2> QED
    BY <2>3, <2>4
<1>10. ASSUME CreateNew
       PROVE  FileInv' /\ UnseenInv'
  <2>1. path' \in Paths \union {NoPath}
    BY <1>10 DEF CreateNew, NewPath
  <2> QED
    BY <1>1, <1>10, <2>1 DEF FileInv, UnseenInv, CreateNew, Idle
<1>11. ASSUME SaveCheck
       PROVE  FileInv' /\ UnseenInv'
  <2>1. PICK p \in IF path = NoPath THEN NewPath ELSE {path} :
            busy' \in {Idle} \union (IF Conflicts(p) THEN {} ELSE {Saving("write", p)})
    BY <1>11 DEF SaveCheck
  <2>2. path' = path /\ baseline' = baseline /\ disk' = disk /\ unseen' = unseen
    BY <1>11 DEF SaveCheck
  <2>3. p \in Paths /\ (p = path \/ disk[p] = Absent)
    BY <1>1, <2>1 DEF FileInv, NewPath
  <2>4. ~Conflicts(p) => unseen[p] /= "yes"
    BY <1>1, <2>3 DEF FileInv, UnseenInv, Conflicts
  <2>5. busy' = Idle \/ (busy' = Saving("write", p) /\ ~Conflicts(p))
    BY <2>1
  <2>6. FileInv'
    BY <1>1, <2>2, <2>3, <2>5 DEF FileInv, Saving
  <2>7. UnseenInv'
    BY <1>1, <2>2, <2>3, <2>4, <2>5 DEF UnseenInv, Saving
  <2> QED
    BY <2>6, <2>7
<1>12. ASSUME SaveWrite
       PROVE  FileInv' /\ UnseenInv'
  <2>1. busy.path \in Paths /\ IsText(workflow)
    BY <1>1, <1>12 DEF FileInv, SaveWrite, Idle, ViewInv, Sound, IsText
  <2>2. FileInv'
    BY <1>1, <1>12, <2>1 DEF FileInv, SaveWrite, Saving
  <2>3. UnseenInv'
    <3>1. /\ path' = path /\ busy' = Saving("probe", busy.path)
          /\ baseline' = "current" => baseline = "current" /\ path /= busy.path
          /\ unseen'[busy.path] = "no"
          /\ \A p \in Paths : p /= busy.path => unseen'[p] = unseen[p] /\ disk'[p] = disk[p]
      BY <1>1, <1>12, <2>1 DEF FileInv, SaveWrite
    <3>2. busy'.path = busy.path
      BY <3>1 DEF Saving
    <3> QED
      BY <1>1, <2>1, <3>1, <3>2 DEF UnseenInv
  <2> QED
    BY <2>2, <2>3
<1>13. ASSUME SaveFails
       PROVE  FileInv' /\ UnseenInv'
  BY <1>1, <1>13 DEF FileInv, UnseenInv, SaveFails
<1>14. ASSUME SaveProbe
       PROVE  FileInv' /\ UnseenInv'
  <2>1. busy.path \in Paths /\ busy /= Idle
    BY <1>1, <1>14 DEF FileInv, SaveProbe, Idle
  <2>2. /\ busy' = Idle /\ path' = busy.path /\ disk' = disk /\ unseen' = unseen
        /\ baseline' \in {"absent", "current", "old"}
    BY <1>14 DEF SaveProbe, Probed
  <2> QED
    BY <1>1, <2>1, <2>2 DEF FileInv, UnseenInv
<1>15. ASSUME SaveLosesFile
       PROVE  FileInv' /\ UnseenInv'
  <2>1. busy.path \in Paths
    BY <1>1, <1>15 DEF FileInv, SaveLosesFile, Idle
  <2>2. FileInv'
    BY <1>1, <1>15, <2>1 DEF FileInv, SaveLosesFile
  <2>3. UnseenInv'
    BY <1>1, <1>15, <2>1 DEF FileInv, UnseenInv, SaveLosesFile
  <2> QED
    BY <2>2, <2>3
<1> QED
  BY <1>3, <1>4, <1>5, <1>6, <1>7, <1>8, <1>9, <1>10, <1>11, <1>12, <1>13, <1>14, <1>15 DEF Next

(* The view starts with the seed, and maybe with a file to load.            *)
LEMMA InitIsRight ==
    ASSUME Init
    PROVE  IInv
<1>1. Sound(Seed) /\ IsText(Seed)
  BY SeedAssumption, ValidIsSound DEF IsValid, IsText
<1>2. ViewInv
  BY <1>1 DEF Init, ViewInv, NoJob
<1>3. FileInv /\ UnseenInv
  <2>1. CASE disk = [p \in Paths |-> Absent] /\ busy = Idle
    BY <2>1 DEF Init, FileInv, UnseenInv
  <2>2. ASSUME NEW p \in Paths, NEW t \in Texts,
               disk = [q \in Paths |-> IF q = p THEN t ELSE Absent], busy = Loading(p, t)
        PROVE  FileInv /\ UnseenInv
    BY <2>2, TextsAssumption DEF Init, FileInv, UnseenInv, Loading
  <2> QED
    BY <2>1, <2>2 DEF Init
<1> QED
  BY <1>2, <1>3 DEF IInv

-----------------------------------------------------------------------------
(* The inductive invariant of the workflow editor.                          *)
THEOREM Invariance == Spec => []IInv
<1>1. Init => IInv
  BY InitIsRight
<1>2. IInv /\ [Next]_vars => IInv'
  <2>1. ASSUME IInv, UNCHANGED vars
        PROVE  IInv'
    <3>1. UNCHANGED viewVars /\ UNCHANGED fileVars
      BY <2>1 DEF vars
    <3> QED
      BY <2>1, <3>1 DEF IInv, ViewInv, FileInv, UnseenInv, viewVars, fileVars
  <2>2. ASSUME IInv, Next
        PROVE  IInv'
    BY <2>2, StepKeepsView, StepKeepsFile DEF IInv
  <2> QED
    BY <2>1, <2>2
<1> QED
  BY <1>1, <1>2, PTL DEF Spec

(* Whatever the view loads and edits, what it holds has its type.           *)
THEOREM TypeCorrect == Spec => []TypeOK
<1>1. IInv => TypeOK
  BY DEF IInv, ViewInv, FileInv, TypeOK, Sims
<1> QED
  BY <1>1, Invariance, PTL

(* job_order finds an order exactly when there is no cycle, and a right one.*)
THEOREM RightOrder == Spec => []OrderIsRight
<1>1. ASSUME IInv
      PROVE  OrderIsRight
  <2>1. IsWorkflow(workflow) /\ Known(workflow) /\ selected \in DOMAIN workflow \union {NoJob}
    BY <1>1 DEF IInv, ViewInv, Sound
  <2>2. ASSUME NEW w \in Variants
        PROVE  IsWorkflow(w) /\ Known(w)
    BY <2>1, ToggledIsWorkflow DEF Variants
  <2>3. ASSUME NEW w \in Variants
        PROVE  HasJobOrder(w) <=> ~Cyclic(w)
    BY <2>2, OrderMeansNoCycle, NoCycleMeansOrder
  <2>4. ASSUME NEW w \in Variants, NEW i \in 1 .. Len(Sorted(w)), NEW j \in 1 .. Len(Sorted(w)),
               Sorted(w)[j] \in w[Sorted(w)[i]].needs
        PROVE  j < i
    <3>1. Ordered(w, Sorted(w))
      BY <2>2, FiniteJobs, SortedIsOrdered
    <3> QED
      BY <2>4, <3>1, OrderedMeansBefore
  <2> QED
    BY <2>3, <2>4 DEF OrderIsRight
<1> QED
  BY <1>1, Invariance, PTL

(* No edit makes a workflow with a cycle or an unknown need.                *)
THEOREM SoundWorkflows == Spec => []WorkflowStaysSound
<1>1. IInv => WorkflowStaysSound
  BY DEF IInv, ViewInv, Sound, Known, WorkflowStaysSound
<1> QED
  BY <1>1, Invariance, PTL

(* The simulation is one of the workflow shown, and starts no job early.    *)
THEOREM NoEarlyStart == Spec => []NothingRunsEarly
<1>1. IInv => NothingRunsEarly
  BY DEF IInv, ViewInv, NothingRunsEarly, Sims, Lawful, Touched
<1> QED
  BY <1>1, Invariance, PTL

(* Every step of an unfinished simulation brings a job on.                  *)
THEOREM StepsCount == Spec => []EveryStepCounts
<1>1. ASSUME IInv, simulation /= NoSim, ~simulation.finished
      PROVE  LET after == Step(simulation)
             IN  /\ after.sim.finished \/ Progress(after.sim) > Progress(simulation)
                 /\ ~after.ok => Having(simulation, "Failed") /= {}
                 /\ after.sim.finished => IsFinished(after.sim.status)
  <2> DEFINE needs == Needs(workflow)
  <2>1. Closed(needs) /\ NoLoop(needs) /\ IsFiniteSet(DOMAIN needs)
    BY <1>1, SoundHasNoLoop DEF IInv, ViewInv
  <2>2. simulation \in Sims(needs)
    BY <1>1 DEF IInv, ViewInv
  <2> HIDE DEF needs
  <2> QED
    BY <1>1, <2>1, <2>2, StepCounts
<1>2. IInv => EveryStepCounts
  BY <1>1 DEF EveryStepCounts
<1> QED
  BY <1>2, Invariance, PTL

(* A save overwrites nothing foreign that was there before it began.        *)
THEOREM ForeignContentsKept == Spec => ForeignKept
<1>1. IInv /\ [Next]_vars => [busy.op = "write" /\ disk' /= disk /\ foreign' = foreign
                                => unseen[busy.path] /= "yes"]_vars
  BY DEF IInv, UnseenInv, Idle
<1> QED
  BY <1>1, Invariance, PTL DEF Spec, ForeignKept
=============================================================================
