---------------------- MODULE WorkflowSimulationProofs ----------------------
(***************************************************************************)
(* What job_order and the methods of the simulation compute, for every     *)
(* workflow.  Their loops are recursive functions.  Such a function is     *)
(* CHOSEN, so that each proof first shows that there is one (Iterates) and *)
(* then goes along it (UpTo).                                              *)
(***************************************************************************)
EXTENDS WorkflowSimulation, FiniteSetTheorems, SequenceTheorems, WellFoundedInduction, TLAPS

-----------------------------------------------------------------------------
(* A set of natural numbers has a least element.                            *)
LEMMA Least ==
    ASSUME NEW S, S \subseteq Nat, S /= {}
    PROVE  \E n \in S : \A m \in S : n <= m
<1>1. PICK n \in S : \A m \in S : <<m, n>> \notin OpToRel(<, Nat)
  BY WFMin, NatLessThanWellFounded
<1>2. \A m \in S : ~(m < n)
  BY <1>1 DEF OpToRel
<1> QED
  BY <1>2

(* Induction up to a bound, with a set in the place of the claim.           *)
LEMMA UpTo ==
    ASSUME NEW N \in Nat, NEW T, 0 \in T, \A n \in 1 .. N : n - 1 \in T => n \in T
    PROVE  0 .. N \subseteq T
<1> DEFINE bad == {n \in 0 .. N : n \notin T}
<1> SUFFICES ASSUME bad /= {} PROVE FALSE
  OBVIOUS
<1>1. PICK n \in bad : \A m \in bad : n <= m
  <2>1. bad \subseteq Nat
    OBVIOUS
  <2> HIDE DEF bad
  <2> QED
    BY <2>1, Least
<1>2. n \in 1 .. N /\ n - 1 \in 0 .. N /\ n - 1 < n
  BY <1>1
<1>3. n - 1 \in T
  BY <1>1, <1>2
<1> QED
  BY <1>1, <1>2, <1>3

(* N turns of a loop in S, from a on: the n-th makes F[n, s] of s.          *)
IsRun(f, S, a, N, F) ==
    f \in [0 .. N -> S] /\ f[0] = a /\ \A n \in 1 .. N : f[n] = F[<<n, f[n - 1]>>]

(* A loop that stays in S has a run of every length.                        *)
LEMMA Iterates ==
    ASSUME NEW S, NEW a \in S, NEW N \in Nat, NEW F \in [(1 .. N) \X S -> S]
    PROVE  \E f : IsRun(f, S, a, N, F)
<1> DEFINE Run(f, m) == f[0] = a /\ \A n \in 1 .. m : f[n] = F[<<n, f[n - 1]>>]
           Good(m) == \E f \in [0 .. m -> S] : Run(f, m)
           T == {m \in 0 .. N : Good(m)}
<1>1. Good(0)
  <2>1. [n \in 0 .. 0 |-> a] \in [0 .. 0 -> S] /\ Run([n \in 0 .. 0 |-> a], 0)
    OBVIOUS
  <2> HIDE DEF Run
  <2> QED
    BY <2>1
<1>2. ASSUME NEW m \in 1 .. N, Good(m - 1)
      PROVE  Good(m)
  <2>1. PICK f \in [0 .. m - 1 -> S] : Run(f, m - 1)
    BY <1>2
  <2> DEFINE b == F[<<m, f[m - 1]>>]
  <2>2. b \in S
    BY <2>1
  <2> HIDE DEF b
  <2> DEFINE g == [n \in 0 .. m |-> IF n = m THEN b ELSE f[n]]
  <2>3. g \in [0 .. m -> S]
    BY <2>1, <2>2
  <2>4. g[m] = b /\ \A n \in 0 .. m - 1 : g[n] = f[n]
    OBVIOUS
  <2> HIDE DEF g
  <2>5. ASSUME NEW n \in 1 .. m
        PROVE  g[n] = F[<<n, g[n - 1]>>]
    <3>1. n - 1 \in 0 .. m - 1 /\ g[n - 1] = f[n - 1]
      BY <2>4
    <3>2. CASE n = m
      BY <2>4, <3>1, <3>2 DEF b
    <3>3. CASE n /= m
      <4>1. n \in 1 .. m - 1 /\ n \in 0 .. m - 1
        BY <3>3
      <4>2. f[n] = F[<<n, f[n - 1]>>]
        BY <2>1, <4>1
      <4> QED
        BY <2>4, <3>1, <4>1, <4>2
    <3> QED
      BY <3>2, <3>3
  <2>6. g[0] = a
    <3>1. 0 \in 0 .. m - 1
      OBVIOUS
    <3> QED
      BY <2>1, <2>4, <3>1
  <2>7. Run(g, m)
    BY <2>5, <2>6
  <2> HIDE DEF Run
  <2> QED
    BY <2>3, <2>7
<1> HIDE DEF Good
<1>3. 0 \in T
  BY <1>1
<1>4. \A m \in 1 .. N : m - 1 \in T => m \in T
  BY <1>2
<1>5. N \in T
  <2> HIDE DEF T
  <2> QED
    BY <1>3, <1>4, UpTo
<1> QED
  BY <1>5 DEF Good, IsRun

-----------------------------------------------------------------------------
(* Sorted *)

(* What has left the queue: no job twice, and none before one it needs.     *)
Ordered(w, s) ==
    /\ s \in Seq(DOMAIN w)
    /\ \A i, j \in 1 .. Len(s) : s[i] = s[j] => i = j
    /\ \A i \in 1 .. Len(s) : \A n \in w[s[i]].needs : \E j \in 1 .. i - 1 : s[j] = n
    /\ IsFiniteSet(ToSet(s)) /\ Cardinality(ToSet(s)) = Len(s)

Popped(w, left) ==
    IF Queue(w, left) = {} THEN left ELSE Append(left, Min(Queue(w, left)))

(* The loop of job_order, one turn.                                         *)
LEMMA PopOne ==
    ASSUME NEW w, DOMAIN w \subseteq Nat, NEW s, Ordered(w, s), Queue(w, s) /= {}
    PROVE  Ordered(w, Append(s, Min(Queue(w, s)))) /\ Min(Queue(w, s)) \in DOMAIN w
<1> DEFINE q == Min(Queue(w, s))
           t == Append(s, q)
<1>1. q \in Queue(w, s)
  <2>1. Queue(w, s) \subseteq Nat
    BY DEF Queue
  <2>2. \E n \in Queue(w, s) : \A m \in Queue(w, s) : n <= m
    BY <2>1, Least
  <2> QED
    BY <2>2 DEF Min
<1>2. s \in Seq(DOMAIN w) /\ Len(s) \in Nat /\ DOMAIN s = 1 .. Len(s)
  BY LenProperties DEF Ordered
<1>3. /\ q \in DOMAIN w /\ w[q].needs \subseteq ToSet(s) /\ q \notin ToSet(s)
  BY <1>1 DEF Queue
<1> HIDE DEF q
<1>4. /\ t \in Seq(DOMAIN w) /\ Len(t) = Len(s) + 1 /\ t[Len(s) + 1] = q
      /\ \A i \in 1 .. Len(s) : t[i] = s[i]
  BY <1>2, <1>3, AppendProperties
<1>5. ToSet(t) = ToSet(s) \union {q}
  <2>1. DOMAIN t = 1 .. Len(s) + 1
    BY <1>4, <1>2, LenProperties
  <2> QED
    BY <1>2, <1>4, <2>1 DEF ToSet
<1> HIDE DEF t
<1>6. \A i \in 1 .. Len(s) : s[i] \in ToSet(s)
  BY <1>2 DEF ToSet
<1>7. \A i, j \in 1 .. Len(t) : t[i] = t[j] => i = j
  <2> SUFFICES ASSUME NEW i \in 1 .. Len(t), NEW j \in 1 .. Len(t), t[i] = t[j]
               PROVE  i = j
    OBVIOUS
  <2>1. \A k \in 1 .. Len(t) : (k \in 1 .. Len(s) /\ t[k] = s[k]) \/ (k = Len(s) + 1 /\ t[k] = q)
    BY <1>2, <1>4
  <2>2. \A k, l \in 1 .. Len(s) : s[k] = s[l] => k = l
    BY DEF Ordered
  <2> QED
    BY <1>3, <1>6, <2>1, <2>2
<1>8. ASSUME NEW i \in 1 .. Len(t), NEW n \in w[t[i]].needs
      PROVE  \E j \in 1 .. i - 1 : t[j] = n
  <2>1. CASE i = Len(s) + 1
    <3>1. n \in ToSet(s)
      BY <1>3, <1>4, <1>8, <2>1
    <3>2. PICK j \in 1 .. Len(s) : s[j] = n
      BY <1>2, <3>1 DEF ToSet
    <3> QED
      BY <1>2, <1>4, <2>1, <3>2
  <2>2. CASE i /= Len(s) + 1
    <3>1. i \in 1 .. Len(s) /\ t[i] = s[i]
      BY <1>2, <1>4, <2>2
    <3>2. PICK j \in 1 .. i - 1 : s[j] = n
      BY <1>8, <3>1 DEF Ordered
    <3>3. j \in 1 .. Len(s)
      BY <1>2, <3>1
    <3> QED
      BY <1>4, <3>2, <3>3
  <2> QED
    BY <2>1, <2>2
<1>9. IsFiniteSet(ToSet(t)) /\ Cardinality(ToSet(t)) = Len(t)
  <2>1. IsFiniteSet(ToSet(s)) /\ Cardinality(ToSet(s)) = Len(s)
    BY DEF Ordered
  <2>2. IsFiniteSet(ToSet(s) \union {q}) /\ Cardinality(ToSet(s) \union {q}) = Cardinality(ToSet(s)) + 1
    BY <1>3, <2>1, FS_AddElement
  <2> QED
    BY <1>4, <1>5, <2>1, <2>2
<1>10. Ordered(w, t)
  BY <1>4, <1>7, <1>8, <1>9 DEF Ordered
<1> QED
  BY <1>3, <1>10 DEF t, q

(* The whole loop: it ends with all jobs, or with none that could leave.    *)
LEMMA SortedIsOrdered ==
    ASSUME NEW w, DOMAIN w \subseteq Nat, IsFiniteSet(DOMAIN w)
    PROVE  /\ Ordered(w, Sorted(w))
           /\ Len(Sorted(w)) = Cardinality(DOMAIN w) \/ Queue(w, Sorted(w)) = {}
<1> DEFINE N == Cardinality(DOMAIN w)
           S == {s \in Seq(DOMAIN w) : Ordered(w, s)}
           F == [p \in (1 .. N) \X S |-> Popped(w, p[2])]
           Eqn(f) == f = [n \in 0 .. N |->
                IF n = 0 THEN <<>>
                ELSE LET left == f[n - 1]
                     IN  IF Queue(w, left) = {} THEN left ELSE Append(left, Min(Queue(w, left)))]
           popped == CHOOSE f : Eqn(f)
<1>1. N \in Nat
  BY FS_CardinalityType
<1>2. <<>> \in S
  <2>1. <<>> \in Seq(DOMAIN w) /\ Len(<<>>) = 0 /\ ToSet(<<>>) = {}
    BY EmptySeq DEF ToSet
  <2> QED
    BY <2>1, FS_EmptySet DEF Ordered
<1>3. \A s \in S : Popped(w, s) \in S
  BY PopOne DEF Popped, Ordered
<1>4. F \in [(1 .. N) \X S -> S]
  BY <1>3
<1>5. \A n \in 1 .. N, s \in S : F[<<n, s>>] = Popped(w, s)
  OBVIOUS
<1>6. Sorted(w) = popped[N]
  BY DEF Sorted
<1>7. S \subseteq Seq(DOMAIN w) /\ \A s \in S : Ordered(w, s)
  OBVIOUS
<1> HIDE DEF N, F, S
<1>8. PICK g : IsRun(g, S, <<>>, N, F)
  BY <1>1, <1>2, <1>4, Iterates
<1>9. Eqn(g)
  <2>1. ASSUME NEW n \in 1 .. N
        PROVE  g[n] = Popped(w, g[n - 1])
    <3>1. g[n - 1] \in S
      BY <1>1, <1>8 DEF IsRun
    <3> QED
      BY <1>5, <1>8, <3>1 DEF IsRun
  <2>2. ASSUME NEW n \in 0 .. N
        PROVE  g[n] = IF n = 0 THEN <<>> ELSE Popped(w, g[n - 1])
    <3>1. n = 0 \/ n \in 1 .. N
      BY <1>1
    <3> QED
      BY <1>8, <2>1, <3>1 DEF IsRun
  <2>3. g = [n \in 0 .. N |-> IF n = 0 THEN <<>> ELSE Popped(w, g[n - 1])]
    BY <1>8, <2>2 DEF IsRun
  <2> QED
    BY <2>3, Zenon DEF Popped
<1>10. Eqn(popped)
  <2> HIDE DEF Eqn
  <2> QED
    BY <1>9
<1> HIDE DEF popped
<1>11. popped = [n \in 0 .. N |-> IF n = 0 THEN <<>> ELSE Popped(w, popped[n - 1])]
  BY <1>10, Zenon DEF Popped
<1> HIDE DEF Eqn
<1>12. popped[0] = <<>> /\ \A n \in 1 .. N : popped[n] = Popped(w, popped[n - 1])
  BY <1>1, <1>11
<1> DEFINE Fine(n) == popped[n] \in S /\ (Len(popped[n]) = n \/ Queue(w, popped[n]) = {})
           T == {n \in 0 .. N : Fine(n)}
<1>13. Fine(0)
  BY <1>2, <1>12, EmptySeq
<1>14. ASSUME NEW n \in 1 .. N, Fine(n - 1)
       PROVE  Fine(n)
  <2>1. popped[n - 1] \in S /\ (Len(popped[n - 1]) = n - 1 \/ Queue(w, popped[n - 1]) = {})
    BY <1>14
  <2>2. popped[n] = Popped(w, popped[n - 1]) /\ popped[n] \in S
    BY <1>3, <1>12, <2>1
  <2>3. CASE Queue(w, popped[n - 1]) = {}
    BY <2>1, <2>2, <2>3 DEF Popped
  <2>4. CASE Queue(w, popped[n - 1]) /= {}
    <3>1. popped[n] = Append(popped[n - 1], Min(Queue(w, popped[n - 1])))
      BY <2>2, <2>4 DEF Popped
    <3>2. Min(Queue(w, popped[n - 1])) \in DOMAIN w /\ popped[n - 1] \in Seq(DOMAIN w)
      BY <1>7, <2>1, <2>4, PopOne
    <3>3. Len(popped[n]) = n
      BY <2>1, <2>4, <3>1, <3>2, AppendProperties
    <3> QED
      BY <2>2, <3>3
  <2> QED
    BY <2>3, <2>4
<1> HIDE DEF Fine
<1>15. 0 \in T /\ \A n \in 1 .. N : n - 1 \in T => n \in T
  BY <1>1, <1>13, <1>14
<1>16. Fine(N)
  <2>1. 0 .. N \subseteq T
    <3> HIDE DEF T
    <3> QED
      BY <1>1, <1>15, UpTo
  <2> QED
    BY <1>1, <2>1
<1> QED
  BY <1>6, <1>7, <1>16 DEF Fine, N

(* No job comes before one that it needs.                                   *)
LEMMA OrderedMeansBefore ==
    ASSUME NEW w, NEW s, Ordered(w, s), NEW i \in 1 .. Len(s), NEW j \in 1 .. Len(s),
           s[j] \in w[s[i]].needs
    PROVE  j < i
<1>1. PICK k \in 1 .. i - 1 : s[k] = s[j]
  BY DEF Ordered
<1>2. Len(s) \in Nat
  BY LenProperties DEF Ordered
<1>3. k \in 1 .. Len(s)
  BY <1>2
<1>4. k = j
  BY <1>1, <1>3 DEF Ordered
<1> QED
  BY <1>2, <1>4

-----------------------------------------------------------------------------
(* Statuses *)

Closed(needs) == \A k \in DOMAIN needs : needs[k] \subseteq DOMAIN needs

(* What a refresh finds: who runs or has run has all it needs behind it,    *)
(* and who is blocked has a reason.                                         *)
Touched(needs, status) ==
    /\ status \in [DOMAIN needs -> Statuses]
    /\ \A k \in DOMAIN needs : \A n \in needs[k] :
          status[k] \in {"Running", "Succeeded"} => status[n] \in {"Succeeded", "Failed"}
    /\ \A k \in DOMAIN needs : status[k] = "Blocked" =>
          \E n \in needs[k] : status[n] \in {"Failed", "Blocked"}

(* What it leaves: besides, nobody is ready early, or pending for nothing.  *)
Lawful(needs, status) ==
    /\ Touched(needs, status)
    /\ \A k \in DOMAIN needs : \A n \in needs[k] :
          status[k] = "Ready" => status[n] = "Succeeded"
    /\ \A k \in DOMAIN needs : status[k] = "Pending" =>
          \E n \in needs[k] : status[n] /= "Succeeded"

Sims(needs) ==
    {s \in [needs : {needs}, status : [DOMAIN needs -> Statuses], finished : BOOLEAN] :
        Lawful(needs, s.status)}

(* One status after a refresh.                                              *)
LEMMA RefreshedAt ==
    ASSUME NEW needs, NEW status \in [DOMAIN needs -> Statuses], NEW k \in DOMAIN needs
    PROVE  /\ Refreshed(needs, status)[k] \in Statuses
           /\ status[k] \in {"Succeeded", "Failed", "Running"} => Refreshed(needs, status)[k] = status[k]
           /\ status[k] \notin {"Succeeded", "Failed", "Running"} =>
                 /\ (\E n \in needs[k] : status[n] \in {"Failed", "Blocked"})
                        => Refreshed(needs, status)[k] = "Blocked"
                 /\ ~(\E n \in needs[k] : status[n] \in {"Failed", "Blocked"})
                    /\ (\E n \in needs[k] : status[n] /= "Succeeded")
                        => Refreshed(needs, status)[k] = "Pending"
                 /\ (\A n \in needs[k] : status[n] = "Succeeded")
                        => Refreshed(needs, status)[k] = "Ready"
  BY DEF Refreshed, Statuses

(* The refresh puts all statuses right.                                     *)
LEMMA RefreshIsLawful ==
    ASSUME NEW needs, Closed(needs), NEW status, Touched(needs, status)
    PROVE  Lawful(needs, Refreshed(needs, status))
<1> DEFINE r == Refreshed(needs, status)
<1>1. status \in [DOMAIN needs -> Statuses]
  BY DEF Touched
<1>2. r \in [DOMAIN needs -> Statuses]
  BY <1>1, RefreshedAt DEF Refreshed
<1>3. ASSUME NEW k \in DOMAIN needs
      PROVE  /\ status[k] \in {"Succeeded", "Failed", "Running"} <=> r[k] \in {"Succeeded", "Failed", "Running"}
             /\ status[k] \in {"Succeeded", "Failed", "Running"} => r[k] = status[k]
             /\ r[k] = "Blocked" <=> /\ status[k] \notin {"Succeeded", "Failed", "Running"}
                                     /\ \E n \in needs[k] : status[n] \in {"Failed", "Blocked"}
             /\ r[k] = "Pending" => \E n \in needs[k] : status[n] /= "Succeeded"
             /\ r[k] = "Ready" => \A n \in needs[k] : status[n] = "Succeeded"
  BY <1>1, RefreshedAt
<1> HIDE DEF r
<1>4. \A k \in DOMAIN needs : needs[k] \subseteq DOMAIN needs
  BY DEF Closed
<1>5. ASSUME NEW k \in DOMAIN needs, NEW n \in needs[k]
      PROVE  /\ r[k] \in {"Running", "Succeeded"} => r[n] \in {"Succeeded", "Failed"}
             /\ r[k] = "Ready" => r[n] = "Succeeded"
  <2>1. n \in DOMAIN needs
    BY <1>4
  <2>2. status[k] \in {"Running", "Succeeded"} => status[n] \in {"Succeeded", "Failed"}
    BY DEF Touched
  <2> QED
    BY <1>3, <2>1, <2>2
<1>6. ASSUME NEW k \in DOMAIN needs, r[k] = "Blocked"
      PROVE  \E n \in needs[k] : r[n] \in {"Failed", "Blocked"}
  <2>1. PICK n \in needs[k] : status[n] \in {"Failed", "Blocked"}
    BY <1>3, <1>6
  <2>2. n \in DOMAIN needs
    BY <1>4
  <2>3. CASE status[n] = "Failed"
    BY <1>3, <2>2, <2>3
  <2>4. CASE status[n] = "Blocked"
    BY <1>3, <2>2, <2>4 DEF Touched
  <2> QED
    BY <2>1, <2>3, <2>4
<1>7. ASSUME NEW k \in DOMAIN needs, r[k] = "Pending"
      PROVE  \E n \in needs[k] : r[n] /= "Succeeded"
  <2>1. PICK n \in needs[k] : status[n] /= "Succeeded"
    BY <1>3, <1>7
  <2>2. n \in DOMAIN needs
    BY <1>4
  <2> QED
    BY <1>3, <2>1, <2>2
<1> QED
  BY <1>2, <1>5, <1>6, <1>7 DEF Lawful, Touched, r

(* A new simulation. *)
LEMMA FreshIsLawful ==
    ASSUME NEW needs, Closed(needs)
    PROVE  Fresh(needs) \in Sims(needs)
<1> DEFINE p == [k \in DOMAIN needs |-> "Pending"]
<1>1. Touched(needs, p)
  BY DEF Touched, Statuses
<1>2. Lawful(needs, Refreshed(needs, p))
  BY <1>1, RefreshIsLawful
<1> HIDE DEF p
<1>3. Refreshed(needs, p) \in [DOMAIN needs -> Statuses]
  BY <1>2 DEF Lawful, Touched
<1> QED
  BY <1>2, <1>3 DEF Fresh, Sims, p

(* Every way to end with a refresh.                                         *)
LEMMA SettledIsLawful ==
    ASSUME NEW needs, Closed(needs), NEW s \in Sims(needs), NEW status, Touched(needs, status)
    PROVE  /\ Settled(s, status) \in Sims(needs)
           /\ Settled(s, status).status = Refreshed(needs, status)
           /\ Settled(s, status).finished = IsFinished(Refreshed(needs, status))
<1> DEFINE r == Refreshed(needs, status)
<1>1. s \in [needs : {needs}, status : [DOMAIN needs -> Statuses], finished : BOOLEAN]
  BY DEF Sims
<1>2. Lawful(needs, r)
  BY RefreshIsLawful
<1>3. r \in [DOMAIN needs -> Statuses]
  BY <1>2 DEF Lawful, Touched
<1>4. Settled(s, status) = [s EXCEPT !.status = r, !.finished = IsFinished(r)]
  BY <1>1 DEF Settled
<1>5. IsFinished(r) \in BOOLEAN
  BY DEF IsFinished
<1> HIDE DEF r
<1>6. /\ Settled(s, status) \in [needs : {needs}, status : [DOMAIN needs -> Statuses], finished : BOOLEAN]
      /\ Settled(s, status).status = r /\ Settled(s, status).finished = IsFinished(r)
  BY <1>1, <1>3, <1>4, <1>5
<1> QED
  BY <1>2, <1>6 DEF Sims, r

(* mark_failed. *)
LEMMA MarkFailedIsLawful ==
    ASSUME NEW needs, Closed(needs), NEW s \in Sims(needs), NEW key
    PROVE  MarkFailed(s, key) \in Sims(needs)
<1> DEFINE t == [s.status EXCEPT ![key] = "Failed"]
<1>1. Lawful(needs, s.status) /\ s.status \in [DOMAIN needs -> Statuses]
  BY DEF Sims
<1>2. t \in [DOMAIN needs -> Statuses] /\ \A k \in DOMAIN needs : t[k] = s.status[k] \/ t[k] = "Failed"
  BY <1>1 DEF Statuses
<1> HIDE DEF t
<1>3. Touched(needs, t)
  <2>1. ASSUME NEW k \in DOMAIN needs, NEW n \in needs[k], t[k] \in {"Running", "Succeeded"}
        PROVE  t[n] \in {"Succeeded", "Failed"}
    BY <1>1, <1>2, <2>1 DEF Lawful, Touched, Closed
  <2>2. ASSUME NEW k \in DOMAIN needs, t[k] = "Blocked"
        PROVE  \E n \in needs[k] : t[n] \in {"Failed", "Blocked"}
    <3>1. PICK n \in needs[k] : s.status[n] \in {"Failed", "Blocked"}
      BY <1>1, <1>2, <2>2 DEF Lawful, Touched
    <3> QED
      BY <1>2, <3>1 DEF Closed
  <2> QED
    BY <1>2, <2>1, <2>2 DEF Touched
<1> QED
  BY <1>3, SettledIsLawful DEF MarkFailed, t

(* step(). *)
LEMMA StepIsLawful ==
    ASSUME NEW needs, Closed(needs), NEW s \in Sims(needs)
    PROVE  Step(s) \in [sim : Sims(needs), ok : BOOLEAN]
<1>1. /\ s \in [needs : {needs}, status : [DOMAIN needs -> Statuses], finished : BOOLEAN]
      /\ Lawful(needs, s.status)
  BY DEF Sims
<1>2. CASE s.finished
  BY <1>2 DEF Step
<1>3. CASE ~s.finished /\ Having(s, "Ready") /= {}
  <2> DEFINE t == [k \in DOMAIN s.status |-> IF s.status[k] = "Ready" THEN "Running" ELSE s.status[k]]
  <2>1. /\ t \in [DOMAIN needs -> Statuses]
        /\ \A k \in DOMAIN needs : t[k] = IF s.status[k] = "Ready" THEN "Running" ELSE s.status[k]
    BY <1>1 DEF Statuses
  <2>2. Step(s) = [sim |-> [s EXCEPT !.status = t], ok |-> TRUE]
    BY <1>3 DEF Step
  <2> HIDE DEF t
  <2>3. ASSUME NEW k \in DOMAIN needs, NEW n \in needs[k]
        PROVE  /\ t[k] \in {"Running", "Succeeded"} => t[n] \in {"Succeeded", "Failed"}
               /\ t[k] /= "Ready"
    BY <1>1, <2>1 DEF Lawful, Touched, Closed
  <2>4. ASSUME NEW k \in DOMAIN needs, t[k] = "Blocked"
        PROVE  \E n \in needs[k] : t[n] \in {"Failed", "Blocked"}
    <3>1. PICK n \in needs[k] : s.status[n] \in {"Failed", "Blocked"}
      BY <1>1, <2>1, <2>4 DEF Lawful, Touched
    <3> QED
      BY <2>1, <3>1 DEF Closed
  <2>5. ASSUME NEW k \in DOMAIN needs, t[k] = "Pending"
        PROVE  \E n \in needs[k] : t[n] /= "Succeeded"
    <3>1. PICK n \in needs[k] : s.status[n] /= "Succeeded"
      BY <1>1, <2>1, <2>5 DEF Lawful
    <3> QED
      BY <2>1, <3>1 DEF Closed
  <2>6. Lawful(needs, t)
    BY <2>1, <2>3, <2>4, <2>5 DEF Lawful, Touched
  <2>7. [s EXCEPT !.status = t] \in Sims(needs)
    BY <1>1, <2>1, <2>6 DEF Sims
  <2> QED
    BY <2>2, <2>7
<1>4. CASE ~s.finished /\ Having(s, "Ready") = {}
  <2> DEFINE t == [k \in DOMAIN s.status |-> IF s.status[k] = "Running" THEN "Succeeded" ELSE s.status[k]]
  <2>1. /\ t \in [DOMAIN needs -> Statuses]
        /\ \A k \in DOMAIN needs : t[k] = IF s.status[k] = "Running" THEN "Succeeded" ELSE s.status[k]
    BY <1>1 DEF Statuses
  <2>2. Step(s) = [sim |-> Settled(s, t), ok |-> Having(s, "Running") /= {} \/ Settled(s, t).finished]
    BY <1>4 DEF Step
  <2> HIDE DEF t
  <2>3. Touched(needs, t)
    <3>1. ASSUME NEW k \in DOMAIN needs, NEW n \in needs[k], t[k] \in {"Running", "Succeeded"}
          PROVE  t[n] \in {"Succeeded", "Failed"}
      BY <1>1, <2>1, <3>1 DEF Lawful, Touched, Closed
    <3>2. ASSUME NEW k \in DOMAIN needs, t[k] = "Blocked"
          PROVE  \E n \in needs[k] : t[n] \in {"Failed", "Blocked"}
      <4>1. PICK n \in needs[k] : s.status[n] \in {"Failed", "Blocked"}
        BY <1>1, <2>1, <3>2 DEF Lawful, Touched
      <4> QED
        BY <2>1, <4>1 DEF Closed
    <3> QED
      BY <2>1, <3>1, <3>2 DEF Touched
  <2>4. Settled(s, t) \in Sims(needs)
    BY <2>3, SettledIsLawful
  <2>5. (Having(s, "Running") /= {} \/ Settled(s, t).finished) \in BOOLEAN
    BY <2>4 DEF Sims
  <2> QED
    BY <2>2, <2>4, <2>5
<1> QED
  BY <1>2, <1>3, <1>4

(* play_all(): its turns are steps.                                         *)
LEMMA PlayAllIsLawful ==
    ASSUME NEW needs, Closed(needs), IsFiniteSet(DOMAIN needs), NEW s \in Sims(needs)
    PROVE  PlayAll(s).sim \in Sims(needs)
<1> DEFINE N == Budget(s) + 1
           S == [sim : Sims(needs), ok : BOOLEAN]
           Turn(b) == IF b.sim.finished \/ ~b.ok THEN b ELSE Step(b.sim)
           F == [p \in (1 .. N) \X S |-> Turn(p[2])]
           Eqn(f) == f = [n \in 0 .. N |->
                IF n = 0 THEN [sim |-> s, ok |-> TRUE]
                ELSE LET before == f[n - 1]
                     IN  IF before.sim.finished \/ ~before.ok THEN before ELSE Step(before.sim)]
           played == CHOOSE f : Eqn(f)
<1>1. N \in Nat
  <2>1. DOMAIN s.status = DOMAIN needs
    BY DEF Sims
  <2> QED
    BY <2>1, FS_CardinalityType DEF Budget
<1>2. [sim |-> s, ok |-> TRUE] \in S
  OBVIOUS
<1>3. \A b \in S : Turn(b) \in S
  BY StepIsLawful
<1>4. F \in [(1 .. N) \X S -> S]
  <2> HIDE DEF Turn, S
  <2> QED
    BY <1>3
<1>5. \A n \in 1 .. N, b \in S : F[<<n, b>>] = Turn(b)
  <2> HIDE DEF Turn, S
  <2> QED
    OBVIOUS
<1>6. PlayAll(s) = played[N]
  BY DEF PlayAll
<1>7. \A b \in S : b.sim \in Sims(needs)
  OBVIOUS
<1> HIDE DEF N, F, S
<1>8. PICK g : IsRun(g, S, [sim |-> s, ok |-> TRUE], N, F)
  BY <1>1, <1>2, <1>4, Iterates
<1>9. Eqn(g)
  <2> HIDE DEF Turn
  <2>1. ASSUME NEW n \in 1 .. N
        PROVE  g[n] = Turn(g[n - 1])
    <3>1. g[n - 1] \in S
      BY <1>1, <1>8 DEF IsRun
    <3> QED
      BY <1>5, <1>8, <3>1 DEF IsRun
  <2>2. ASSUME NEW n \in 0 .. N
        PROVE  g[n] = IF n = 0 THEN [sim |-> s, ok |-> TRUE] ELSE Turn(g[n - 1])
    <3>1. n = 0 \/ n \in 1 .. N
      BY <1>1
    <3> QED
      BY <1>8, <2>1, <3>1 DEF IsRun
  <2>3. g = [n \in 0 .. N |-> IF n = 0 THEN [sim |-> s, ok |-> TRUE] ELSE Turn(g[n - 1])]
    BY <1>8, <2>2 DEF IsRun
  <2> QED
    BY <2>3, Zenon DEF Turn
<1>10. Eqn(played)
  <2> HIDE DEF Eqn
  <2> QED
    BY <1>9
<1> HIDE DEF played
<1>11. played = [n \in 0 .. N |-> IF n = 0 THEN [sim |-> s, ok |-> TRUE] ELSE Turn(played[n - 1])]
  BY <1>10, Zenon DEF Turn
<1> HIDE DEF Eqn, Turn
<1>12. played[0] = [sim |-> s, ok |-> TRUE] /\ \A n \in 1 .. N : played[n] = Turn(played[n - 1])
  <2> DEFINE first == [sim |-> s, ok |-> TRUE]
  <2>1. played = [n \in 0 .. N |-> IF n = 0 THEN first ELSE Turn(played[n - 1])]
    BY <1>11, Zenon
  <2> HIDE DEF first
  <2>2. played[0] = first
    BY <1>1, <2>1
  <2>3. ASSUME NEW n \in 1 .. N
        PROVE  played[n] = Turn(played[n - 1])
    <3>1. n \in 0 .. N /\ n /= 0
      BY <1>1
    <3>2. played[n] = IF n = 0 THEN first ELSE Turn(played[n - 1])
      BY <2>1, <3>1, Zenon
    <3> QED
      BY <3>1, <3>2
  <2> QED
    BY <2>2, <2>3 DEF first
<1> DEFINE T == {n \in 0 .. N : played[n] \in S}
<1>13. 0 \in T /\ \A n \in 1 .. N : n - 1 \in T => n \in T
  BY <1>1, <1>2, <1>3, <1>12
<1>14. N \in T
  <2> HIDE DEF T
  <2> QED
    BY <1>1, <1>13, UpTo
<1> QED
  BY <1>6, <1>7, <1>14

(* "Fail selected": leg by leg.                                             *)
LEMMA FailJobIsLawful ==
    ASSUME NEW needs, Closed(needs), IsFiniteSet(DOMAIN needs), NEW s \in Sims(needs), NEW j
    PROVE  FailJob(s, j) \in Sims(needs)
<1> DEFINE legs == {k[2] : k \in {k \in DOMAIN s.status : k[1] = j}}
           N == Cardinality(legs)
           S == Sims(needs)
           F == [p \in (1 .. N) \X S |-> MarkFailed(p[2], <<j, p[1]>>)]
           Eqn(f) == f = [n \in 0 .. N |-> IF n = 0 THEN s ELSE MarkFailed(f[n - 1], <<j, n>>)]
           failed == CHOOSE f : Eqn(f)
<1>1. N \in Nat
  <2> DEFINE own == {k \in DOMAIN s.status : k[1] = j}
             leg == [k \in own |-> k[2]]
  <2>1. own \subseteq DOMAIN needs
    BY DEF Sims
  <2>2. IsFiniteSet(own)
    BY <2>1, FS_Subset
  <2>3. leg \in Surjection(own, legs)
    BY DEF Surjection
  <2> HIDE DEF leg, own
  <2>4. IsFiniteSet(legs)
    BY <2>2, <2>3, FS_Surjection
  <2> QED
    BY <2>4, FS_CardinalityType
<1>2. FailJob(s, j) = failed[N]
  BY DEF FailJob
<1> HIDE DEF N, legs
<1>3. \A n \in 1 .. N, b \in S : MarkFailed(b, <<j, n>>) \in S
  BY MarkFailedIsLawful
<1> HIDE DEF S
<1>4. F \in [(1 .. N) \X S -> S]
  BY <1>3
<1>5. \A n \in 1 .. N, b \in S : F[<<n, b>>] = MarkFailed(b, <<j, n>>)
  OBVIOUS
<1>6. s \in S
  BY DEF S
<1> HIDE DEF F
<1>7. PICK g : IsRun(g, S, s, N, F)
  BY <1>1, <1>4, <1>6, Iterates
<1>8. Eqn(g)
  <2>1. ASSUME NEW n \in 1 .. N
        PROVE  g[n] = MarkFailed(g[n - 1], <<j, n>>)
    <3>1. g[n - 1] \in S
      BY <1>1, <1>7 DEF IsRun
    <3> QED
      BY <1>5, <1>7, <3>1 DEF IsRun
  <2>2. ASSUME NEW n \in 0 .. N
        PROVE  g[n] = IF n = 0 THEN s ELSE MarkFailed(g[n - 1], <<j, n>>)
    <3>1. n = 0 \/ n \in 1 .. N
      BY <1>1
    <3> QED
      BY <1>7, <2>1, <3>1 DEF IsRun
  <2> QED
    BY <1>7, <2>2 DEF IsRun
<1>9. Eqn(failed)
  <2> HIDE DEF Eqn
  <2> QED
    BY <1>8
<1> HIDE DEF failed
<1>10. failed[0] = s /\ \A n \in 1 .. N : failed[n] = MarkFailed(failed[n - 1], <<j, n>>)
  BY <1>1, <1>9
<1> HIDE DEF Eqn
<1> DEFINE T == {n \in 0 .. N : failed[n] \in S}
<1>11. 0 \in T /\ \A n \in 1 .. N : n - 1 \in T => n \in T
  <2>1. 0 \in T
    BY <1>1, <1>6, <1>10
  <2>2. ASSUME NEW n \in 1 .. N, n - 1 \in T
        PROVE  n \in T
    <3>1. failed[n - 1] \in S /\ n \in 0 .. N
      BY <1>1, <2>2
    <3>2. failed[n] \in S
      BY <1>3, <1>10, <3>1
    <3> QED
      BY <3>1, <3>2
  <2> QED
    BY <2>1, <2>2
<1>12. N \in T
  <2> HIDE DEF T
  <2> QED
    BY <1>1, <1>11, UpTo
<1> QED
  BY <1>2, <1>12 DEF S

-----------------------------------------------------------------------------
(* The simulation of a workflow *)

(* Its jobs are finitely many, and need one another.                        *)
LEMMA NeedsAreClosed ==
    ASSUME NEW w, IsFiniteSet(DOMAIN w), \A j \in DOMAIN w : w[j].legs \in Nat,
           \A j \in DOMAIN w : w[j].needs \subseteq DOMAIN w
    PROVE  /\ Closed(Needs(w)) /\ DOMAIN Needs(w) = Keys(w) /\ IsFiniteSet(Keys(w))
<1>1. DOMAIN Needs(w) = Keys(w)
  BY DEF Needs
<1>2. Closed(Needs(w))
  <2>1. ASSUME NEW k \in Keys(w), NEW n \in Needs(w)[k]
        PROVE  n \in Keys(w)
    <3>1. PICK j \in DOMAIN w : k \in Legs(w, j)
      BY DEF Keys
    <3>2. k[1] = j
      BY <3>1 DEF Legs
    <3>3. PICK i \in w[j].needs : n \in Legs(w, i)
      BY <2>1, <3>2 DEF Needs
    <3> QED
      BY <3>3 DEF Keys
  <2> QED
    BY <1>1, <2>1 DEF Closed
<1>3. IsFiniteSet(Keys(w))
  <2> DEFINE all == {Legs(w, j) : j \in DOMAIN w}
             of == [j \in DOMAIN w |-> Legs(w, j)]
  <2>1. of \in Surjection(DOMAIN w, all)
    BY DEF Surjection
  <2>2. IsFiniteSet(all)
    <3> HIDE DEF of, all
    <3> QED
      BY <2>1, FS_Surjection
  <2>3. \A j \in DOMAIN w : IsFiniteSet(Legs(w, j))
    <3> SUFFICES ASSUME NEW j \in DOMAIN w PROVE IsFiniteSet(Legs(w, j))
      OBVIOUS
    <3>1. IsFiniteSet({j}) /\ IsFiniteSet(1 .. w[j].legs)
      <4>1. 1 \in Int /\ w[j].legs \in Int
        OBVIOUS
      <4> QED
        BY <4>1, FS_Singleton, FS_Interval
    <3> QED
      BY <3>1, FS_Product DEF Legs
  <2>4. \A L \in all : IsFiniteSet(L)
    BY <2>3
  <2> HIDE DEF all
  <2>5. IsFiniteSet(UNION all)
    BY <2>2, <2>4, FS_UNION
  <2> QED
    BY <2>5 DEF Keys, all
<1> QED
  BY <1>1, <1>2, <1>3
=============================================================================
