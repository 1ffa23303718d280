----------------------------- MODULE CausalOps ------------------------------
(***************************************************************************)
(* What the replicated buffer promises about the delivery of operations,   *)
(* with no version vectors and no queue: a replica has a set of applied    *)
(* operations, makes an operation on top of it, and takes in operations of *)
(* others in groups that leave no gap.                                     *)
(***************************************************************************)
CONSTANT Replicas

VARIABLES
    applied,  \* applied[r]: the operations in the buffer of r
    made      \* made[t]: what the author of t had applied before it made t

vars == <<applied, made>>

Init ==
    /\ applied = [r \in Replicas |-> {}]
    /\ made = [t \in {} |-> {}]

Make(r, t) ==
    /\ t \notin DOMAIN made
    /\ made' = [u \in DOMAIN made \cup {t} |-> IF u = t THEN applied[r] ELSE made[u]]
    /\ applied' = [applied EXCEPT ![r] = @ \cup {t}]

TakeIn(r, group) ==
    /\ \A t \in group : made[t] \subseteq applied[r] \cup group
    /\ applied' = [applied EXCEPT ![r] = @ \cup group]
    /\ UNCHANGED made

Next ==
    \E r \in Replicas :
       \/ \E t \in DOMAIN made' : Make(r, t)
       \/ \E group \in SUBSET (DOMAIN made \ applied[r]) : TakeIn(r, group)

Spec == Init /\ [][Next]_vars
=============================================================================
