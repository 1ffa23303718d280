------------------------- MODULE WorkflowSimulation -------------------------
(***************************************************************************)
(* The dry run of a workflow's jobs: crates/ama10/src/workflow_simulate.rs *)
(* and the job order of workflow.rs it starts from.  A workflow is a       *)
(* function from job ids, numbered in their sorted order, to the ids that  *)
(* the job needs and the number of legs its matrix expands to.             *)
(*                                                                         *)
(* A simulation has a job for every leg: what it needs, its status, and    *)
(* the flag finished.                                                      *)
(***************************************************************************)
EXTENDS Naturals, Sequences, SequencesExt, FiniteSets, FiniteSetsExt

Statuses == {"Pending", "Ready", "Running", "Succeeded", "Failed", "Blocked"}
Terminal == {"Succeeded", "Failed", "Blocked"}

-----------------------------------------------------------------------------
(* Workflow::job_order. *)

(* The queue: the jobs that have not left it and whose needs have.          *)
Queue(w, left) == {j \in DOMAIN w \ ToSet(left) : w[j].needs \subseteq ToSet(left)}

(* The jobs as they leave the queue, which is kept sorted.                  *)
Sorted(w) ==
    LET popped[n \in 0 .. Cardinality(DOMAIN w)] ==
            IF n = 0 THEN <<>>
            ELSE LET left == popped[n - 1]
                 IN  IF Queue(w, left) = {} THEN left ELSE Append(left, Min(Queue(w, left)))
    IN  popped[Cardinality(DOMAIN w)]

(* Mutant: jobs on a cycle are left out without a word.                     *)
HasJobOrderAlways(w) == \A j \in DOMAIN w : w[j].needs \subseteq DOMAIN w

(* job_order succeeds: the needs are known and no job was left over.        *)
HasJobOrder(w) ==
    /\ \A j \in DOMAIN w : w[j].needs \subseteq DOMAIN w
    /\ Len(Sorted(w)) = Cardinality(DOMAIN w)

(* Workflow::validate, without what is about the steps of a single job.     *)
IsValid(w) == DOMAIN w /= {} /\ HasJobOrder(w)

-----------------------------------------------------------------------------
Legs(w, j) == {j} \X (1 .. w[j].legs)

IsFinished(status) == \A k \in DOMAIN status : status[k] \in Terminal

(* Mutant: only a failed job blocks.                                        *)
RefreshedNarrowly(needs, status) ==
    [k \in DOMAIN status |->
        IF status[k] \in {"Succeeded", "Failed", "Running"} THEN status[k]
        ELSE IF \E n \in needs[k] : status[n] = "Failed" THEN "Blocked"
        ELSE IF \E n \in needs[k] : status[n] /= "Succeeded" THEN "Pending"
        ELSE "Ready"]

(* refresh_ready, which looks at the statuses as they were before it began. *)
Refreshed(needs, status) ==
    [k \in DOMAIN status |->
        IF status[k] \in {"Succeeded", "Failed", "Running"} THEN status[k]
        ELSE IF \E n \in needs[k] : status[n] \in {"Failed", "Blocked"} THEN "Blocked"
        ELSE IF \E n \in needs[k] : status[n] /= "Succeeded" THEN "Pending"
        ELSE "Ready"]

Keys(w) == UNION {Legs(w, j) : j \in DOMAIN w}

(* Whoever needs a job waits for all of its legs.                           *)
Needs(w) == [k \in Keys(w) |-> UNION {Legs(w, n) : n \in w[k[1]].needs}]

(* WorkflowSimulation::from_workflow, and reset, which comes to the same.   *)
Fresh(needs) ==
    [needs |-> needs,
     status |-> Refreshed(needs, [k \in DOMAIN needs |-> "Pending"]),
     finished |-> FALSE]

FromWorkflow(w) == Fresh(Needs(w))

Settled(s, status) ==
    [s EXCEPT !.status = Refreshed(s.needs, status),
              !.finished = IsFinished(Refreshed(s.needs, status))]

MarkFailed(s, key) == Settled(s, [s.status EXCEPT ![key] = "Failed"])

(* "Fail selected": mark_failed for every leg of the job, one by one.       *)
FailJob(s, j) ==
    LET legs == {k[2] : k \in {k \in DOMAIN s.status : k[1] = j}}
        failed[n \in 0 .. Cardinality(legs)] ==
            IF n = 0 THEN s ELSE MarkFailed(failed[n - 1], <<j, n>>)
    IN  failed[Cardinality(legs)]

Having(s, status) == {k \in DOMAIN s.status : s.status[k] = status}

(* step(): start what is ready; if nothing is, complete what runs.  It      *)
(* fails ("simulation stalled") when there was nothing to complete either.  *)
Step(s) ==
    IF s.finished THEN [sim |-> s, ok |-> TRUE]
    ELSE IF Having(s, "Ready") /= {}
      THEN [sim |-> [s EXCEPT !.status = [k \in DOMAIN s.status |->
                                IF s.status[k] = "Ready" THEN "Running" ELSE s.status[k]]],
            ok  |-> TRUE]
    ELSE LET after == Settled(s, [k \in DOMAIN s.status |->
                                IF s.status[k] = "Running" THEN "Succeeded" ELSE s.status[k]])
         IN  [sim |-> after, ok |-> Having(s, "Running") /= {} \/ after.finished]

Budget(s) == 4 * Cardinality(DOMAIN s.status) + 8

(* play_all(): steps until one fails, or all is finished, or the budget is  *)
(* spent.                                                                   *)
PlayAll(s) ==
    LET played[n \in 0 .. Budget(s) + 1] ==
            IF n = 0 THEN [sim |-> s, ok |-> TRUE]
            ELSE LET before == played[n - 1]
                 IN  IF before.sim.finished \/ ~before.ok THEN before ELSE Step(before.sim)
    IN  played[Budget(s) + 1]
=============================================================================
