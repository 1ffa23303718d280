---------------------------- MODULE WorkflowView ----------------------------
(***************************************************************************)
(* The workflow editor, crates/ama10-ui/src/workflow_view.rs: one workflow *)
(* shown as a graph, as YAML or as a simulation, and its file, which other *)
(* programs write too.                                                     *)
(*                                                                         *)
(* A handler is one step, except around its accesses to the file: another  *)
(* program may write between the reading of a file and of its mtime, and   *)
(* between the check for a conflict, the write and the reading of the new  *)
(* mtime.  A text is the workflow it parses to, or Broken.                 *)
(*                                                                         *)
(* Every write of a file is assumed to change its mtime: a write within    *)
(* the resolution of the clock, or one that puts the old mtime back, is    *)
(* invisible to disk_state_conflicts and is not modelled.                  *)
(***************************************************************************)
EXTENDS WorkflowSimulation

CONSTANTS
    Paths,       \* workflow files
    MaxJob,      \* job ids are 1 .. MaxJob (a bound)
    Texts,       \* what other programs write, and users type
    Seed,        \* Workflow::default_ci_seed()
    Broken,      \* a text that is no workflow
    Absent,      \* no such file
    NoSim,       \* simulation is None
    MaxEdits,    \* edits of the user (a bound)
    MaxFailed,   \* jobs that the user fails in one simulation (a bound)
    MaxForeign   \* writes of other programs (a bound)

IsWorkflow(w) ==
    /\ DOMAIN w \subseteq 1 .. MaxJob
    /\ w \in [DOMAIN w -> [needs : SUBSET (1 .. MaxJob), legs : Nat]]
IsText(t) == t = Broken \/ IsWorkflow(t)

ASSUME SeedAssumption == IsWorkflow(Seed) /\ IsValid(Seed)
ASSUME TextsAssumption == \A t \in Texts : IsText(t)
ASSUME BoundsAssumption == MaxJob \in Nat /\ MaxEdits \in Nat
                           /\ MaxFailed \in Nat /\ MaxForeign \in Nat

NoPath == "no path"
NoJob == 0

VARIABLES
    mode,       \* "Flow", "Yaml" or "Simulate"
    workflow,   \* the workflow
    text,       \* what the YAML editor holds
    selected,   \* selected_job, or NoJob
    simulation, \* the simulation, or NoSim
    dirty,      \* the tab shows "Unsaved"
    path,       \* workflow_path, or NoPath
    baseline,   \* disk_mtime: "absent", "current" (that of the file now) or "old"
    busy,       \* the handler that is under way, and what it has read
    disk,       \* disk[p]: a text, or Absent
    unseen,     \* history: foreign contents the view has not read: "no", "yes",
                \* or "raced", written while a handler was under way
    edits,      \* how many edits were made
    foreign     \* how many foreign writes

viewVars == <<mode, workflow, text, selected, simulation, dirty>>
fileVars == <<path, baseline, busy, disk, unseen, foreign>>
vars == <<viewVars, fileVars, edits>>

Idle == [op |-> "none"]
Loading(p, t) == [op |-> "load", path |-> p, text |-> t]
Saving(op, p) == [op |-> op, path |-> p]

(* WorkflowView::new: the seed, or the first file there is.                 *)
Init ==
    /\ mode = "Flow"
    /\ workflow = Seed
    /\ text = Seed
    /\ selected = NoJob
    /\ simulation = NoSim
    /\ dirty = FALSE
    /\ path = NoPath
    /\ baseline = "absent"
    /\ \/ /\ disk = [p \in Paths |-> Absent]
          /\ busy = Idle
       \/ \E p \in Paths, t \in Texts :
             /\ disk = [q \in Paths |-> IF q = p THEN t ELSE Absent]
             /\ busy = Loading(p, t)
    /\ unseen = [p \in Paths |-> "no"]
    /\ edits = 0
    /\ foreign = 0

-----------------------------------------------------------------------------
Parses(t) == t /= Broken /\ IsValid(t)

(* Mutant: the selection stays.                                             *)
ApplyKeepingSelection(w) ==
    /\ workflow' = w
    /\ simulation' = NoSim
    /\ UNCHANGED selected

(* apply_workflow: the simulation goes, and the selection if its job went.  *)
Apply(w) ==
    /\ workflow' = w
    /\ simulation' = NoSim
    /\ selected' = IF selected \in DOMAIN w THEN selected ELSE NoJob

(* set_editor_text.  The buffer's Edited event is delivered when the        *)
(* handler is over, syncing_yaml is FALSE again and nobody can tell the     *)
(* event from typing: dirty ends TRUE, whatever the handler made of it.     *)
SetEditorText(t) == text' = t /\ dirty' = TRUE

(* Mutant: the simulation of before the edit stays.                         *)
InvalidateSimulationLater(w) == UNCHANGED simulation

(* invalidate_simulation, after an edit that made w of the workflow.        *)
InvalidateSimulation(w) ==
    /\ simulation' = IF mode = "Simulate" /\ HasJobOrder(w) THEN FromWorkflow(w) ELSE NoSim

(* set_mode, from YAML: the text must parse first.                          *)
LeaveYaml(m) ==
    /\ busy = Idle
    /\ mode = "Yaml" /\ m /= "Yaml"
    /\ Parses(text)
    /\ workflow' = text
    /\ selected' = IF selected \in DOMAIN text THEN selected ELSE NoJob
    /\ simulation' = IF m = "Simulate" THEN FromWorkflow(text) ELSE NoSim
    /\ SetEditorText(text)
    /\ mode' = m
    /\ UNCHANGED <<fileVars, edits>>

(* set_mode, from the other modes: the text follows the workflow.           *)
SetMode(m) ==
    /\ busy = Idle
    /\ mode /= "Yaml" /\ m /= mode
    /\ SetEditorText(workflow)
    /\ simulation' = IF m = "Simulate" THEN FromWorkflow(workflow) ELSE simulation
    /\ mode' = m
    /\ UNCHANGED <<workflow, selected, fileVars, edits>>

-----------------------------------------------------------------------------
(* Editing. *)

Editing == busy = Idle /\ edits < MaxEdits /\ edits' = edits + 1

(* The user types.                                                          *)
EditYaml(t) ==
    /\ Editing
    /\ mode = "Yaml"
    /\ SetEditorText(t)
    /\ UNCHANGED <<mode, workflow, selected, simulation, fileVars>>

Select(j) ==
    /\ busy = Idle
    /\ mode /= "Yaml"
    /\ j \in DOMAIN workflow
    /\ selected' = j
    /\ UNCHANGED <<mode, workflow, text, simulation, dirty, fileVars, edits>>

Edited(w) ==
    /\ workflow' = w
    /\ InvalidateSimulation(w)
    /\ dirty' = TRUE
    /\ UNCHANGED <<mode, text, fileVars>>

(* add_job: "job_{n}" with the first n from the number of jobs on.          *)
AddJob ==
    /\ Editing
    /\ mode /= "Yaml"
    /\ \E j \in Cardinality(DOMAIN workflow) + 1 .. MaxJob :
          /\ j \notin DOMAIN workflow
          /\ \A i \in Cardinality(DOMAIN workflow) + 1 .. j - 1 : i \in DOMAIN workflow
          /\ Edited([i \in DOMAIN workflow \union {j} |->
                        IF i = j THEN [needs |-> {}, legs |-> 1] ELSE workflow[i]])
          /\ selected' = j

(* Mutant: the removed job stays in what others need.                       *)
WithoutJobOnly(w, j) == [i \in DOMAIN w \ {j} |-> w[i]]

WithoutJob(w, j) == [i \in DOMAIN w \ {j} |-> [w[i] EXCEPT !.needs = @ \ {j}]]

(* remove_selected_job: the job, and the needs that named it.               *)
RemoveSelectedJob ==
    /\ Editing
    /\ mode /= "Yaml"
    /\ selected /= NoJob
    /\ Edited(WithoutJob(workflow, selected))
    /\ selected' = NoJob

Toggled(w, j, n) ==
    [w EXCEPT ![j].needs = IF n \in @ THEN @ \ {n} ELSE @ \union {n}]

(* toggle_need: kept if the jobs can still be put in an order, and reverted *)
(* otherwise.                                                               *)
ToggleNeed(n) ==
    /\ Editing
    /\ mode /= "Yaml"
    /\ selected \in DOMAIN workflow
    /\ n \in DOMAIN workflow \ {selected}
    /\ HasJobOrder(Toggled(workflow, selected, n))
    /\ Edited(Toggled(workflow, selected, n))
    /\ UNCHANGED selected

-----------------------------------------------------------------------------
(* The buttons of the simulation. *)

Simulating == busy = Idle /\ mode = "Simulate" /\ simulation /= NoSim

Show(s) ==
    /\ simulation' = s
    /\ UNCHANGED <<mode, workflow, text, selected, dirty, fileVars, edits>>

(* Whether they succeed or report an error, the simulation is where they    *)
(* have left it.                                                            *)
SimStep == Simulating /\ Show(Step(simulation).sim)

SimPlayAll == Simulating /\ Show(PlayAll(simulation).sim)

SimReset == Simulating /\ Show(Fresh(simulation.needs))

FailSelected ==
    /\ Simulating
    /\ selected /= NoJob
    /\ Cardinality({k[1] : k \in Having(simulation, "Failed")} \ {selected}) < MaxFailed
    /\ Show(FailJob(simulation, selected))

-----------------------------------------------------------------------------
(* The file. *)

(* probe_file_mtime(p).ok().flatten(): None, here "absent", also when the   *)
(* metadata of a file that is there cannot be read.                         *)
Probed(p) == {"absent"} \union (IF disk[p] = Absent THEN {} ELSE {"current"})

(* load_path, first: read the file.                                         *)
LoadRead(p) ==
    /\ busy = Idle
    /\ disk[p] /= Absent
    /\ busy' = Loading(p, disk[p])
    /\ unseen' = [unseen EXCEPT ![p] = "no"]
    /\ UNCHANGED <<viewVars, path, baseline, disk, foreign, edits>>

(* Then its mtime, and show the workflow, or the text that does not parse.  *)
LoadShow ==
    /\ busy.op = "load"
    /\ busy' = Idle
    /\ path' = busy.path
    /\ SetEditorText(busy.text)
    /\ IF Parses(busy.text)
         THEN /\ Apply(busy.text)
              /\ baseline' \in Probed(busy.path)
              /\ UNCHANGED mode
         ELSE /\ mode' = "Yaml"
              /\ \E m \in Probed(busy.path) :
                    baseline' = IF m = "current" THEN m
                                ELSE IF path /= busy.path /\ baseline = "current" THEN "old"
                                ELSE baseline
              /\ UNCHANGED <<workflow, simulation, selected>>
    /\ UNCHANGED <<disk, unseen, foreign, edits>>

NewPath == {p \in Paths : disk[p] = Absent}

(* create_new: the seed, under a name that no file has.                     *)
CreateNew ==
    /\ busy = Idle
    /\ Apply(Seed)
    /\ SetEditorText(Seed)
    /\ path' \in IF NewPath = {} THEN {NoPath} ELSE NewPath
    /\ baseline' = "absent"
    /\ mode' = "Flow"
    /\ UNCHANGED <<busy, disk, unseen, foreign, edits>>

(* Mutant: only a file that has disappeared is a conflict.                  *)
ConflictsWhenGone(p) == baseline /= "absent" /\ disk[p] = Absent

(* disk_state_conflicts: the mtime is not the one we know.                  *)
Conflicts(p) ==
    IF baseline = "absent" THEN disk[p] /= Absent ELSE baseline = "old"

(* save_to_disk, first: sync_from_active_mode, choose the path, compare.    *)
(* It also ends here when the directory cannot be made or the mtime cannot  *)
(* be read.                                                                 *)
SaveCheck ==
    /\ busy = Idle
    /\ mode = "Yaml" => Parses(text)
    /\ IF mode = "Yaml"
         THEN Apply(text) /\ SetEditorText(text)
         ELSE /\ SetEditorText(workflow)
              /\ UNCHANGED <<workflow, simulation, selected>>
    /\ \E p \in IF path = NoPath THEN NewPath ELSE {path} :
          busy' \in {Idle} \union (IF Conflicts(p) THEN {} ELSE {Saving("write", p)})
    /\ UNCHANGED <<mode, path, baseline, disk, unseen, foreign, edits>>

(* Then write_workflow_atomic, which replaces the file by a rename.         *)
SaveWrite ==
    /\ busy.op = "write"
    /\ disk' = [disk EXCEPT ![busy.path] = workflow]
    /\ unseen' = [unseen EXCEPT ![busy.path] = "no"]
    /\ busy' = Saving("probe", busy.path)
    /\ baseline' = IF path = busy.path /\ baseline = "current" THEN "old" ELSE baseline
    /\ UNCHANGED <<viewVars, path, foreign, edits>>

(* Or it fails, and the file is what it was.                                *)
SaveFails ==
    /\ busy.op = "write"
    /\ busy' = Idle
    /\ UNCHANGED <<viewVars, path, baseline, disk, unseen, foreign, edits>>

(* On Windows replace_file first moves the file aside; when the new one     *)
(* cannot take its place and the old one cannot be put back, it is gone.    *)
SaveLosesFile ==
    /\ busy.op = "write"
    /\ disk[busy.path] /= Absent
    /\ disk' = [disk EXCEPT ![busy.path] = Absent]
    /\ unseen' = [unseen EXCEPT ![busy.path] = "no"]
    /\ busy' = Idle
    /\ baseline' = IF path = busy.path /\ baseline = "current" THEN "old" ELSE baseline
    /\ UNCHANGED <<viewVars, path, foreign, edits>>

(* Then read the mtime that the file has now.                               *)
SaveProbe ==
    /\ busy.op = "probe"
    /\ busy' = Idle
    /\ path' = busy.path
    /\ baseline' \in Probed(busy.path)
    /\ UNCHANGED <<viewVars, disk, unseen, foreign, edits>>

(* Another program writes or removes a file.                                *)
ForeignWrite(p, t) ==
    /\ foreign < MaxForeign
    /\ foreign' = foreign + 1
    /\ disk[p] /= Absent \/ t /= Absent
    /\ disk' = [disk EXCEPT ![p] = t]
    /\ unseen' = [unseen EXCEPT ![p] =
                     IF t = Absent THEN "no" ELSE IF busy = Idle THEN "yes" ELSE "raced"]
    /\ baseline' = IF p = path /\ baseline = "current" THEN "old" ELSE baseline
    /\ UNCHANGED <<viewVars, path, busy, edits>>

Next ==
    \/ \E m \in {"Flow", "Yaml", "Simulate"} : LeaveYaml(m) \/ SetMode(m)
    \/ \E t \in Texts : EditYaml(t)
    \/ \E j \in 1 .. MaxJob : Select(j) \/ ToggleNeed(j)
    \/ AddJob \/ RemoveSelectedJob
    \/ SimStep \/ SimPlayAll \/ SimReset \/ FailSelected
    \/ \E p \in Paths : \/ LoadRead(p)
                         \/ \E t \in Texts \union {Absent} : ForeignWrite(p, t)
    \/ LoadShow \/ CreateNew \/ SaveCheck \/ SaveWrite \/ SaveFails \/ SaveLosesFile
    \/ SaveProbe

Spec == Init /\ [][Next]_vars

-----------------------------------------------------------------------------
(* Types of what the view holds.                                            *)
TypeOK ==
    /\ mode \in {"Flow", "Yaml", "Simulate"}
    /\ selected \in DOMAIN workflow \union {NoJob}
    /\ path \in Paths \union {NoPath}
    /\ baseline \in {"absent", "current", "old"}
    /\ \A p \in Paths : unseen[p] \in {"no", "yes", "raced"}
    /\ simulation /= NoSim => \A k \in DOMAIN simulation.status :
                                  simulation.status[k] \in Statuses

(* The reference for job_order: some jobs all need one another.             *)
Cyclic(w) ==
    \E S \in SUBSET DOMAIN w : S /= {} /\ \A j \in S : w[j].needs \intersect S /= {}

Variants ==
    {workflow} \union {Toggled(workflow, j, n) : j \in {selected} \ {NoJob}, n \in DOMAIN workflow}

(* job_order finds an order exactly when there is no cycle, and then no job *)
(* comes before one that it needs: for the workflow and for all that a      *)
(* toggle in the selected job, itself included, could make of it.  (It does *)
(* not depend on the simulation, and is looked at where there is none.)     *)
OrderIsRight ==
    simulation = NoSim => \A w \in Variants :
        LET order == Sorted(w)
        IN  /\ HasJobOrder(w) <=> ~Cyclic(w)
            /\ \A i, j \in 1 .. Len(order) : order[j] \in w[order[i]].needs => j < i

(* No edit, and no sequence of loads, mode changes and edits, makes a       *)
(* workflow with a cycle or with a need that nobody meets.                  *)
WorkflowStaysSound ==
    ~Cyclic(workflow) /\ \A j \in DOMAIN workflow : workflow[j].needs \subseteq DOMAIN workflow

(* The simulation is one of the workflow that is shown, and it respects the *)
(* needs of its jobs: none starts before all that it needs are over, and a  *)
(* ready one has only successes behind it, whenever the user fails what and *)
(* however the workflow changes meanwhile.                                  *)
NothingRunsEarly ==
    simulation /= NoSim =>
        /\ simulation.needs = Needs(workflow)
        /\ \A k \in DOMAIN simulation.status : \A n \in simulation.needs[k] :
            /\ simulation.status[k] = "Ready" => simulation.status[n] = "Succeeded"
            /\ simulation.status[k] \in {"Running", "Succeeded"} =>
                   simulation.status[n] \in {"Succeeded", "Failed"}

(* How far the jobs have come, 3 for each that is over.                     *)
Progress(s) ==
    LET among(S) == Cardinality({k \in DOMAIN s.status : s.status[k] \in S})
    IN  among({"Ready"}) + 2 * among({"Running"}) + 3 * among(Terminal)

(* Every step brings some job on and none back, so that stepping comes to   *)
(* an end within the budget of play_all, and then finished says so.  Also   *)
(* a step that reports "simulation stalled" does: it fails only while a     *)
(* failure is still on its way to jobs that will never run.                 *)
EveryStepCounts ==
    simulation /= NoSim /\ ~simulation.finished =>
        LET after == Step(simulation)
        IN  /\ after.sim.finished \/ Progress(after.sim) > Progress(simulation)
            /\ ~after.ok => Having(simulation, "Failed") /= {}
            /\ after.sim.finished => IsFinished(after.sim.status)

(* A save never overwrites what another program wrote since the view last   *)
(* read the file, nor loses it when it fails, unless that write happened    *)
(* while a load or a save was under way.                                    *)
ForeignKept == [][busy.op = "write" /\ disk' /= disk /\ foreign' = foreign
                    => unseen[busy.path] /= "yes"]_vars
=============================================================================
