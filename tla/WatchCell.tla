----------------------------- MODULE WatchCell -----------------------------
(***************************************************************************)
(* What crates/watch/src/watch.rs promises to its users, without locks,    *)
(* wakers or an executor: one side publishes versions and may close, each  *)
(* receiver knows the version it has last seen, and one that waits is told *)
(* of a newer version or, once it has seen the last, of the close.         *)
(***************************************************************************)
EXTENDS Naturals

CONSTANT Receivers

VARIABLES
    version,   \* the version last published
    closed,    \* the publisher is gone
    at,        \* at[r]: "absent", "idle" or "waiting"
    seen       \* seen[r]: the version that receiver r has seen

cellVars == <<version, closed, at, seen>>

CellInit ==
    /\ version = 0
    /\ closed = FALSE
    /\ at \in [Receivers -> {"absent", "idle"}]
    /\ seen = [r \in Receivers |-> 0]

Publish ==
    /\ ~closed
    /\ version' = version + 1
    /\ UNCHANGED <<closed, at, seen>>

Close ==
    /\ ~closed
    /\ closed' = TRUE
    /\ UNCHANGED <<version, at, seen>>

Move(r, from, to) == at[r] = from /\ at' = [at EXCEPT ![r] = to]

(* A new receiver has seen what its origin had, or what is there now.       *)
Join(r) ==
    /\ Move(r, "absent", "idle")
    /\ \E v \in 0 .. version : seen' = [seen EXCEPT ![r] = v]
    /\ UNCHANGED <<version, closed>>

Leave(r) == Move(r, "idle", "absent") /\ UNCHANGED <<version, closed, seen>>

Wait(r) == Move(r, "idle", "waiting") /\ UNCHANGED <<version, closed, seen>>

GiveUp(r) == Move(r, "waiting", "idle") /\ UNCHANGED <<version, closed, seen>>

Look(r) ==
    /\ at[r] = "idle"
    /\ seen' = [seen EXCEPT ![r] = version]
    /\ UNCHANGED <<version, closed, at>>

Notice(r) ==
    /\ Move(r, "waiting", "idle")
    /\ seen[r] /= version
    /\ seen' = [seen EXCEPT ![r] = version]
    /\ UNCHANGED <<version, closed>>

NoticeClose(r) ==
    /\ Move(r, "waiting", "idle")
    /\ seen[r] = version
    /\ closed
    /\ UNCHANGED <<version, closed, seen>>

CellNext ==
    \/ Publish \/ Close
    \/ \E r \in Receivers : \/ Join(r) \/ Leave(r) \/ Look(r) \/ Wait(r)
                             \/ GiveUp(r) \/ Notice(r) \/ NoticeClose(r)

CellSafety == CellInit /\ [][CellNext]_cellVars

CellSpec ==
    /\ CellSafety
    /\ \A r \in Receivers : WF_cellVars(Notice(r) \/ NoticeClose(r))
=============================================================================
