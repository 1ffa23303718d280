------------------------- MODULE RemoteClientProofs -------------------------
(***************************************************************************)
(* Proofs about RemoteClient, for every MaxMissed and MaxAttempts.         *)
(***************************************************************************)
EXTENDS RemoteClient, TLAPS

-----------------------------------------------------------------------------
(* The inductive invariant.  The properties speak of the state and of its  *)
(* tasks; what makes them inductive is who may be doing what in each phase *)
(* of the client's life.                                                   *)

(* Before `new` returns nothing else has begun. *)
SetupInv ==
    /\ setup /= "done" =>
          attempt = "none" /\ closing = "no" /\ heartbeat = "none"
    /\ setup = "waiting" => state = "Connecting" /\ monitor = "none"
    /\ setup = "pinging" => state \in {"Connecting", "ServerNotRunning"}
    /\ setup = "failed" => state = "None" /\ monitor = "none"
    /\ setup = "done" => state /= "Connecting"

(* An attempt runs exactly on behalf of a state that is not connected. *)
AttemptInv ==
    /\ attempt /= "none" => state \in {"Reconnecting", "ServerNotRunning", "None"}
    /\ state = "Reconnecting" => attempt /= "none"
    /\ attempt = "connected" => heartbeat /= "pinging" /\ missed = 0

(* After the client was closed no connection comes back. *)
ClosingInv ==
    /\ closing /= "no" => state \in {"None", "ServerNotRunning"}
    /\ closing = "holding" => attempt = "none"

(* A terminal state has no monitor, and no attempt that could start one. *)
TerminalInv ==
    /\ state = "ReconnectExhausted" => monitor = "none" /\ setup = "done"
    /\ state = "ServerNotRunning" =>
          monitor = "none" /\ attempt \notin {"killing", "connecting"}

MissedInv ==
    /\ heartbeat /= "none" => missed < MaxMissed

IInv ==
    /\ TypeOK /\ TasksOwned /\ MissedAgrees
    /\ SetupInv /\ AttemptInv /\ ClosingInv /\ TerminalInv /\ MissedInv

(* The flags stay Boolean.                                                 *)
LEMMA StepKeepsFlags == FlagsOK /\ [Next]_vars => FlagsOK'
<1> SUFFICES ASSUME FlagsOK, [Next]_vars PROVE FlagsOK'
    OBVIOUS
<1> USE DEF FlagsOK, taskVars, envVars
<1>1. CASE NetDies
    BY <1>1, Zenon DEF NetDies
<1>2. CASE ServerStops
    BY <1>2, Zenon DEF ServerStops
<1>3. CASE ProxyExits
    BY <1>3, Zenon DEF ProxyExits
<1>4. CASE MessageArrives
    BY <1>4, Zenon DEF MessageArrives
<1>5. CASE AnswerArrives
    BY <1>5, Zenon DEF AnswerArrives
<1>6. CASE RemoteStarted
    BY <1>6, Zenon DEF RemoteStarted
<1>7. CASE NewConnected
    BY <1>7, Zenon DEF NewConnected
<1>8. CASE NewFails
    BY <1>8, Zenon DEF NewFails
<1>9. CASE HeartbeatActivity
    BY <1>9, Zenon DEF HeartbeatActivity, HandleHeartbeatResult, StartAttempt
<1>10. CASE HeartbeatStops
    BY <1>10, Zenon DEF HeartbeatStops
<1>11. CASE HeartbeatPing
    BY <1>11, Zenon DEF HeartbeatPing
<1>12. CASE HeartbeatAnswered
    BY <1>12, Zenon DEF HeartbeatAnswered, HandleHeartbeatResult, StartAttempt
<1>13. CASE HeartbeatTimeout
    BY <1>13, Zenon DEF HeartbeatTimeout, HandleHeartbeatResult, StartAttempt
<1>14. CASE MonitorServerNotRunning
    BY <1>14, Zenon DEF MonitorServerNotRunning
<1>15. CASE MonitorProxyExited
    BY <1>15, Zenon DEF MonitorProxyExited, StartAttempt
<1>16. CASE KillConnection
    BY <1>16, Zenon DEF KillConnection
<1>17. CASE Connect
    BY <1>17, Zenon DEF Connect
<1>18. CASE ResyncDone
    BY <1>18, Zenon DEF ResyncDone
<1>19. CASE ResyncTimeout
    BY <1>19, Zenon DEF ResyncTimeout
<1>20. CASE ApplyResult
    BY <1>20, Zenon DEF ApplyResult, StartAttempt
<1>21. CASE ShutdownEnds
    BY <1>21, Zenon DEF ShutdownEnds
<1>22. CASE ShutdownProcesses
    BY <1>22, Zenon DEF ShutdownProcesses
<1>23. CASE ForceDisconnect
    BY <1>23, Zenon DEF ForceDisconnect
<1>24. CASE ForceHeartbeatTimeout
    BY <1>24, Zenon DEF ForceHeartbeatTimeout, StartAttempt
<1>25. CASE UNCHANGED vars
    BY <1>25, Zenon DEF vars
<1> QED
    BY <1>1, <1>2, <1>3, <1>4, <1>5, <1>6, <1>7, <1>8, <1>9, <1>10, <1>11,
        <1>12, <1>13, <1>14, <1>15, <1>16, <1>17, <1>18, <1>19, <1>20, <1>21,
        <1>22, <1>23, <1>24, <1>25
    DEF Next, Environment, Tasks, Application

(* Every step of the client keeps the invariant.                           *)
LEMMA StepKeepsIInv == IInv /\ [Next]_vars => IInv'
<1> SUFFICES ASSUME IInv, [Next]_vars PROVE IInv'
    OBVIOUS
<1> DEFINE Rest == /\ StatesOK /\ TasksOwned /\ MissedAgrees
                   /\ SetupInv /\ AttemptInv /\ ClosingInv /\ TerminalInv /\ MissedInv
<1>0. FlagsOK' 
    BY StepKeepsFlags DEF IInv, TypeOK
<1>a. Rest
    BY DEF IInv, TypeOK
<1> USE LimitsAssumption DEF StatesOK, Tags, Live, TasksOwned, MissedAgrees,
        SetupInv, AttemptInv, ClosingInv, TerminalInv, MissedInv, taskVars, envVars
<1>1. ASSUME NetDies PROVE Rest'
    BY <1>1, <1>a DEF NetDies
<1>2. ASSUME ServerStops PROVE Rest'
    BY <1>2, <1>a DEF ServerStops
<1>3. ASSUME ProxyExits PROVE Rest'
    BY <1>3, <1>a DEF ProxyExits
<1>4. ASSUME MessageArrives PROVE Rest'
    BY <1>4, <1>a DEF MessageArrives
<1>5. ASSUME AnswerArrives PROVE Rest'
    BY <1>5, <1>a DEF AnswerArrives
<1>6. ASSUME RemoteStarted PROVE Rest'
    BY <1>6, <1>a DEF RemoteStarted
<1>7. ASSUME NewConnected PROVE Rest'
    BY <1>7, <1>a DEF NewConnected
<1>8. ASSUME NewFails PROVE Rest'
    BY <1>8, <1>a DEF NewFails, DropTasks
<1>9. ASSUME HeartbeatActivity PROVE Rest'
    BY <1>9, <1>a DEF HeartbeatActivity, HandleHeartbeatResult, StartAttempt, SetState, DropTasks
<1>10. ASSUME HeartbeatStops PROVE Rest'
    BY <1>10, <1>a DEF HeartbeatStops, Closed
<1>11. ASSUME HeartbeatPing PROVE Rest'
    BY <1>11, <1>a DEF HeartbeatPing, Closed
<1>12. ASSUME HeartbeatAnswered PROVE Rest'
    BY <1>12, <1>a DEF HeartbeatAnswered, HandleHeartbeatResult, StartAttempt, SetState, DropTasks, Closed
<1>13. ASSUME HeartbeatTimeout PROVE Rest'
    BY <1>13, <1>a DEF HeartbeatTimeout, HandleHeartbeatResult, StartAttempt, SetState, DropTasks, Closed
<1>14. ASSUME MonitorServerNotRunning PROVE Rest'
    BY <1>14, <1>a DEF MonitorServerNotRunning, SetState
<1>15. ASSUME MonitorProxyExited PROVE Rest'
    BY <1>15, <1>a DEF MonitorProxyExited, StartAttempt, SetState, DropTasks
<1>16. ASSUME KillConnection PROVE Rest'
    BY <1>16, <1>a DEF KillConnection
<1>17. ASSUME Connect PROVE Rest'
    BY <1>17, <1>a DEF Connect
<1>18. ASSUME ResyncDone PROVE Rest'
    BY <1>18, <1>a DEF ResyncDone
<1>19. ASSUME ResyncTimeout PROVE Rest'
    BY <1>19, <1>a DEF ResyncTimeout, DropTasks
<1>20. ASSUME ApplyResult PROVE Rest'
    BY <1>20, <1>a DEF ApplyResult, StartAttempt, SetState, DropTasks, KeepTasks
<1>21. ASSUME ShutdownEnds PROVE Rest'
    BY <1>21, <1>a DEF ShutdownEnds, DropTasks
<1>22. ASSUME ShutdownProcesses PROVE Rest'
    BY <1>22, <1>a DEF ShutdownProcesses, DropTasks, KeepTasks
<1>23. ASSUME ForceDisconnect PROVE Rest'
    BY <1>23, <1>a DEF ForceDisconnect
<1>24. ASSUME ForceHeartbeatTimeout PROVE Rest'
    BY <1>24, <1>a DEF ForceHeartbeatTimeout, StartAttempt, SetState, DropTasks, KeepTasks
<1>25. ASSUME UNCHANGED vars PROVE Rest'
    BY <1>25, <1>a DEF vars
<1> QED
    BY <1>0, <1>1, <1>2, <1>3, <1>4, <1>5, <1>6, <1>7, <1>8, <1>9, <1>10,
        <1>11, <1>12, <1>13, <1>14, <1>15, <1>16, <1>17, <1>18, <1>19, <1>20,
        <1>21, <1>22, <1>23, <1>24, <1>25
    DEF IInv, TypeOK, Next, Environment, Tasks, Application

(* The initial state satisfies the invariant.                              *)
LEMMA InitIInv == Init => IInv
<1> SUFFICES ASSUME Init PROVE IInv
    OBVIOUS
<1>1. FlagsOK
    BY Zenon DEF Init, FlagsOK
<1>2. StatesOK
    BY LimitsAssumption DEF Init, StatesOK, Tags
<1>3. TasksOwned /\ MissedAgrees /\ SetupInv /\ AttemptInv /\ ClosingInv
        /\ TerminalInv /\ MissedInv
    BY DEF Init, TasksOwned, MissedAgrees, SetupInv, AttemptInv, ClosingInv,
           TerminalInv, MissedInv
<1> QED
    BY <1>1, <1>2, <1>3 DEF IInv, TypeOK

(* The invariant holds in every reachable state.                           *)
THEOREM Invariance == Spec => []IInv
<1>1. Init => IInv
    BY InitIInv
<1>2. IInv /\ [Next]_vars => IInv'
    BY StepKeepsIInv
<1> QED
    BY <1>1, <1>2, PTL DEF Spec

(* The client's state is well typed, and neither the missed heartbeats nor *)
(* the reconnection attempts exceed their limits.                          *)
THEOREM TypeCorrect == Spec => []TypeOK
<1>1. IInv => TypeOK
    BY DEF IInv
<1> QED
    BY <1>1, Invariance, PTL

(* No monitor and no heartbeat outlives the connection it was started for. *)
THEOREM OwnedTasks == Spec => []TasksOwned
<1>1. IInv => TasksOwned
    BY DEF IInv
<1> QED
    BY <1>1, Invariance, PTL

(* The state the user sees and the heartbeat task's count agree.           *)
THEOREM MissedInAgreement == Spec => []MissedAgrees
<1>1. IInv => MissedAgrees
    BY DEF IInv
<1> QED
    BY <1>1, Invariance, PTL

(* Once the attempts are exhausted the client stays disconnected: no task  *)
(* is left that could change the state.                                    *)
THEOREM ExhaustedForGood == Spec => ExhaustedIsFinal
<1>1. IInv /\ [Next]_vars =>
        [state = "ReconnectExhausted" => state' \in {"ReconnectExhausted", "None"}]_vars
  <2> SUFFICES ASSUME IInv, Next, state = "ReconnectExhausted",
                      state' \notin {"ReconnectExhausted", "None"}
               PROVE  FALSE
      BY DEF vars
  <2>1. /\ monitor = "none" /\ heartbeat = "none" /\ attempt = "none"
        /\ setup = "done" /\ closing = "no"
      BY DEF IInv, TypeOK, StatesOK, TasksOwned, AttemptInv, ClosingInv,
             TerminalInv, SetupInv, Live
  <2>2. CASE Environment
      BY <2>2 DEF Environment, NetDies, ServerStops, ProxyExits, MessageArrives,
             AnswerArrives
  <2>3. CASE Tasks
      BY <2>1, <2>3 DEF Tasks, RemoteStarted, NewConnected, NewFails,
             HeartbeatActivity, HeartbeatStops, HeartbeatPing, HeartbeatAnswered,
             HeartbeatTimeout, MonitorServerNotRunning, MonitorProxyExited,
             KillConnection, Connect, ResyncDone, ResyncTimeout, ApplyResult,
             ShutdownEnds
  <2>4. CASE Application
      BY <2>4 DEF Application, ShutdownProcesses, ForceDisconnect,
             ForceHeartbeatTimeout, Live
  <2> QED
      BY <2>2, <2>3, <2>4 DEF Next
<1> QED
    BY <1>1, Invariance, PTL DEF Spec, ExhaustedIsFinal

(* A client in a terminal state is not announced as disconnected again.    *)
THEOREM AnnouncedOnce == Spec => NotAnnouncedTwice
<1>1. IInv /\ [Next]_vars =>
        [emitted' > emitted /\ closing /= "holding" =>
            state \notin {"ReconnectExhausted", "ServerNotRunning"}]_vars
  <2> SUFFICES ASSUME IInv, Next, emitted' > emitted, closing /= "holding",
                      state \in {"ReconnectExhausted", "ServerNotRunning"}
               PROVE  FALSE
      BY DEF vars
  <2>1. /\ emitted \in Nat
        /\ monitor = "none" /\ (heartbeat = "none" \/ attempt = "connected")
        /\ attempt = "connected" => heartbeat /= "pinging" /\ missed = 0
      BY DEF IInv, TypeOK, StatesOK, TasksOwned, AttemptInv, TerminalInv, Live
  <2>2. CASE Environment
      BY <2>1, <2>2 DEF Environment, NetDies, ServerStops, ProxyExits,
             MessageArrives, AnswerArrives
  <2>3. CASE RemoteStarted \/ NewConnected \/ NewFails
      BY <2>1, <2>3 DEF RemoteStarted, NewConnected, NewFails
  <2>4. CASE HeartbeatActivity \/ HeartbeatStops \/ HeartbeatPing
             \/ HeartbeatAnswered \/ HeartbeatTimeout
      BY <2>1, <2>4 DEF HeartbeatActivity, HeartbeatStops, HeartbeatPing,
             HeartbeatAnswered, HeartbeatTimeout
  <2>5. CASE MonitorServerNotRunning \/ MonitorProxyExited
      BY <2>1, <2>5 DEF MonitorServerNotRunning, MonitorProxyExited
  <2>6. CASE KillConnection \/ Connect \/ ResyncDone \/ ResyncTimeout
             \/ ApplyResult \/ ShutdownEnds
      BY <2>1, <2>6 DEF KillConnection, Connect, ResyncDone, ResyncTimeout,
             ApplyResult, ShutdownEnds
  <2>7. CASE Application
      BY <2>1, <2>7 DEF Application, ShutdownProcesses, ForceDisconnect,
             ForceHeartbeatTimeout, Live
  <2> QED
      BY <2>2, <2>3, <2>4, <2>5, <2>6, <2>7 DEF Next, Tasks
<1> QED
    BY <1>1, Invariance, PTL DEF Spec, NotAnnouncedTwice

=============================================================================
