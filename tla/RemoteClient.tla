---------------------------- MODULE RemoteClient ----------------------------
(***************************************************************************)
(* The connection state machine of crates/remote/src/remote_client.rs:     *)
(* RemoteClient::new, the heartbeat task, the monitor of the proxy         *)
(* process, the reconnect task and its attempts, shutdown_processes and    *)
(* the two debugging actions force_disconnect and force_heartbeat_timeout. *)
(*                                                                         *)
(* Every task runs on the foreground thread, so the code between two       *)
(* awaits is one action; what the tasks wait for (the proxy process, the   *)
(* network, the server, timers) changes at any moment in between.          *)
(*                                                                         *)
(* A State value owns the monitor ("multiplex_task"), which owns the proxy *)
(* process, and the heartbeat task: dropping the value cancels all three.  *)
(***************************************************************************)
EXTENDS Naturals

CONSTANTS
    MaxMissed,    \* MAX_MISSED_HEARTBEATS
    MaxAttempts   \* MAX_RECONNECT_ATTEMPTS

ASSUME LimitsAssumption ==
    /\ MaxMissed \in Nat \ {0}
    /\ MaxAttempts \in Nat \ {0}

VARIABLES
    state,      \* RemoteClient::state; "None" when the Option is empty
    attempts,   \* the attempt that runs or has failed, 0 when there is none
    setup,      \* how far RemoteClient::new is
    attempt,    \* how far the reconnect task is, or its result
    answered,   \* the first ping, or the flush, has been answered
    proxy,      \* the proxy process: "none", "running", "exited", "notRunning"
    monitor,    \* the task that awaits the proxy's exit
    heartbeat,  \* the heartbeat task
    missed,     \* its local missed_heartbeats
    activity,   \* connection_activity_rx holds a token
    net,        \* whether bytes pass over the current connection
    server,     \* the server process runs
    closing,    \* shutdown_processes: "no", "holding" the tasks 50 ms, "closed"
    emitted,    \* how often Disconnected was emitted
    panicked    \* handle_heartbeat_result found no state

taskVars == <<proxy, monitor, heartbeat, missed>>
envVars == <<net, server>>
vars == <<state, attempts, setup, attempt, answered, taskVars, activity,
          envVars, closing, emitted, panicked>>

Tags == {"None", "Connecting", "Connected", "HeartbeatMissed", "Reconnecting",
         "ReconnectExhausted", "ServerNotRunning"}

Live == {"Connected", "HeartbeatMissed"}   \* the values that own tasks

Init ==
    /\ state = "Connecting" /\ attempts = 0
    /\ setup = "waiting" /\ attempt = "none" /\ answered = FALSE
    /\ proxy = "running" /\ monitor = "none"
    /\ heartbeat = "none" /\ missed = 0 /\ activity = FALSE
    /\ net = "up" /\ server = TRUE
    /\ closing = "no" /\ emitted = 0 /\ panicked = FALSE

-----------------------------------------------------------------------------
(* The helpers of RemoteClient. *)

(* set_state: the two terminal states are announced. *)
SetState(s) ==
    /\ state' = s
    /\ emitted' = IF s \in {"ReconnectExhausted", "ServerNotRunning"}
                  THEN emitted + 1 ELSE emitted

DropTasks ==
    /\ proxy' = "none" /\ monitor' = "none" /\ heartbeat' = "none" /\ missed' = 0

KeepTasks == UNCHANGED taskVars

(* Mutants of StartAttempt: one attempt too many, the old tasks stay, the   *)
(* attempts are not counted, and giving up starts another all the same.     *)
StartAttemptOneMore(done) ==
    /\ DropTasks
    /\ answered' = FALSE
    /\ SetState(IF done > MaxAttempts THEN "ReconnectExhausted" ELSE "Reconnecting")
    /\ attempts' = IF done > MaxAttempts THEN 0 ELSE done + 1
    /\ attempt' = IF done > MaxAttempts THEN "none" ELSE "killing"

StartAttemptKeepingTasks(done) ==
    /\ KeepTasks
    /\ answered' = FALSE
    /\ SetState(IF done + 1 > MaxAttempts THEN "ReconnectExhausted" ELSE "Reconnecting")
    /\ attempts' = IF done + 1 > MaxAttempts THEN 0 ELSE done + 1
    /\ attempt' = IF done + 1 > MaxAttempts THEN "none" ELSE "killing"

StartAttemptNoReturn(done) ==
    /\ DropTasks
    /\ answered' = FALSE
    /\ SetState(IF done + 1 > MaxAttempts THEN "ReconnectExhausted" ELSE "Reconnecting")
    /\ attempts' = IF done + 1 > MaxAttempts THEN 0 ELSE done + 1
    /\ attempt' = "killing"

(* reconnect(), called with `done` attempts behind it, from a state that    *)
(* can_reconnect: give up after MaxAttempts, or drop the tasks and start    *)
(* the next attempt.                                                        *)
StartAttempt(done) ==
    /\ DropTasks
    /\ answered' = FALSE
    /\ IF done + 1 > MaxAttempts
       THEN /\ SetState("ReconnectExhausted")
            /\ attempts' = 0 /\ attempt' = "none"
       ELSE /\ SetState("Reconnecting")
            /\ attempts' = done + 1 /\ attempt' = "killing"

-----------------------------------------------------------------------------
(* The environment. *)

(* Bytes stop passing and nobody is told.                                   *)
NetDies ==
    /\ net = "up" /\ proxy = "running"
    /\ net' = "silent"
    /\ UNCHANGED <<state, attempts, setup, attempt, answered, taskVars, activity,
                   server, closing, emitted, panicked>>

(* The server quits: a crash, its idle timeout, a shutdown request.         *)
ServerStops ==
    /\ server
    /\ server' = FALSE
    /\ UNCHANGED <<state, attempts, setup, attempt, answered, taskVars, activity,
                   net, closing, emitted, panicked>>

(* The proxy process ends.  With no server it says so by its exit code,     *)
(* unless the io task saw an error on a pipe first.                         *)
ProxyExits ==
    /\ proxy = "running"
    /\ \/ proxy' = "exited"
       \/ ~server /\ proxy' = "notRunning"
    /\ UNCHANGED <<state, attempts, setup, attempt, answered, monitor, heartbeat,
                   missed, activity, envVars, closing, emitted, panicked>>

(* A message, or a log line, of the server arrives: the pump leaves a token.*)
MessageArrives ==
    /\ proxy = "running" /\ net = "up" /\ server
    /\ activity' = TRUE
    /\ UNCHANGED <<state, attempts, setup, attempt, answered, taskVars, envVars,
                   closing, emitted, panicked>>

(* The answer to what `new` or resync is waiting for arrives.               *)
AnswerArrives ==
    /\ setup = "pinging" \/ attempt = "resyncing"
    /\ ~answered
    /\ proxy = "running" /\ net = "up" /\ server
    /\ answered' = TRUE
    /\ activity' = TRUE
    /\ UNCHANGED <<state, attempts, setup, attempt, taskVars, envVars, closing,
                   emitted, panicked>>

-----------------------------------------------------------------------------
(* RemoteClient::new. *)

(* RemoteStarted came in time: watch the proxy, then ping.                  *)
RemoteStarted ==
    /\ setup = "waiting" /\ proxy = "running" /\ net = "up" /\ server
    /\ setup' = "pinging"
    /\ monitor' = "watching"
    /\ UNCHANGED <<state, attempts, attempt, answered, proxy, heartbeat, missed,
                   activity, envVars, closing, emitted, panicked>>

(* The ping was answered: start the heartbeat and assign Connected over     *)
(* whatever the state is by now.                                            *)
NewConnected ==
    /\ setup = "pinging" /\ answered
    /\ setup' = "done"
    /\ state' = "Connected"
    /\ heartbeat' = "armed" /\ missed' = 0
    /\ answered' = FALSE
    /\ UNCHANGED <<attempts, attempt, proxy, monitor, activity, envVars, closing,
                   emitted, panicked>>

(* A timeout, the proxy's exit or the user's cancellation: `new` returns no *)
(* client and everything it holds is dropped.                               *)
NewFails ==
    /\ setup \in {"waiting", "pinging"}
    /\ setup' = "failed"
    /\ state' = "None"
    /\ DropTasks
    /\ UNCHANGED <<attempts, attempt, answered, activity, envVars, closing,
                   emitted, panicked>>

-----------------------------------------------------------------------------
(* The heartbeat task.  "armed" waits for activity or its timer, "disarmed" *)
(* for activity only, "pinging" for the answer to its ping.                 *)

Closed == proxy /= "running"   \* every sender of the activity channel is gone

(* Mutant: the timer is not set again after a missed heartbeat.             *)
HandleHeartbeatResultNoTimer(n) ==
    /\ UNCHANGED panicked
    /\ IF n >= MaxMissed /\ state \in Live
       THEN StartAttempt(0)
       ELSE /\ SetState(IF state \in Live
                        THEN IF n > 0 THEN "HeartbeatMissed" ELSE "Connected"
                        ELSE state)
            /\ heartbeat' = IF n >= MaxMissed THEN "none" ELSE "disarmed"
            /\ missed' = n
            /\ UNCHANGED <<attempts, attempt, answered, proxy, monitor>>

(* handle_heartbeat_result with n missed heartbeats, and what the loop does *)
(* after it: stop when it says Break, else the timer is set again.          *)
HandleHeartbeatResult(n) ==
    IF state = "None"
    THEN /\ panicked' = TRUE
         /\ heartbeat' = "none" /\ missed' = n
         /\ UNCHANGED <<state, attempts, attempt, answered, proxy, monitor, emitted>>
    ELSE /\ UNCHANGED panicked
         /\ IF n >= MaxMissed /\ state \in Live
            THEN StartAttempt(0)
            ELSE /\ SetState(IF state \in Live
                             THEN IF n > 0 THEN "HeartbeatMissed" ELSE "Connected"
                             ELSE state)
                 /\ heartbeat' = IF n >= MaxMissed THEN "none" ELSE "armed"
                 /\ missed' = n
                 /\ UNCHANGED <<attempts, attempt, answered, proxy, monitor>>

(* Mutant: the recovery is counted but not reported.                        *)
HeartbeatActivityUnreported ==
    /\ heartbeat \in {"armed", "disarmed"} /\ activity
    /\ activity' = FALSE
    /\ heartbeat' = "armed" /\ missed' = 0
    /\ UNCHANGED <<state, attempts, setup, attempt, answered, proxy, monitor,
                   envVars, closing, emitted, panicked>>

(* Activity outside a ping.                                                 *)
HeartbeatActivity ==
    /\ heartbeat \in {"armed", "disarmed"} /\ activity
    /\ activity' = FALSE
    /\ IF missed /= 0
       THEN HandleHeartbeatResult(0)
       ELSE /\ heartbeat' = "armed"
            /\ UNCHANGED <<state, attempts, attempt, answered, proxy, monitor,
                           missed, emitted, panicked>>
    /\ UNCHANGED <<setup, envVars, closing>>

(* The activity channel is closed: the task ends.                           *)
HeartbeatStops ==
    /\ heartbeat \in {"armed", "disarmed"} /\ ~activity /\ Closed
    /\ heartbeat' = "none"
    /\ UNCHANGED <<state, attempts, setup, attempt, answered, proxy, monitor,
                   missed, activity, envVars, closing, emitted, panicked>>

(* The keepalive timer fires: ping.  Intervals and timeouts are 5 s, so not *)
(* between a reconnect task's result and the task that applies it, and in   *)
(* the 50 ms of a shutdown only for an outcome that comes too late.         *)
HeartbeatPing ==
    /\ heartbeat = "armed" /\ ~activity /\ ~Closed
    /\ attempt /= "connected" /\ closing /= "holding"
    /\ heartbeat' = "pinging"
    /\ UNCHANGED <<state, attempts, setup, attempt, answered, proxy, monitor,
                   missed, activity, envVars, closing, emitted, panicked>>

(* Activity, or the end of the activity channel, counts as an answer.  With *)
(* no missed heartbeat to take back the loop continues without setting the  *)
(* timer again.                                                             *)
HeartbeatAnswered ==
    /\ heartbeat = "pinging" /\ (activity \/ Closed)
    /\ activity' = FALSE
    /\ IF missed /= 0
       THEN HandleHeartbeatResult(0)
       ELSE /\ heartbeat' = "disarmed"
            /\ UNCHANGED <<state, attempts, attempt, answered, proxy, monitor,
                           missed, emitted, panicked>>
    /\ UNCHANGED <<setup, envVars, closing>>

(* No answer within HEARTBEAT_TIMEOUT.                                      *)
HeartbeatTimeout ==
    /\ heartbeat = "pinging" /\ ~activity /\ ~Closed
    /\ HandleHeartbeatResult(missed + 1)
    /\ UNCHANGED <<setup, activity, envVars, closing>>

-----------------------------------------------------------------------------
(* The monitor: the proxy has exited. *)

(* Exit code ProxyLaunchError::ServerNotRunning: the state is replaced      *)
(* whatever it is, and the heartbeat of the value that is dropped with it.  *)
MonitorServerNotRunning ==
    /\ monitor = "watching" /\ proxy = "notRunning"
    /\ SetState("ServerNotRunning")
    /\ monitor' = "none"
    /\ heartbeat' = IF state \in Live THEN "none" ELSE heartbeat
    /\ missed' = IF state \in Live THEN 0 ELSE missed
    /\ UNCHANGED <<attempts, setup, attempt, answered, proxy, activity, envVars,
                   closing, panicked>>

(* Any other end: reconnect, which is refused (and the refusal ignored)     *)
(* unless the state owns a connection.                                      *)
MonitorProxyExited ==
    /\ monitor = "watching" /\ proxy = "exited"
    /\ IF state \in Live
       THEN StartAttempt(0)
       ELSE /\ monitor' = "none"
            /\ UNCHANGED <<state, attempts, attempt, answered, proxy, heartbeat,
                           missed, emitted>>
    /\ UNCHANGED <<setup, activity, envVars, closing, panicked>>

-----------------------------------------------------------------------------
(* The reconnect task. *)

(* remote_connection.kill().                                                *)
KillConnection ==
    /\ attempt = "killing"
    /\ attempt' \in {"connecting", "failed"}
    /\ UNCHANGED <<state, attempts, setup, answered, taskVars, activity, envVars,
                   closing, emitted, panicked>>

(* pool.connect and start_proxy on a new connection with new channels, then *)
(* the monitor and the flush of resync; or an error of the first two.       *)
Connect ==
    /\ attempt = "connecting"
    /\ \/ /\ attempt' = "resyncing"
          /\ proxy' = "running" /\ monitor' = "watching"
          /\ net' = "up" /\ activity' = FALSE
       \/ /\ attempt' = "failed"
          /\ UNCHANGED <<proxy, monitor, net, activity>>
    /\ UNCHANGED <<state, attempts, setup, answered, heartbeat, missed, server,
                   closing, emitted, panicked>>

(* resync succeeded: a Connected value with a new heartbeat is the result.  *)
ResyncDone ==
    /\ attempt = "resyncing" /\ answered
    /\ attempt' = "connected"
    /\ heartbeat' = "armed" /\ missed' = 0
    /\ answered' = FALSE
    /\ UNCHANGED <<state, attempts, setup, proxy, monitor, activity, envVars,
                   closing, emitted, panicked>>

(* resync timed out: its monitor, and with it its proxy, is dropped.        *)
ResyncTimeout ==
    /\ attempt = "resyncing"
    /\ attempt' = "failed"
    /\ answered' = FALSE
    /\ DropTasks
    /\ UNCHANGED <<state, attempts, setup, activity, envVars, closing,
                   emitted, panicked>>

(* Mutant: the result is applied whatever has become of the client.         *)
ApplyResultUnchecked ==
    /\ attempt \in {"connected", "failed"}
    /\ \/ /\ attempt = "connected"
          /\ state' = "Connected"
          /\ attempts' = 0 /\ attempt' = "none"
          /\ KeepTasks
          /\ UNCHANGED <<answered, emitted>>
       \/ /\ attempt = "failed"
          /\ StartAttempt(attempts)
    /\ UNCHANGED <<setup, activity, envVars, closing, panicked>>

(* The second task applies the result, to a client that still waits for it; *)
(* otherwise the result is dropped.  After a failure the next attempt       *)
(* starts in the same update.                                               *)
ApplyResult ==
    /\ attempt \in {"connected", "failed"}
    /\ \/ /\ state = "Reconnecting" /\ attempt = "connected"
          /\ state' = "Connected"
          /\ attempts' = 0 /\ attempt' = "none"
          /\ KeepTasks
          /\ UNCHANGED <<answered, emitted>>
       \/ /\ state = "Reconnecting" /\ attempt = "failed"
          /\ StartAttempt(attempts)
       \/ /\ state /= "Reconnecting"
          /\ attempts' = 0 /\ attempt' = "none"
          /\ DropTasks
          /\ UNCHANGED <<state, answered, emitted>>
    /\ UNCHANGED <<setup, activity, envVars, closing, panicked>>

-----------------------------------------------------------------------------
(* The application. *)

(* shutdown_processes, which a project calls once, takes the state.  From   *)
(* Connected the tasks live on for the 50 ms given to the shutdown request. *)
ShutdownProcesses ==
    /\ setup = "done" /\ state /= "None" /\ closing = "no"
    /\ state' = "None"
    /\ closing' = IF state = "Connected" THEN "holding" ELSE "closed"
    /\ IF state = "HeartbeatMissed" THEN DropTasks ELSE KeepTasks
    /\ UNCHANGED <<attempts, setup, attempt, answered, activity, envVars,
                   emitted, panicked>>

ShutdownEnds ==
    /\ closing = "holding"
    /\ closing' = "closed"
    /\ DropTasks
    /\ UNCHANGED <<state, attempts, setup, attempt, answered, activity, envVars,
                   emitted, panicked>>

(* force_disconnect kills the connection under the state, whatever the      *)
(* tasks around it are doing.                                               *)
ForceDisconnect ==
    /\ state \in Live
    /\ proxy' = IF proxy = "running" THEN "exited" ELSE proxy
    /\ UNCHANGED <<state, attempts, setup, attempt, answered, monitor, heartbeat,
                   missed, activity, envVars, closing, emitted, panicked>>

(* force_heartbeat_timeout(n): from Connected the reconnection starts, as   *)
(* if n attempts had failed; from any other state the state is taken, and   *)
(* dropped, before it is looked at.                                         *)
ForceHeartbeatTimeout ==
    /\ setup = "done"
    /\ \/ /\ state = "Connected"
          /\ \E done \in {0, MaxAttempts} : StartAttempt(done)
       \/ /\ state /= "Connected"
          /\ state' = "None"
          /\ IF state = "HeartbeatMissed" THEN DropTasks ELSE KeepTasks
          /\ UNCHANGED <<attempts, attempt, answered, emitted>>
    /\ UNCHANGED <<setup, activity, envVars, closing, panicked>>

-----------------------------------------------------------------------------
Environment ==
    NetDies \/ ServerStops \/ ProxyExits \/ MessageArrives \/ AnswerArrives

Tasks ==
    \/ RemoteStarted \/ NewConnected \/ NewFails
    \/ HeartbeatActivity \/ HeartbeatStops \/ HeartbeatPing
    \/ HeartbeatAnswered \/ HeartbeatTimeout
    \/ MonitorServerNotRunning \/ MonitorProxyExited
    \/ KillConnection \/ Connect \/ ResyncDone \/ ResyncTimeout \/ ApplyResult
    \/ ShutdownEnds

Application == ShutdownProcesses \/ ForceDisconnect \/ ForceHeartbeatTimeout

Next == Environment \/ Tasks \/ Application

Spec == Init /\ [][Next]_vars

(* Tasks that can run are polled and timers fire.  Nothing is assumed of    *)
(* the environment and of the application: no message has to arrive.        *)
Fairness ==
    /\ WF_vars(NewConnected) /\ WF_vars(NewFails)
    /\ WF_vars(HeartbeatActivity) /\ WF_vars(HeartbeatStops)
    /\ WF_vars(HeartbeatPing) /\ WF_vars(HeartbeatAnswered)
    /\ WF_vars(HeartbeatTimeout)
    /\ WF_vars(MonitorServerNotRunning) /\ WF_vars(MonitorProxyExited)
    /\ WF_vars(KillConnection) /\ WF_vars(Connect)
    /\ WF_vars(ResyncDone) /\ WF_vars(ResyncTimeout) /\ WF_vars(ApplyResult)
    /\ WF_vars(ShutdownEnds)

FairSpec == Spec /\ Fairness

-----------------------------------------------------------------------------
FlagsOK ==
    /\ answered \in BOOLEAN /\ activity \in BOOLEAN /\ server \in BOOLEAN
    /\ panicked \in BOOLEAN

StatesOK ==
    /\ state \in Tags
    /\ attempts \in 0 .. MaxAttempts
    /\ setup \in {"waiting", "pinging", "done", "failed"}
    /\ attempt \in {"none", "killing", "connecting", "resyncing", "connected", "failed"}
    /\ proxy \in {"none", "running", "exited", "notRunning"}
    /\ monitor \in {"none", "watching"}
    /\ heartbeat \in {"none", "armed", "disarmed", "pinging"}
    /\ missed \in 0 .. MaxMissed
    /\ net \in {"up", "silent"}
    /\ closing \in {"no", "holding", "closed"}
    /\ emitted \in Nat

(* Types of the client's state, of its tasks and of what they wait for; the *)
(* missed heartbeats and the attempts stay within the limits of the code.   *)
TypeOK == FlagsOK /\ StatesOK

(* A heartbeat or a monitor never outlives the connection it watches: while *)
(* one runs, the state owns it, or `new` or the attempt that started it     *)
(* does, or shutdown_processes still holds it.  One that survived a         *)
(* reconnection would report on, and tear down, its successor.              *)
TasksOwned ==
    /\ heartbeat /= "none" =>
          state \in Live \/ attempt = "connected" \/ closing = "holding"
    /\ monitor /= "none" =>
          \/ state \in Live \/ attempt \in {"resyncing", "connected"}
          \/ closing = "holding" \/ setup = "pinging"

(* What the title bar shows agrees with what the heartbeat task counts: the *)
(* state says HeartbeatMissed exactly while a heartbeat is missed, also     *)
(* after a recovery, a reconnection or a late answer.                       *)
MissedAgrees ==
    /\ state = "HeartbeatMissed" => missed > 0
    /\ state = "Connected" /\ heartbeat /= "none" => missed = 0

(* Disconnected, on which a project becomes read-only, is never emitted a   *)
(* second time for a client that is already in a terminal state.            *)
NotAnnouncedTwice ==
    [][emitted' > emitted /\ closing /= "holding" =>
          state \notin {"ReconnectExhausted", "ServerNotRunning"}]_vars

(* Giving up is final: no monitor, heartbeat or late result of an attempt   *)
(* takes a client out of ReconnectExhausted; only closing it does.          *)
ExhaustedIsFinal ==
    [][state = "ReconnectExhausted" =>
          state' \in {"ReconnectExhausted", "None"}]_vars

(* Trouble comes to an end.  A reconnection ends connected, given up, told  *)
(* that there is no server, or closed, whatever goes wrong and however      *)
(* often; a missed heartbeat is followed by a recovery, or by MaxMissed of  *)
(* them and a reconnection.                                                 *)
TroubleEnds ==
    /\ state = "Reconnecting" ~>
           state \in {"Connected", "ReconnectExhausted", "ServerNotRunning", "None"}
    /\ state = "HeartbeatMissed" ~> state /= "HeartbeatMissed"

(* handle_heartbeat_result takes the state and unwraps it.                  *)
StateIsThere == ~panicked

(* When the answers stop, on a connection whose proxy process lives on,     *)
(* heartbeats are missed and the client reconnects, eventually.             *)
SilenceNoticed ==
    (net = "silent" /\ state = "Connected" /\ proxy = "running") ~>
        (state /= "Connected" \/ proxy /= "running")
=============================================================================
