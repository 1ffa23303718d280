# A TLA+ verification of Kaltsit-Esperanta's remote and replication core

Kaltsit-Esperanta is a fork of the Zed editor (Rust, more than 200 crates). Most
of it is views, language support and I/O. What can go wrong without a test
noticing sits in a few protocols: how the editor stays connected to a headless
development server, how messages survive a dropped connection, how requests to a
collaboration server are matched with their answers, how tasks on different
threads learn of a change, how several replicas of one text buffer come to the
same text, and how the fork's own workflow editor keeps its views, its simulation
and its file together. This directory models those protocols from the source,
checks them with TLC and proves their safety, where the prover reaches, with TLAPS. All paths below are relative to `src/`.

* [Inventory](#inventory): the parts of the system
* [Modules](#modules): which module models what, and how
* [Runs](#runs): what TLC checks, bounds, fairness
* [Disagreements](#disagreements): where code and documentation part
* [Proofs](#proofs)
* [Not modelled](#not-modelled) and the [plan](#plan)

## Inventory

### The remote channel (`crates/remote/src/remote_client.rs`, `ChannelClient`)

*State, at each end*: `next_message_id`, `buffer` (sent and unacknowledged),
`max_received`, `response_channels` (open requests), `stream_response_channels`
(open streams), the outgoing queue.
*Operations*: `send`, `request`, `request_stream`, `ping`, `reconnect`, `resync`
and the reader task `start_handling_messages`.
*Interaction*: envelopes travel through the pump of
`crates/remote/src/transport.rs` (stdio of the proxy process), the proxy, and the
accept loop of `crates/remote_server/src/server.rs`. The client gets new queues
with every connection; the server keeps one outgoing queue for its whole life.
*Hard*: cumulative acks across dropped connections; a resync interrupted by a
second drop; a server queue that survives the connection and overtakes what is
sent again; streams whose consumer may go away; senders on background threads, for
which taking the id, entering the buffer and entering the queue are three critical
sections; `RemoteStarted` with the fixed id 0.
*Correct when*: an accepted message is never lost, a request is answered, and only
by its own answer, a stream is handed over whole, and an ack removes nothing the
peer has not passed.

### The connection state machine (`remote_client.rs`, `RemoteClient`)

*State*: `State` (Connecting, Connected, HeartbeatMissed, Reconnecting,
ReconnectFailed, ReconnectExhausted, ServerNotRunning, or taken), the tasks a
`State` value owns (monitor, heartbeat, and through them the proxy process), the
running reconnect attempt, and `missed_heartbeats` inside the heartbeat task.
*Operations*: `new`, `heartbeat`, `handle_heartbeat_result`, `monitor`,
`reconnect`, `shutdown_processes`, `force_disconnect`, `force_heartbeat_timeout`.
*Interaction*: all tasks run on one foreground thread and share the entity; the
proxy, the network, the server and the timers act between any two awaits.
*Hard*: a result applied to a client that has moved on; tasks that outlive what
they watch; a timer that is not set again; events that arrive in a state that
refuses them.
*Correct when*: tasks belong to somebody, reconnecting ends, giving up is final and
said once, what the user sees agrees with what the heartbeat counts.

### The replicated text buffer (`crates/text`, `crates/clock`)

*State*: fragments with insertion, deletions and a cached `visible` flag, the
version vector, the Lamport clock, the undo map, deferred operations, undo and
redo stacks, those who wait for a version.
*Operations*: `edit`, `undo`, `undo_transaction`, `redo`, `push_transaction`,
`apply_ops`, `wait_for_version`; also anchors, `edits_since`, branches and
transaction surgery (`merge_transactions`, `forget_transaction`,
`group_until_transaction`).
*Interaction*: replicas exchange operations over a project's connections.
*Hard*: every order of concurrent operations, duplicates, early arrivals,
concurrent undo of the same edit, visibility as a cache.
*Correct when*: replicas with the same operations have the same buffer, deletions
hit what their author saw, nothing is left waiting.

### The watch channel (`crates/watch/src/watch.rs`)

*State*: value, version, closed and the registered wakers under one lock; the
version each receiver has seen; the waker id of each unfinished `changed()`.
*Operations*: `send`, dropping the sender, `receiver`, clone, `borrow`, `changed`,
`recv`, polling and dropping the future.
*Interaction*: settings, remote environments and toolchains are handed to tasks on
other threads through it.
*Hard*: `send` wakes after releasing the lock; futures polled without a reason or
dropped early; the last value racing the close.
*Correct when*: no wake-up is lost, no waker is left behind, every change is told
once, and the close only after the last change.

### The rpc peer (`crates/rpc/src/peer.rs`)

*State*: per connection the two maps of response channels (which the end of the
connection takes), the unbounded outgoing and the bounded incoming queue.
*Operations*: `request`, `request_stream`, `send`, `respond`, `end_stream`,
`disconnect`, the future `handle_io` and the filter over the incoming queue.
*Interaction*: callers on any thread, `handle_io` on a background executor, the
filter in the task that handles messages; the other end's peer.
*Hard*: three kinds of tasks and two locks without a common critical section;
order across tasks; a reader parked on a full queue; consumers that go away.
*Correct when*: what the other end said is seen in its order, everything that waits
ends when the connection does, and an end without an error means all was there.

### The workflow editor (`crates/ama10-ui/src/workflow_view.rs`, `crates/ama10/src/workflow*.rs`)

*State*: mode, workflow, YAML text, selection, simulation, path, the file's last
known mtime; in the simulation the status of every leg of every job.
*Operations*: load, save, new, change of mode, add and remove a job, toggle a need,
step, play, reset and fail in the simulation.
*Interaction*: with other programs through the file; with the editor through
buffer events.
*Hard*: three copies of one workflow (jobs, text, simulation) that every operation
must keep together; cycles made one edge at a time; failures that spread; foreign
writes around a save.
*Correct when*: the workflow can always be ordered, the simulation is one of it and
runs nothing early, and foreign contents are not overwritten unseen.

### Other parts

| part | source | state and hard behaviour |
|---|---|---|
| connection pool | `crates/remote/src/remote_client.rs` (`ConnectionPool`) | shared connecting task or weak connection per host; two windows racing |
| proxy and server launch | `crates/remote_server/src/server.rs` | pid file, sockets, processes; a proxy that kills a server in use |
| collaboration client and server | `crates/client`, `crates/collab` | sign-in, rooms; state in an external database |
| channel buffers | `crates/channel/src/channel_buffer.rs` | rejoin with operations missed on both sides |
| worktree | `crates/worktree/src/worktree.rs` | scans against file events; snapshot updates |
| language servers | `crates/lsp/src/lsp.rs` | JSON-RPC with an external process |
| scheduler | `crates/scheduler` | executors; the semantics the other models assume |
| auto update, AMA-10 accounts, extension runtimes, editor and UI | see `PROJECT.json` | I/O, external services, rendering |

## Modules

| module | models | state |
|---|---|---|
| `RemoteChannel` | both ends of the channel, the connection between them | 19 variables |
| `RemoteChannelProofs` | theorems about `RemoteChannel`: ids, acks, answers | - |
| `RemoteDeliveryProofs` | built on those: nothing is lost with one drop | - |
| `RemoteClient` | the connection state machine | 15 variables |
| `RemoteClientProofs` | theorems about `RemoteClient` | - |
| `TextBuffer` | the replicas of one buffer and their operations | 10 variables |
| `TextQueries` | what a replica answers about versions, edits and anchors | - |
| `CausalOps` | abstract causal delivery, implemented by `TextBuffer` | 2 variables |
| `TextBufferProofs` | theorems about `TextBuffer` and `TextQueries` | - |
| `WatchChannel` | the watch channel with its lock, wakers and futures | 13 variables |
| `WatchCell` | what a watch channel promises, implemented by `WatchChannel` | 4 variables |
| `WatchChannelProofs` | theorems about `WatchChannel` | - |
| `RpcPeer` | one connection of a peer: callers, io, filter, other end | 19 variables |
| `RpcPeerProofs` | theorems about `RpcPeer` | - |
| `WorkflowSimulation` | job order and simulation as operators over a workflow | - |
| `WorkflowView` | the editor around it, and its file | 13 variables |
| `WorkflowSimulationProofs` | lemmas: what `Sorted`, `Step`, `PlayAll`, `FailJob` compute | - |
| `WorkflowViewProofs` | theorems about `WorkflowView` | - |
| `MCRemoteChannel`, `MCRemoteClient`, `MCTextBuffer`, `MCWorkflowView` | instances for TLC | - |

Operators whose comment begins with "Mutant" are plausible mistakes in the
operator that follows them; no specification uses them. Each property is known to
fail when the definition it depends on is replaced by such a mutant
(`PROJECT.json`, "mutants").

### RemoteChannel

`buffer`, `nextId`, `maxReceived` and `responses` are the fields of
`ChannelClient`, indexed by the end. `link[e]` is everything between an outgoing
queue and the reader of `e`; a `Disconnect` empties both directions.
`outgoing` is the server's queue, drained by `ServerWrite` (the accept loop of
`start_server`), which survives a `Disconnect`. `phase` follows the client through
`new` (connecting, started, pinging), connected, lost, and the two halves of
`resync` around its await (flushing, resyncing, flushed).

The foreground thread runs the reader and most senders, and their code has no
await between taking an id and queueing the envelope: `Send` (of a message, a
request or a stream request), `Respond` (a response, the next item of a stream or
its end) and `Ping` are single steps. `init_telemetry_forwarding` sends on a
background thread; there `send_dynamic` is the three steps `AllocateId`,
`PushBuffer`, `PushQueue`. The load of `max_received` is made part of
`PushBuffer`: it happens just before that lock is taken and an older value would
only acknowledge less.

The reader loop is one action per way through it: `ReceiveFlush`,
`ReceiveStarted`, `ReceiveMessage`, `ReceiveResponse`, `ReceiveStream`. All of them
first apply the ack (`Acknowledged`: the front of the buffer up to the ack is
popped). As in the code, only the last three set `max_received`, to the id received, and not to the
maximum. A response to the waited-for flush blocks the reader until `resync` has
gone on (phase flushed): that is the barrier sent along with each response.

A stream's item is taken by its consumer in the step that delivers it (the reader
waits for that), and the end, which removes the channel, is when the consumer sees
the stream end. `DropStream` is the consumer that goes away, whose guard removes
the channel at any moment. An error in answer to a stream request, which also removes
the channel and ends the stream, is not told apart from its end.

Payloads are left out; an envelope is its id, kind, ack, `responding_to` and the
number of a stream's item. Handlers are a bag of requests, because a message sent again is handled again:
the channel does not recognise duplicates. Ids are naturals: the wrap of the
`AtomicU32` after 2^32 messages is out of a bounded model's reach. `sent`, `received`, `background`, `own`, `taken`, `ended`, `misanswered` are
history variables.

### RemoteClient

`state` is the `Option<State>` ("None" when taken); the tag `ReconnectFailed` does
not appear, because `reconnect` leaves it in the update that enters it (the
failed result and the next attempt are one step, `ApplyResult`). `monitor`,
`heartbeat`, `proxy` and `missed` are the tasks the value owns: `DropTasks` is
dropping the value, which cancels them and kills the process (`kill_on_drop`).
`attempt` is how far the reconnect task is.

Every action is the code between two awaits of one task. The environment may kill
the network silently (`NetDies`), stop the server, end the proxy, and deliver or
not deliver messages and answers. `Connect` and `KillConnection` may fail.
Timers are not clocks but choices; two orders of magnitude are kept as guards in
`HeartbeatPing`: a 5 s timer does not fire between a finished reconnect task and
the task that applies its result, nor start within the 50 ms of a shutdown.

`MaxMissed` and `MaxAttempts` are the code's MAX_MISSED_HEARTBEATS and
MAX_RECONNECT_ATTEMPTS; the runs use the code's own values 5 and 3, the proofs
any positive numbers.

### TextBuffer and CausalOps

A timestamp is `<<value, replica>>`, a version vector a function from replicas.
One fragment is one character: the code keeps runs together and splits them at the
cuts, which the properties cannot tell apart. An edit has one range, replaces it
by up to `MaxInsert` characters and is broadcast into `ops`; `ApplyOps` brings a
replica any batch of operations that exist, in any order and as often as it likes:
this is delay, reordering and duplication. `ApplyRemoteEdit` resolves full offsets
against the author's version, passes concurrent insertions with a higher
timestamp and deletes what was visible to the author; `ApplyUndo` extends the undo
map and refreshes the fragments of the touched edits; `ApplyOrDefer` and
`FlushDeferredOps` are the queue with its `deferred_replicas`; `EachInTurn` is the
loop that both passes run, `InOrder` the drain of the queue by rank. `Undo(r, i)` covers
`undo` (the last entry) and `undo_transaction`. Grouping of transactions depends
on the time between edits and is a choice where `Grouping` allows it. `Edit` takes
two ticks of the clock, for the transaction and for the edit; inside an outer
transaction the code takes one. Nothing depends on more than that timestamps are
unique and grow.

`CausalOps` is what delivery promises without vectors and queues: a replica takes
in a group of operations only with everything their authors had applied before. A
group is what one batch brings; in which order the operations of a batch are applied
is left to `NothingReadyDeferred`, `VersionIsExact` and `Convergence`.
`TextBuffer` implements it under `applied <- applied, made <- deps`, both history
variables that record what really happened to the fragments.

### TextQueries

The queries of `BufferSnapshot` as operators over a buffer of `TextBuffer`:
`RopeForVersion`, `HasEditsSince`, `EditsSince` with the turn of `Edits::next` as
`EditsStep`, `AnchorAtOffset` and `OffsetForAnchor`. Like the code they consult
`was_visible` only for fragments whose summary (`TouchedSince`: insertion,
deletions, `max_undos`) shows something newer than the version, and take the
others as they are. They are checked against the history variable `seen`: the
fragments the author of each operation really had in front of it. An anchor names a
character and a side; with fragments of one character the offset in the insertion
that the code stores is that character.

### WatchChannel and WatchCell

A step is what happens under one acquisition of the lock. `send` is `Send` (store,
count, take the wakers), one `WakeOne` per waker outside the lock, in the order of
the map, and `SendReturns`; without a receiver it is `SendNoReceiver`, which stores
the value and does not count it. `changed()` is a future: `Changed` makes it, each
`Poll...` is one way through `poll`, `DropChanged` its drop. Finishing includes the
drop of the finished future. `woken` is the executor's promise to poll; polls
without it are possible too. Versions are naturals; the code's wrap at 2^64 is not
modelled. `Receiver::constant` is the initial state without a sender.

`WatchCell` has versions, receivers and the close, and no lock, waker or executor.
Its fairness says what users rely on: who waits is told.

### RpcPeer

One action per stretch between two locks, sends or awaits: a call looks its
connection up (`Lookup`), inserts its sender (`Insert`) and queues the envelope
(`Enqueue`), and other threads run in between. `handle_io` is `WriteOutgoing`,
`ReadMessage`, the ways to end and the four steps of `_end_connection`; keepalives
and timers are the choice to end when the link is dead. A bounded futures channel
takes one envelope more than its buffer per sender and then parks the sender:
`io = "parked"`. The filter is `HandOut` or `TakeResponse`, `MatchStream`,
`Deliver`, `Resume`, one per lock or await. `BarrierDropped` is the
`requester_resumed` channel: the filter goes on when the receiver has taken what it
was given, or is gone. The other end answers and streams (`Other...`), as `respond`,
`end_stream` and `respond_with_error` do; the socket (`LinkBreaks`) is external.
An envelope carries two history fields, which no action reads: its `place` among
all that the other end has sent, and `nth`, which answer to its call it is.

A connection may also begin with `io = "ended"` and its maps in place: `handle_io`
was dropped before its first poll, so that `_end_connection` never runs, as in
`test_request_stream_send_failure_cleans_up_response_channel` and when
`send_initial_client_update` fails in the collaboration server
(`collab/src/rpc.rs:928`). This is where a stream call that cannot queue its envelope
has to remove its own sender (`Enqueue`). A call that had queued its envelope before
such a drop would wait for ever; that case is left out.

### WorkflowSimulation and WorkflowView

A workflow is a function from job ids, numbered in their sorted order, to needs
and the number of legs of the matrix. `Sorted` is Kahn's algorithm with the sorted
queue of `job_order` (`Queue`); `Step`, `PlayAll`, `MarkFailed`, `Fresh` and `Refreshed` are
the methods of the simulation on a record of needs, statuses and `finished`. As in
the code, a refresh looks at the statuses of before it began. A leg's key is the job
and a number, so that legs have different keys. The code's key is the job id and the
joined values (`workflow_simulate.rs:55`), which collide when an axis repeats a value
(`os: [linux, linux]`): `mark_failed` then fails only the first of the legs,
`status_map` keeps the status of the last, and a job behind them can become ready
although one has failed. The theorems and runs about simulations are about workflows
whose legs have different values.

In `WorkflowView` a handler is one step except around its file accesses: a load is
`LoadRead` and `LoadShow`, a save `SaveCheck`, `SaveWrite` (or `SaveFails`) and
`SaveProbe`, and `ForeignWrite` may fall between. A text is the workflow it parses
to or `Broken`. Mtimes are compared only for equality, so the baseline is "absent",
"current" or "old". Every write is assumed to give the file another mtime: a foreign
write within the resolution of the clock, or one that keeps the mtime, passes
`disk_state_conflicts`, and `ForeignKept` does not speak of it. Metadata that cannot
be read count as no file after a load or a save (`Probed`), which makes the next save
refuse, and as a conflict before a save. `SaveLosesFile` is the branch of
`replace_file` for Windows in which neither rename into place succeeds; its two
renames are otherwise one step, so a foreign write between them counts as one before
both. Saving without a path when all 1000 names are taken is left
out. `dirty` is modelled as the code behaves: the Edited event of `set_text` is
delivered after `syncing_yaml` was reset, so the tab says "Unsaved" after every
load, save and change of mode.

## Runs

All instances are small enough to be explored completely. `CHECK_DEADLOCK` is off
because every bounded instance ends: when nothing is left to send or edit, the
system rests.

| run | checks | what it shows |
|---|---|---|
| `remote_channel` | TypeOK, ForegroundNotLost, AckIsEarned, AnswersMatchRequests, EverythingArrives | a message of the server, from the foreground or from a background thread, the ping, a stream and a drop anywhere: nothing the foreground sent is lost, an ack covers nothing unobserved, no request is completed by an Ack, and in the end all has arrived, is answered or has ended |
| `remote_client` | TypeOK, TasksOwned, MissedAgrees, NotAnnouncedTwice, ExhaustedIsFinal, TroubleEnds | the whole state machine at the code's limits |
| `text_buffer_edits` | Convergence, SameOrder, NothingReadyDeferred, AnchorsNeverCross | 3 replicas, 3 edits, in every order of arrival: same text, same order of characters and anchors, and no operation left waiting that could be applied |
| `text_buffer_undos` | TypeOK, VersionIsExact, ErasedIsExact, VisibleIsExact, OldTextIsExact, PatchIsExact | 2 replicas, 2 edits, 3 undos or redos, a pushed transaction: what is deleted and what is visible on a replica follows from the operations it has applied alone, and each answers for earlier versions exactly |
| `text_buffer_delivery` | WaitersServed, CausalDelivery, EventuallyTheSame | 3 replicas, batches of 2, an undo, a wait |
| `watch_channel` | TypeOK, NoWakerLeaks, NoWakeupLost, ChangeIsReal, CellSpec | 2 receivers, 3 sends, 5 registrations: no wake-up is lost, no waker left, and the channel implements the cell, its liveness included |
| `rpc_peer` | TypeOK, OutcomesAreTrue, NoStreamLeaks, OrderIsKept, EverythingEnds | a request, a stream of one item and a message over a queue of one, with every way to drop, break and time out |
| `workflow_view` | TypeOK, OrderIsRight, WorkflowStaysSound, NothingRunsEarly, EveryStepCounts, ForeignKept | workflows of up to 4 jobs with a matrix, an edit, a failed job in each simulation, a foreign write, 2 files |
| `remote_channel_two_drops`, `remote_channel_streams` | NoMessageLost, StreamsComplete | violated, see below |
| `remote_client_panic`, `remote_client_silence` | StateIsThere, SilenceNoticed | violated, see below |

**Why the bounds are enough.** Channel: a cumulative ack goes wrong when an older
message is overtaken by a younger one in the same direction. The server sends a
message, the answer to the ping and the two frames of a stream, any of which can be
overtaken; the client sends the ping, the stream request and the flush. One drop,
a consumer that goes away and a background thread that stops in the middle meet
every pair of them. The two violations show what lies just beyond: a second drop,
or a stream of two items of which one was written before the drop.
Client: no bound on the number of failures; the state space is finite as it is,
with the code's limits. Buffer: an order of concurrent insertions is wrong first
for three edits of three replicas (two insertions at one place and a third that
saw only one of them); undo counts are wrong first for two replicas that undo the
same edit, of which one redoes; a pushed transaction is what lets a replica undo
another's edit. Batches of two let an operation and its cause arrive in the wrong
order in one call. Watch channel: two receivers are the smallest number for which
one can be woken, dropped or cloned while the other is still to be woken; a third
send meets a receiver that was told, has registered again and is told again.
Peer: the hazards are between one response, one stream and one later message
(order), and between one of these and the end of the connection; the bound of one
item makes item and end frame distinct, the buffer of one makes the reader park.
Workflow: a failure needs several refreshes to reach the last job of a chain of four,
of which one has two legs; a toggle in the seed, in the chain or after an added or
removed job closes every cycle of two jobs and longer ones in the chain;
OrderIsRight also looks at every toggle that was not made. One foreign write
suffices because the view forgets it only by reading.

**Fairness.** `RemoteChannel` and `RemoteClient`: weak fairness of the steps that
an executor polls, of timers, of bytes on a standing connection, and of the
handlers of requests, which are assumed to end. Nothing is assumed of the
application or of failures; `RemoteClient` does not assume that any message
arrives. `TextBuffer`: `Brought(r)` holds again and again, that is, the network
brings every operation to every replica at least once (a project's connections
are reliable and rejoining sends what was missed); applying is not assumed.
`WatchChannel`: a `send` that has begun wakes everybody, and the executor polls
tasks that were woken; nothing is polled without a reason. `RpcPeer`: a call that
has begun runs on, `handle_io` and the filter are polled, futures and streams that
are not dropped are polled, and the other end answers while the connection is up.
A dead link is noticed (read error or the 10 s receive timeout). Nobody is made to
call, drop or disconnect.

## Disagreements

Four properties that a document or a comment states do not hold. Each is checked
by a run of its own whose counterexample is short.

1. `remote_channel_two_drops`. `docs/src/remote-development.md:249` says "This way
   when your connection drops and is restarted, you can continue to work without
   interruption." Message 2 is lost in the socket while 3 waits in the server's
   queue; the new connection writes 3 first, the client observes it, the connection
   drops again, and the ack 3 of the next flush pops 2.
2. `remote_channel_streams`. The same sentence, with one drop: the items of a stream
   are lost in the socket while its end waits in the server's queue. The end is
   written first and removes the stream's channel; the consumer sees a regular end,
   and the items that are sent again find no stream.
3. `remote_client_panic`. `handle_heartbeat_result` unwraps a state that
   `shutdown_processes` has taken 50 ms earlier.
4. `remote_client_silence`. "eventually trigger reconnection after
   MAX_MISSED_HEARTBEATS are missed" (`remote_client.rs:1062`): after an answered
   ping the loop continues past the line that sets the timer; a connection that
   falls silent then is not noticed.

What the models also show, and no document contradicts: a telemetry message that is
overtaken between its buffer and its queue entry is lost with one drop; with a
background thread at the client one drop is enough to lose a message of the
foreground, when the thread queues its envelope ahead of what `resync` sends again
(met while proving `ForegroundKept`; the thread of `init_telemetry_forwarding` runs
at the server); a proxy that exits while the client is Connecting
or Reconnecting is not reported again, and the heartbeat stops with its activity
channel, so that the client stays Connected and `force_disconnect` then starts
nothing; `play_all` stops with "simulation stalled" while a failure is still
spreading along a chain, and a second click goes on; a foreign write between a file
access and the reading of its mtime is overwritten by the next save; a workflow
without jobs can be saved and not loaded; a stream of a failed peer connection may
yield one item after the error.

## Proofs

`RemoteClientProofs` proves, for all positive `MaxMissed` and `MaxAttempts`
(`LimitsAssumption`, the only assumption):

| theorem | states |
|---|---|
| `Invariance` | `Spec => []IInv` |
| `TypeCorrect` | `Spec => []TypeOK` |
| `OwnedTasks` | `Spec => []TasksOwned` |
| `MissedInAgreement` | `Spec => []MissedAgrees` |
| `ExhaustedForGood` | `Spec => ExhaustedIsFinal` |
| `AnnouncedOnce` | `Spec => NotAnnouncedTwice` |

`TasksOwned` and `MissedAgrees` are not inductive: whether a task may run depends
on who else is running. `IInv` adds that. `SetupInv`: nothing else has begun
before `new` returns. `AttemptInv`: an attempt runs only on behalf of a state that
is not connected, and always when it is Reconnecting; a fresh heartbeat has missed
nothing. `ClosingInv`: after a shutdown no connection comes back. `TerminalInv`: a
terminal state has no monitor and no attempt that could start one. `MissedInv`: a
running heartbeat is below its limit. The step lemma has one case per action; the
Boolean flags are kept apart (`StepKeepsFlags`) because the first-order prover
handles them and the arithmetic one does not. The two action properties follow
from `IInv`: in ReconnectExhausted no task is left to act, and in a terminal state
every way to `set_state` is closed, except the 50 ms of a shutdown, which
`NotAnnouncedTwice` exempts.

`WatchChannelProofs` proves, for every set of receivers and all bounds
(`BoundsAssumption` says only that they are natural numbers):

| theorem | states |
|---|---|
| `Invariance` | `Spec => []Inv` |
| `TypeCorrect` | `Spec => []TypeOK` |
| `NoLeak` | `Spec => []NoWakerLeaks` |
| `NoLostWakeup` | `Spec => []NoWakeupLost` |
| `ChangesAreReal` | `Spec => []ChangeIsReal` |
| `ImplementsCell` | `Spec => Cell!CellSafety` |

`Inv == TypeOK /\ Wakers /\ NoWakeupLost /\ Unread`.
`Wakers`: the ids of the wakers differ, so that removing by id removes at most one's
own; a registered receiver has seen the current version; outside `send` nothing is
left to wake. `NoWakeupLost`: a waiting receiver that has polled is registered, or taken and not yet
called, or woken; `send` and the drop of the sender move all of the registered to
one of the other two in the step that makes them have something to be told.
`Unread`: a receiver with an unseen version, or just told of one, has not read the
current value. `CellStep` maps every action to one
of the cell or to a stutter, with the identity as refinement mapping; the cell's
liveness stays with the run `watch_channel`.

`RpcPeerProofs` proves, for all sets of requests and streams, any length of the
streams and any positive size of the incoming queue (`CallsAssumption`: requests,
streams and the name "none" differ; `BoundsAssumption`: the bounds are numbers):

| theorem | states |
|---|---|
| `Invariance` | `Spec => []IInv` |
| `TypeCorrect` | `Spec => []TypeOK` |
| `TrueOutcomes` | `Spec => []OutcomesAreTrue` |
| `NoLeakedStreams` | `Spec => []NoStreamLeaks` |
| `OrderKept` | `Spec => OrderIsKept` |

An outcome is decided long after the answer it rests on was sent, and in between
the answer is on the wire, in a queue, in the hands of the filter or in a
receiver. `IInv` follows it. `EndInv`: the maps are taken once and stay empty.
`FrameInv`: what is under way was really said by the other end, in answer to that
call. `PlaceInv`: the places only grow along wire, queue, filter and what was seen,
which gives `OrderIsKept`. `InboxInv`: a receiver holds at most the envelope the
filter waits for and the news of the end. `RequestInv`: a request that waits is in
the map, or has its answer, or the connection is over. For streams, `EarlyInv`,
`HeldInv` and `FlowInv` say that as long as a stream is in the map, what it has
yielded, what the filter holds and what the two queues carry are together the
answers 1, 2, 3... without a gap; `ToldInv` and `DoneInv` that a stream
which has left the map was told an error, or will be, or has it all. This is where
`nth` is needed: `place` gives an order but cannot say that nothing is missing.

`RemoteChannelProofs` proves, for any number of sends, requests, streams, background
threads at either end and drops (`BoundsAssumption`: the bounds are numbers, each
thread belongs to an end):

| theorem | states |
|---|---|
| `Invariance` | `Spec => []IInv` |
| `TypeCorrect` | `Spec => []TypeOK` |
| `EarnedAcks` | `Spec => []AckIsEarned` |
| `MatchedAnswers` | `Spec => []AnswersMatchRequests` |

`AckIsEarned` is not inductive: an ack is copied from `max_received` into an
envelope that may be popped, sent again or be held by a thread. `AckInv` says of every such copy that
its sender has observed the id. `NumberInv`: ids are handed out once, and all that travels has been
numbered. `MatchInv`: requests and flushes have ids of their own, and an answer
names the one it was made for. Both ends use the id 0 twice, for `RemoteStarted` and for the first
message; `BeginInv` says why that is harmless for answers: `RemoteStarted` is the first thing an end reads, and
before the server has taken an id the client has nothing to answer.

`RemoteDeliveryProofs` extends it by the property the channel exists for:

| theorem | states |
|---|---|
| `Stages` | `OneDrop` implies `Spec => []DeliveryInv` |
| `ForegroundKept` | `OneDrop` implies `Spec => []ForegroundNotLost` |

`OneDrop` is `MaxDisconnects <= 1` and every background thread at the server, with
any number of messages, requests, streams and threads. It cannot be weakened: with
two drops the property is false (`remote_channel_two_drops`), and with a background
thread at the client it is false with one. The thread of the code is at the server.
An id that is acknowledged must be covered by everything below it having arrived;
that holds at all times except between a drop and the resync, when the server's queue,
which survived, runs ahead of what was lost. `FlowInv` is therefore a disjunction
of six stages: before the drop; after it; flush sent; flush answered; the barrier reached; all sent again.
Each says which part of a lane (what is lost, in the queue, on the wire, in the
buffer) is without a gap and which acks may be under way. Each action
keeps its stage or enters the next, and each stage implies the property.

`WorkflowViewProofs` proves, for any number of jobs, edits, failures, files and
foreign writes (`SeedAssumption`: the seed is a valid workflow; `TextsAssumption`: a text is a
workflow or does not parse; `BoundsAssumption`: the bounds are numbers):

| theorem | states |
|---|---|
| `Invariance` | `Spec => []IInv` |
| `TypeCorrect` | `Spec => []TypeOK` |
| `RightOrder` | `Spec => []OrderIsRight` |
| `SoundWorkflows` | `Spec => []WorkflowStaysSound` |
| `NoEarlyStart` | `Spec => []NothingRunsEarly` |
| `StepsCount` | `Spec => []EveryStepCounts` |
| `ForeignContentsKept` | `Spec => ForeignKept` |

`job_order` is the loop of Kahn's algorithm. `SortedIsOrdered` shows what it leaves:
no job twice, none before one it needs, and either all jobs or an empty queue. From
it, an order means no cycle (of the jobs on a cycle none can be the first in the
order) and no order means a cycle (among the jobs left over). In a simulation,
`NothingRunsEarly` alone is not kept by `refresh_ready`, which recomputes also who
is blocked: `Lawful` adds that who is blocked has a reason and who is pending lacks something. With these two and the
absence of cycles, among the pending jobs of a simulation in which nothing is ready or running there
is one that the refresh moves, which is `EveryStepCounts`; `Progress` is compared by
three sets (started, launched, over) that only grow. For the file, `UnseenInv`
says that foreign contents the view has not read lie where the view does not believe
to know the mtime, and never under a handler at work.

`TextBufferProofs` proves, for every set of replicas that has the local one, every
length of the base text and all bounds (`ReplicasAssumption`: ids are natural
numbers, the bounds are numbers):

| theorem | states |
|---|---|
| `TextInvariant` | `Spec => []TextInv` |
| `TypeHolds` | `Spec => []TypeOK` |
| `ConvergenceHolds` | `Spec => []Convergence` |
| `OrderHolds` | `Spec => []SameOrder` |
| `VersionHolds` | `Spec => []VersionIsExact` |
| `QueueHolds` | `Spec => []NothingReadyDeferred` |
| `ErasedHolds` | `Spec => []ErasedIsExact` |
| `VisibleHolds` | `Spec => []VisibleIsExact` |
| `WaitersHolds` | `Spec => []WaitersServed` |
| `CausalHolds` | `Spec => CausalDelivery` |
| `AnchorsHold` | `Spec => []AnchorsNeverCross` |
| `OldTextHolds` | `Spec => []OldTextIsExact` |
| `DirtyHolds` | `Spec => []DirtyIsExact`, the first part of `PatchIsExact` |

None of these is inductive: two replicas with the same operations have applied them
in different orders, on top of different texts. The invariant looks at *views*: the
fragments of a replica under its version, and those the author of an operation had
(`seen`) under the version of the operation. `View` says that the version alone
determines which characters there are, which of them are deleted and visible, and
which undo was the last to touch them (`Kept`). The order is not a function of the
version that could be written down simply, so the invariant says where each
character stands: between a fragment and the one its author put it after there are
only fragments that take precedence, because their timestamp is higher (`Placed`).
From it, `InsertSide` and `InsertAgree` show that an insertion falls on the same
side of every character in any two views that agreed before it: were the new text
in front of a character in one view and behind it in the other, one of the two would
have passed, on the way from the place its author gave it, a fragment of lower
timestamp. `Agree` between all views, those of the authors included, is part of the
invariant, because a remote edit is placed by what its author saw
(`NthMatches`, `RemoteSite`).

`Sound` says that a version is made of timestamps of operations and covers what
these were made on, which makes one number per replica enough. For the queue, a
pass goes in the order of timestamps, and an operation's timestamp is greater than
all that it waits for; so when an operation is put off, it is for something that is
not applied later in the same pass, and `Unready` holds again at the end
(`AllInTurn`). The flush clears `deferredReplicas` first, so in that pass it only
refuses an operation whose version is not reached either: an author's operations wait
for each other. In the first pass, over a batch in any order, it may refuse an
operation that is ready; the flush after it then applies that operation.

`Convergence` follows because two views that cover the same operations keep the same
of each character (`KeptSame`) and agree in their order (`SamePlaces`). For
`CausalHolds`, an edit, undo or redo is a `Make`, and the operations one batch brings
are one `TakeIn`: the version after the batch is sound, so it covers what their
authors had. The queries about a version compare the view of a replica with that of
an author (`ShownMatches`); that a fragment whose summary shows nothing newer may be
taken as it is follows from the last undo that touched it (`UntouchedIsSame`).
`TextInv` was checked by TLC on instances like those of the three runs before it was
proved.

Sequences and induction: the provers cannot use an induction theorem that takes the
claim as an operator. Where an argument goes over all positions of a queue or all
turns of a loop, it is made with the least one that violates the claim (`LeastIndex`,
`Least`), or with the set of those that satisfy it (`UpTo`), which needs only that sets of naturals have a
least element. A loop that the model writes as a recursive function is chosen, so
that its equation holds only if some function satisfies it: `Iterates` builds one.

Only model-checked, and why:

* The second part of `PatchIsExact`, what the fold of `edits_since` computes: it needs
  an induction over the fragments with an invariant for the two texts and the list of
  edits built so far (see the plan).
* All liveness (`EverythingArrives`, `EverythingEnds`, `TroubleEnds`,
  `EventuallyTheSame`, the fairness of `WatchCell`): the prover has neither fairness
  nor ENABLED.
* The four properties of violation runs are false.

## Not modelled

* Channel: the wrap of ids, payloads, stream consumers that leave an item untaken.
* Peer: several connections, `forward_send`, epochs, the reader that drops the
  incoming stream, messages this end sends without expecting an answer, `handle_io`
  dropped unpolled after calls were queued.
* Workflow editor: layout, YAML syntax, matrix expansion (with it, legs whose keys
  collide), checks of single steps, status texts, file clocks too coarse to tell two
  writes apart.
* Transport: platform detection, upload and build of the server binary, ssh, WSL
  and docker specifics. Proxy and server launch.
* Buffer: several ranges in one edit, chunking of long insertions, `edits_since`
  in a range, branches, line endings, `merge_transactions`,
  `forget_transaction`, `group_until_transaction`, `set_group_interval`,
  subscriptions (the patches published with each change).
* The parts of the last table of the inventory.

## Plan

In this order:

1. Proofs: the rest of `PatchIsExact`, with the fold of `EditsSince` written as a
   recursive function like `EachInTurn`.
2. `ServerLaunch`: proxy, pid file, spawn and kill of the server, reconnect flag;
   composed with `RemoteClient` through the exit code.
3. `ConnectionPool`: the connecting and connected entry of one host, two callers.
4. `TextBuffer`: edits of several ranges and of several characters, transaction
   surgery, published patches, `edits_since` in a range, branches and their merge.
5. `ChannelBuffer` as a client of `TextBuffer` and `RpcPeer`.

Runs ask one question each; new questions about the same instance join an
existing run rather than adding one.
