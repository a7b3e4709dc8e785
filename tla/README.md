# A verification development of imu_node_smr

This directory holds TLA+ models of the IMU node: the Pi-local hardware service
that owns the sensor (`src/imu_host`), the edge agent that consumes its samples
in a container (`src/imu_edge`), the driver and output code they share, and the
direct mode that uses both in one process (`src/imu`). TLC checks the models on
small instances; TLAPS proves the safety properties for every instance.
`PROJECT.json` ties each definition to the source lines it models, each property
to the hazard it is about, and each run and theorem to what it shows.

Tools: `tlc -config X.cfg M` checks module `M`, `tlapm M.tla` checks its proofs.

## 1. The system

    sensor -- BNO08X driver --+                     +-- control requests --+
                              |  self._imu          v                      |
                  +-----------+------- IMUHardwareService ----------+      |
                  |  worker thread "imu-hw": _run                   |   edge agent
                  |  main thread: start, boot session, close        |   (container)
                  |  one HTTP thread per request                    |      |
                  +----------- queue per stream ------------------- +      |
                                      +------- NDJSON stream ------------->+--> CSV, MQTT,
                                                                                health file

| component | source | state it keeps | operations |
|---|---|---|---|
| hardware service | `imu_host/manager.py`, `__main__.py` | driver object and its counter, session (active, id, rate), status (`_state`, `_tare_applied`, last error), last sample, wake and stop events | `_ensure_connected`, `start_session`, `stop_session`, `tare`, `_run`, `_emit_sample`, `_drop_connection`, `start`, `close`, `main` |
| telemetry streams | `imu_host/manager.py:80-90,198-217`, `server.py:134-165` | dict of subscribers, one bounded queue each | `register_stream`, `unregister_stream`, fan-out in `_emit_sample`, `_stream_samples` |
| HTTP API | `imu_host/server.py` | none of its own | `do_GET` (healthz, readyz, status, latest, stream), `do_POST` (start, stop, tare) |
| edge agent | `imu_edge/agent.py`, `service_client.py`, `config.py` | own session id, writer, running flag, last status | `run`, wait for readiness, start or adopt a session, consume a stream, stop on exit |
| edge health | `imu_edge/health.py`, `__main__.py` | one JSON file | write at every sample or retry; health check by age |
| data writer | `imu/DataWriter.py` | CSV file, MQTT client | open, write, publish, close |
| BNO08X driver | `imu/RealIMU.py`, `BaseIMU.py` | counter, yaw/pitch/roll offsets, packet queue | open, `read_data`, `tare`, `reset_counter` |
| fake driver | `imu/FakeIMU.py` | rows of a sample file and a position in it | `read_data` with wrap-around |
| reading loops | `imu/__main__.py`, `imu/readings.py`, `src/main.py` | next reading time | paced reading; curses display |
| orientation, codec | `BaseIMU.py`, `IMUData.py`, `service_contract.py` | none | angle arithmetic, to and from dicts |
| deployment | `deploy/`, `docker-compose.yml`, `swarm.yml`, `Dockerfile` | none | restart policies |

### How the parts interact, and what is hard

*Threads and one lock.* The main thread, the sampling thread and one thread per
HTTP request share one `IMUHardwareService`. `_imu_lock` protects the driver
object only. The session (`_session_active`, `_session_id`, `_sample_hz`), the
status fields and the last error are read and written with no lock, and some of
them inside the lock as well. So a start can overlap another start or a stop, an
error can be recorded while another thread clears one, and the sample the worker
has in hand may belong to a session that is over.

*A sensor that comes and goes.* Any factory call, read or tare may fail. A read
that fails makes the worker forget the driver object, and with it its counter and
its tare; any thread that goes through `_ensure_connected` makes a new one, in the
middle of a session as well.

*Waking up.* The worker sleeps on `_wake_event` while there is no session. It
clears the event after the wait, so a `set()` just before the `clear()` is only
not lost because the loop reads `_session_active` and `_stop_event` again.

*Bounded queues.* One thread fills the queue of every stream and never waits: it
evicts the oldest sample of a full queue with three separate queue operations,
while the reader takes from the same queue and streams come and go.

*Retries from outside.* The edge agent gives up after 10 s and asks again while
its first request may still be at work; it takes "already active" for success,
and so streams whatever session there is. It hears of the end of a session only
by its socket timeout, because the connection is kept, and of a stop request only
at its next sample or error.

*Two processes that die.* systemd and Docker start the service and the agent again.
The agent's CSV file is emptied by its next life, while its health file survives in a
container that is restarted; the service's death is a clean end
of file, half a line or a reset, depending on the moment.

*Two outputs and a health file.* A sample goes to the CSV file, then to MQTT, then
to the health file. Each of the steps can fail or be the last one. The health file
is emptied before it is written, and an agent that waits for answers writes none.

*Packets.* The driver processes packets until the sensor holds none, before every
single value. Packets can be junk, in any order, and the sensor may not have
enabled a feature at all: `enable_feature` prints its errors and goes on.

### What makes each part correct

* hardware service: the hardware is opened at most once at a time; the worker
  never reads a connection that is gone; what status says of the tare and of
  errors is so; sessions follow a simple contract; sample counters show every
  loss; no wake-up is lost; every request is answered; sampling resumes.
* streams: every stream gets every sample in order, once, except for its own
  oldest when it lags; no stream holds up the sampling; streams end.
* edge agent: it writes each sample once and in order, over all faults; it ends
  when told to; it gets its stream again after every fault; a session it started
  is stopped when it ends well.
* edge health: a dead agent is not found healthy for long, a running one is not
  found stale if the threshold is long enough; "streaming" is said of written
  samples and is current; what a process before has left there does not stay.
* data writer: CSV and MQTT get the same samples, in order, but for one; what ends
  the process does not lose rows.
* driver: a sample is made of the newest reports, no packet hides one, the tared
  orientation reads 0; a call ends when the sensor has no more to say.
* reading loops: rows are numbered without a gap and hold what the driver gave.

`PROJECT.json` lists the hazards one by one, each at its line, with the property
that covers it or the reason none does yet.

## 2. Modules

| module | what it is |
|---|---|
| `IMUHardwareService` | the service, every thread at the grain of single accesses to shared attributes |
| `SessionContract` | abstract: what clients that start and stop sessions in turn may rely on |
| `MCIMUHardwareService` | requests for the instances, sessions that take turns, the refinement mapping to `SessionContract`, and the claims of the repository that do not hold |
| `IMUHardwareService_proofs` | inductive invariant and theorems |
| `SessionContract_proofs` | what holds if sessions take turns, and that the service then implements `SessionContract` |
| `StreamFanout` | subscribers, queues, the worker's fan-out and the stream threads |
| `DropOldest` | abstract: what one stream promises its client |
| `StreamFanout_proofs` | inductive invariant, refinement of `DropOldest`, theorems |
| `DataWriter` | the two outputs: operators that `EdgeAgent` and `DirectMode` build their steps from |
| `EdgeAgent` | composition: the agent, its writer, its health file, the service as its clients see it, and a stream that behaves as `DropOldest` |
| `EdgeAgent_proofs` | inductive invariant and theorems |
| `EdgeHealth` | the age of the health file and the health check, in ticks |
| `EdgeHealth_proofs` | inductive invariant and theorems |
| `BNO08X` | the sensor and its driver, packet by packet |
| `BNO08X_proofs` | the driver's inductive invariant, step by step; `_wrap_angle` |
| `DirectMode` | composition: `python -m imu` with `BNO08X` or the fake driver, and `DataWriter` |
| `MCDirectMode` | the features and orientations of its instance |
| `DirectMode_proofs` | inductive invariant and theorems |

### IMUHardwareService

`pc[t]` is the place where thread `t` is. Threads run the same actions where they
run the same code: `Ensure(t)` is `_ensure_connected` for the main thread, the
worker and every handler; `StartSession(t)` serves handlers and the boot session
of `main`. What a thread returns to is decided by `ReturnsTrue`, `ReturnsFalse`
and `Answer`.

| state | code |
|---|---|
| `lock` | the holder of `_imu_lock` in `_ensure_connected`, whose critical section takes several steps; the other critical sections touch the driver object only and are one step, taken when the lock is free |
| `imu`, `counter`, `imuTared` | `_imu is not None`, the driver object's `counter`, and whether *this object's* offsets come from `tare()` |
| `sessionActive`, `sessionId`, `sampleHz` | the attributes of those names; a rate is named by the session that asked for it |
| `state`, `tareApplied`, `lastError` | `_state`, `_tare_applied`, `_last_error_code` |
| `sample`, `lastSample` | the local of `_run`, with the session id once `_emit_sample` has read it; the last sample handed out |
| `wakeEvent`, `stopEvent` | the two `threading.Event`s |
| `req`, `reply` | the request a thread works on and what it is about to answer |
| `plugged` | the environment: whether the sensor answers |
| `stragglers` | history: samples handed out since the session was stopped |

A step is *one* access to an attribute that other threads access without the
lock. Accesses that no other thread can tell apart are one step (`tare()` and the
flag it sets; the two fields of an error). `PublishSample` stands for the rest of
`_emit_sample`; what it does to the streams is `StreamFanout`.

Sensor values, error texts, timestamps and the pauses (reconnect delay, time until
the next read) are left out: a thread may wait any time between two steps, so any
pause is covered. An exception that is not a `ServiceError`, as a failing `tare()`
raises, is the reply `NO_RESPONSE`: no handler catches it and the connection is
closed. `IMUHardwareService._apply_tare` inside `_ensure_connected` cannot raise a
`ServiceError`, for the same condition guards the call, so `except ServiceError:
raise` is no step.

### StreamFanout

A step is one operation on the dict, under `_subscriber_lock`, or one operation on
one queue, which has its own lock. `targets` is the copy of the dict the worker
goes through; `target` the queue it found full. The order of the dict is left
open: the worker may serve the streams in any order. `client[s]` is what the client
of a stream does (reads, stalls so that the socket is full, is gone), `handler[s]`
is the place of its HTTP thread. The end of the stream thread by an exception
before its `try` block leaves it `leaked`: subscribed for ever. The session is an
environment variable here, set and cleared at will, which covers everything
`IMUHardwareService` can do to it.

Each HTTP GET for a stream is one element of `Streams`; it is opened once.

### DataWriter and EdgeAgent

`DataWriter` has a variable for each output and one operator for each method:
`Enter`, `OutputToCsv`, `OutputMqtt`, `PublishRaises`, `Exit`. A step of the program
that uses them says what else changes. `saved` is what is sure to be on disk: the
file object lets any part of its buffer through at any time (`FlushBuffer`).

In `EdgeAgent`, `pc` is the agent's place, from the loop's condition over the three
requests to the three steps of a sample ("got", "mqtt", "report") and the exit.
An action is a request together with its answer, or one of these steps; every
answer has its action: `StartAccepted`, `StartConflict`, `StartRefused`, `StartTimesOut`.

| state | code |
|---|---|
| `pc`, `stopRequested`, `config` | the place in `EdgeAgent.run`, `_stop_requested`, the two options about sessions |
| `health` | the health file: its state and the counter in it, and (history) whether the process that runs has written it |
| `open`, `offered`, `buffer`, `taken` | the stream, as `DropOldest` has it: queue, socket and reader in one |
| `severed`, `left` | how a stream ends on the service's side: with the process, or by leaving `_stream_samples` with the connection kept |
| `base` | history: the last sample captured when the stream was opened |
| `up`, `imu`, `session`, `captured` | the service: process, connection, who started the session, samples so far |
| `lateStart` | a start request the agent gave up on and the service has not yet served |
| `plugged`, `broker`, `faults` | the environment and its budget |

The service is here what `IMUHardwareService` shows to clients that take turns: one
session at a time, reconnection by the worker in a session only, readiness if it is
connected. Whether the agent asks for a tare is left open: without the sensor a start
may succeed, on a connection that is still there, or die of its tare. `Stream ==
INSTANCE DropOldest` gives the stream's steps; `StreamFanout` is proved to implement
that module. A sample's number counts over all sessions and lives of the service, so
that samples of two sessions can be compared. `Restart` is both restart policies:
compose (`restart: unless-stopped`) starts the same container again, with the health
file in its `/tmp` as it was, and swarm makes a new one, without the file. Either way
`Enter` then empties the CSV file. Note that the agent looks at its stop request at the
loop's condition and per sample only: told to stop while it waits, it still starts a
session before it ends (`agent.py:37-39`), and with stop on exit it stops whatever
session there is, another client's too. The model does both.

### EdgeHealth

The agent reduced to what takes time. `phase` is the sleep, the request or the read
it is blocked in, `busy` for how long, `age` the age of the newest `updated_at_ms` it
has taken. Time passes in ticks, only while the agent is blocked, and never beyond
the limit of what it is blocked in. The two steps of an update, `Stamp` (take the
time, empty the file) and `Fill`, are separate, since the health check, another
process, may read in between. The writing of a sample to disk and broker takes no
time here.

### BNO08X and DirectMode

`BNO08X` is the driver as one thread uses it. `call` and `place` say in which call it is
and whether it is processing packets; every method of the library's object that
the driver uses begins with `_process_available_packets`, whose loop body is
`SkipPacket`, `HandlePacket` or `PacketRaises`; `EndPump` ends the loop, and the call goes
on behind it. The sensor puts packets in `fifo` between any
two steps. A reading is the *number* of a report, not its value: the properties
are about which report a value is from. The yaw is kept too, in whole degrees, for
the tare; pitch and roll go through the same lines and are left out. The
constructor's `except RuntimeError`, which prints and keeps a half-enabled object,
is in `FeatureMissing` and `PacketRaises`.

`DirectMode` extends `BNO08X` and `DataWriter`. `step` is the main thread's place; a call
of the driver is started by a step of `Main`, goes on in steps of `Driver`, and the
main thread goes on when it has `Returned`. `Raise` stands for each exception the code
lets through: the driver's, curses', Ctrl-C.

## 3. What TLC checks

| run | instance | properties |
|---|---|---|
| `ServiceConcurrent` | 2 handlers, requests start (tare, reset), stop, tare; real driver; 1 sample per connection or reset | `TypeOK`, `SingleConnection`, `WorkerFindsImu`, `TareTruthful`, `MissingImuExplained`, `OneStraggler`, `NoLostWakeup` |
| `ServiceFakeDriver` | 2 handlers, driver without tare, 3 samples | `CountersContiguous` |
| `ServiceTurns` | 2 handlers that start and stop in turn and tare at any time, 2 session ids, boot session, automatic tare | `RunningMeansSession`, `KeepsContract`, `CountsThroughSession` |
| `ServiceLiveness` | 1 handler, fairness | `RequestsAnswered`, `SamplingGoesOn` |
| `StreamFanout` | 2 streams, queues of 2, 4 samples, fairness | `TypeOK`, `NewestKept`, `StreamsKeepPromise`, `LinesAreRecent`, `SamplingNotBlocked`, `StreamsClose` |
| `EdgeAgent` | all 4 configurations, a queue of 2, 3 samples, 2 faults, fairness | `TypeOK`, `RowsInOrder`, `ReportedMeansWritten`, `OnlyLastUnpublished`, `EndedMeansSaved`, `ExitStopsSession`, `StopEnds`, `OldReportReplaced`, `Recovers` |
| `EdgeHealth` | delay 1, requests up to 3, reads up to 2, stale after 12 ticks | `TypeOK`, `AgeBounded`, `StreamingIsCurrent`, `DeadIsNoticed`, `StaleMeansDead` |
| `DirectMode` | all 8 combinations of options, 2 features, 2 orientations, 3 reports, packets 3 at a time, a file of 2 lines, 3 rows, fairness | `TypeOK`, `RowsFollowDriver`, `OutputsAgree`, `EndedMeansSaved`, `SampleIsFresh`, `TaredReadsZero`, `QuietEndsCall` |
| `DoubleStart`, `StaleLabel`, `TareUnsupported`, `MissingHardware` | see section 5 | one violated claim each |

What they show:

* `SingleConnection`, `WorkerFindsImu`: `_ensure_connected` never opens a second
  connection, and the worker's second critical section always finds the
  connection its first one found, though the lock is free in between. The "IMU
  disconnected" exception of `_run` is dead code, because only the worker drops
  connections. The mutant that lets a failing tare drop one breaks this.
* `TareTruthful`: the flag and the offsets live in different objects; the flag is
  never left over from the connection before.
* `MissingImuExplained`: errors are recorded and cleared under no common lock, and
  still a missing sensor always has an error code. (The converse is not so: a
  connection made between `_drop_connection`'s critical section and its
  `_set_error` is reported degraded until the next reconnect.)
* `OneStraggler`: a stop lets at most the one sample in flight go out.
* `NoLostWakeup`, `SamplingGoesOn`: the 0.25 s timeout of the wait is not needed.
* `CountersContiguous`: a consumer can tell loss from the counter, except across
  a reset or a reconnect, where it sees 0.
* `KeepsContract`: as long as no two start or stop requests are carried out at the same
  time (`SessionsTakeTurns`), the session's attributes, written one by one with no lock,
  look like an automaton with atomic start and stop, and at most one sample that belongs
  to no session goes out for each stop. Requests to tare need no turns.
* `RunningMeansSession`: under the same condition `status()` says "running" only of a
  session, though four pieces of code write `_state`, some of them under the lock.
* `CountsThroughSession`: under the same condition the numbering of an active session is
  disturbed by nothing but a new connection; `start_session` resets the counter before it
  tries the tare, but no start that is going to be refused gets that far (the mutant
  lets it).
* `RequestsAnswered`: a connection that is closed without an answer counts as one.
  Nobody keeps `_imu_lock`, on any path.
* `NewestKept`: the second `queue.Full` of `_emit_sample` (line 216) cannot happen,
  for the worker is the only one that puts.
* `StreamsKeepPromise`: `StreamFanout` implements `DropOldest` for every stream,
  over registrations and departures in the middle of a fan-out.
* `LinesAreRecent`: a stream writes newer and newer samples, and each was among the last
  `QueueSize` + 1 read when it was taken. A slow client loses samples, but what it gets is
  not old; evicting the newest instead (the mutant) keeps the order and breaks this.
* `SamplingNotBlocked`, `StreamsClose`: no client delays the sampling, and with no
  session every stream thread comes to its end unless its client stalls or the
  stream was leaked.

* `RowsInOrder`: no fault puts a sample in the file twice or out of order, though the
  agent opens streams again and again. It rests on a stream that begins with the
  next sample: the mutant begins with the last one, as `telemetry/latest` would.
* `ReportedMeansWritten`, `OnlyLastUnpublished`: the order file, MQTT, health holds at
  every failure. A row that could not be published is the last of its stream, for
  the exception ends the stream. Written is not saved: the row may be in the file
  object's buffer, and a kill loses it while the health file still names it.
* `OldReportReplaced`: after a restart of the container the health file names a row of the
  emptied CSV file. That lasts until the agent's first update, which comes whether the
  service gets ready or not; the mutant that does not report a service that is not ready
  leaves the old report there.
* `EndedMeansSaved` (of both programs): every exception leaves through the writer's
  `with`, so only a killed process loses rows.
* `ExitStopsSession`: an agent that ends well leaves no session of its own. The
  exception is named in the property: a start request that outlived its timeout may
  be served after the stop request.
* `StopEnds`: the agent ends once told to, from every place. It needs the read's
  timeout: without a session no sample comes.
* `Recovers`: whatever was lost, the agent streams again once the service stays
  connected to the sensor. Taking "already active" for success is what makes it so:
  the mutant that treats it as an error is kept out for ever by the session its own lost
  answer has left behind.
* `AgeBounded`: the longest time between two updates is `Delay + 3 * RequestLimit +
  ReadLimit`. With the defaults, a delay of 2 s and 10 s for every socket call, this is
  42 s at least, and `IMU_EDGE_STALE_AFTER_S` is 30: a service that answers slowly makes a
  live agent unhealthy. `StaleMeansDead` says a check can otherwise be trusted.
* `DeadIsNoticed`, `StreamingIsCurrent`: nothing an agent wrote last makes it healthy
  for longer than the threshold, and "streaming" does not outlast the stream.
* `RowsFollowDriver`, `OutputsAgree`: the loops of `readings.py` record each sample of
  the driver once; the fake driver repeats its file from its first line.
* `SampleIsFresh`: the loop's `continue` on junk neither ends it early nor drops a
  report; every value is from the newest report that was queued when the call began, or a
  newer one, and so is the orientation a tare zeroes. The mutant returns from the loop at
  a junk packet, as a `return` for the `continue` would.
* `TaredReadsZero`: with `_wrap_angle` on differences that leave the range.
* `QuietEndsCall`: the loop without a bound ends when the sensor does. While packets
  come as fast as they are read it need not end; no property says it does.

Each property of a passing run has a mutant in `PROJECT.json`: a definition of the
model changed as a plausible bug would change the code, with which TLC finds the
property violated. The mutated definitions stand in the modules right before the
ones they would replace, marked "Mutant"; no specification uses them.

### Bounds

* `MaxCounter`: no sample is read at this counter. One sample is enough for every
  property of `ServiceConcurrent`, since only the fact of a sample in flight matters;
  two are needed to see a successor and three to see one after a
  reset in the middle of a session. Reconnects and resets put the counter back
  to 0, so runs are not short: behaviours go on for ever, the depth of the state
  graphs is above 90 steps.
* Two handlers are enough to have a check of one overtaken by the other, the only
  form of interference between requests; the proofs cover any number. Handlers
  are interchangeable and `HandlerSymmetry` is used for invariants and for one
  action property and a refinement that name no handler, never for liveness.
* One session id where ids do not matter, two where they do.
* `ServingSpec` (`ServiceConcurrent`, `ServiceFakeDriver` and the violation runs) leaves
  out the end of the process; `ServiceLiveness` and the proofs have it.
* `TurnsSpec` (`ServiceTurns`) is `ServingSpec` under `SessionsTakeTurns`. Requests
  may come in at any time, but a start or a stop only when no other is being carried
  out; this is the theorems' hypothesis, so that the run looks at what they state.
* Queues of 2 are the smallest with an oldest that is not the newest; the code's
  minimum is 8. Four samples let a queue fill and lose samples twice. Two streams
  let one stall while the other reads.
* `MaxFaults` is a budget for all faults together: the deaths of both processes,
  late answers, another client's requests, a sensor or a broker that goes. Two give
  every pair of faults in every order at every place, such as an answer lost and
  the service dead before the next. A new life of the agent counts as well; the service's,
  the sensor's and the broker's coming back is free.
* `MaxSamples` 3 with a queue of 2 lets the stream lose a sample. The proofs cover
  all three bounds.
* `EdgeHealth`: `MaxAge` is above all limits, ages beyond it are the same. The limits
  differ from each other, so that none can stand for another; `StaleAfter` is just the
  longest silence, the least with which a stale file means a dead agent. The proofs
  cover any limits.
* `BNO08X`: `MaxFifo` 3 and `MaxReports` 3 let a report be overtaken by a newer one of its
  feature and hidden behind junk. A read runs the packet loop once before each value, so
  with 2 features it takes two junk packets in front of a report to hide it from a loop
  that returns at junk, one for each; the orientations -180 and 90 have differences on both
  sides of the range of an angle. `MaxPackets` is the code's bound of `enable_feature` (10
  there). `MaxRows` 3 over a `FileLines` of 2 wraps around.
* `EdgeAgent` and `MissingHardware` switch deadlock checking off: an agent that has
  ended is not started again once the budget is used up, nor is one by `unless-stopped` that
  its operator stopped. In all other runs it is on. The end of the service's process is the
  `Terminated` step; `DirectMode` has no end state without a step, as the broker may change.

### Fairness

Threads that can go on do so: weak fairness of the worker, of the main thread, of
every handler and of every stream thread. Operating-system threads under the
interpreter lock are scheduled again and again.

A thread that waits for `_imu_lock` has a chance only when the lock is free. Strong
fairness is assumed of the steps that take it. Python's lock is not a queue, but
the one thread that takes it in a loop, the worker, sleeps with the lock free
after every failed attempt (`reconnect_delay_s`) and normally between reads; a
handler takes it at most twice per request. What this leaves out is a driver whose
`read_data` never returns: see the packet loop of `RealIMU` below.

In `EdgeAgent`: weak fairness of the agent's thread, of the worker's reconnection, of
the handler with a late start request (these are threads of two processes), and of
`ServiceStarts`, by systemd's `Restart=always`. Where the agent's thread has a choice
between an answer and a timeout, fairness does not choose: `Recovers` holds because
timeouts of an answering service are faults, and so bounded. The read's timeout is
part of the agent's steps; it is fair because a socket timeout is. In `DirectMode`
only a call in progress is fair; the user, the sensor and the loop's timer are not.

Not fair, because nothing makes them happen: requests, the interrupt, the sensor
coming back, clients reading, sessions starting and stopping. Not fair on purpose:
the timeout of the worker's wait, so that the liveness properties show it is not
needed. The 5 s timeout of a stream thread *is* fair: it is how streams end.

## 4. What is proved

`IMUHardwareService_proofs`, for any number of handlers, any session ids and
requests, drivers with and without tare, with and without boot session and
automatic tare, and any bound `MaxCounter`. The assumption is `ServiceAssumption`:
threads are distinct, `None` is none of the values, requests are well formed. The
theorems are about `Spec`, so they need no fairness.

None of the properties is inductive. `IInv` is; its parts:

* `TypeInv`: types, and that a handler that is not idle has a request, the worker
  never (this decides where `_ensure_connected` returns to).
* `LockInv`: a thread is in the critical section exactly if it holds `lock`.
* `ConnectionInv`: what the holder knows of `imu` at each of its places. With
  `LockInv` it gives `SingleConnection`.
* `ReadInv`: at "read" the connection is there *and the lock is free*; no other
  thread is connecting, so none can fail and forget the object. This is the whole
  of `WorkerFindsImu`.
* `TareInv`: a flag left over exists only while somebody is at "opened".
* `StartInv`: until `start()` is over nothing else runs. It is what makes
  `MissingImuExplained` true before the first error can have been recorded.
* `ErrorInv`: no connection and no error only inside the critical section, before
  the first attempt, or at "droperr"; who is at "degrade" has recorded an error
  which no one clears meanwhile (only the lock's holder clears).
* `StragglerInv`: after the one straggler the worker is in a part of its loop that
  leads back through the gate.
* `WakeInv`: with the event clear, whoever made the condition is still to set it;
  for the stop also while the worker is on its way to the wait.
* `CounterInv`: relates the driver's counter, the sample in flight and the last
  one handed out.

The step lemmas (`TypeStep`, `LockStep`, ...) show each part preserved by each
action; `IInvStep` puts them together; `Invariant` is `Spec => []IInv`; the theorems
`TypeCorrect`, `ConnectionIsSingle`, `WorkerHasImu`, `TareIsTruthful`,
`MissingImuHasError`, `AtMostOneStraggler`, `WakeupsAreKept` follow, and
`CountersAreContiguous` is the action property from `IInv` and one step.

`SessionContract_proofs`, for the same constants. `DoubleStart` shows that sessions are not
safe from overlapping starts, so the theorems say what suffices: `[]SessionsTakeTurns`.
Of requests to tare, of the worker and of the main thread nothing is assumed. A service
with one handler at most fulfils it (`OneHandlerTakesTurns`). `ClientInv` is inductive
together with `IInv`, and with the turns at the beginning of each step:

* `TurnsInv`: no handler works before the main thread is through with its boot session,
  so that this takes its turn as well.
* `RouteInv`: the kind of the request at each place; a tare never gets to the
  assignments of a session.
* `TrustInv`: what a request has tested or set is so until it is through: nobody starts a
  session after `start_session` has found none, nobody overwrites the id or the rate.
  This is the part a second start would break (`OnlyCaller`).
* `WholeInv`: an active session has the id and the rate of one request.
* `RunningInv`: "running" is left over from a session only while a stop request is on
  its way to set the state.

From it: `RunningIsSession`, `SessionIsWhole`, `TurnsKeepId` (the claim that
`DoubleStart` refutes without the turns), `CountsRunOn` and `ServiceKeepsContract`.
Under the mapping, id and rate count only while there is a session, so that the whole
start takes effect at `Activate` and the stop at `Deactivate`: `ActivateStarts`,
`DeactivateStops`, `PublishImplements`, and `AttributesUnseen` for the assignments in
between. A sample in flight becomes a debt of the contract when its session ends. All
other steps leave the session alone and no new debt behind (`SessionMoves`,
`OtherSteps`).

`StreamFanout_proofs`, for any number of streams and any queue size above 0
(`FanoutAssumption`). `FInv` adds to the types that the worker inside a fan-out has a
sample (`WorkerInv`), that a stream is subscribed between two places of its thread
(`SubscribedInv`), and that one not yet registered is unknown to the worker and
empty (`FreshInv`). From it: `TypeCorrect`, `NewestIsKept`, and
`StreamsImplementDropOldest`. The mapping counts the sample that is between its
eviction and its second put as already in the buffer; `NewestKept` makes that
sound. `Stutters`, `Offers`, `Takes` and `Closes` recognise the abstract step from what
becomes of the four mapped variables, and `EmitImplements` and `ServeImplements` go
through the actions. `LinesStayRecent` is then a fact about `DropOldest`: its `OrderInv` says
that the buffer holds the last samples offered without a gap, each newer than the line
written last, and `OrderStep` goes through the four steps of the abstract stream, not
through those of the code.

`EdgeAgent_proofs`, for any queue size, any number of samples and of faults. `IInv` adds to
the types:

* `OrderInv`: the numbers of the samples on their way. Those in the buffer increase,
  are newer than the one in hand and not newer than the last one offered; while both
  ends have the stream, that is the last one captured.
* `RowsInv`: the file increases and ends with the sample in hand or before it.
* `StoredInv`: where the sample in hand is, by the agent's place, and where the row is
  that this process has reported.
* `SavedInv`: past the writer's exit everything is on disk.

Most actions move no sample. They are the disjuncts of `Calm`, or of `Leaving` if they close
the stream, and `CalmFacts` and `LeavingFacts` say once what they leave alone. Theorems:
`AgentTypeCorrect`, `RowsAreInOrder`, `ReportedIsWritten`, `OneUnpublished`, `EndedIsSaved`,
`ExitIsClean`.

`EdgeHealth_proofs`, for any delays, limits and thresholds. The invariant gives for each
phase the age at its entry (`Entry`) in the worst case, so that age is at most that plus
`busy`; the one path without an update, the end of a stream, leads to a request that is
refused at once (`Refused`). Theorems: `HealthTypeCorrect`, `AgeIsBounded`,
`StreamingStaysCurrent`, `DeathIsNoticed`, `StaleIsDead`.

`BNO08X_proofs`, for any features, orientations and bounds. `DriverInv`:

* `FifoInv`: the queued reports are in order and newer than every reading.
* `CoverInv`: each report is queued still, or its feature has a reading as new.
* `FreshInv`: the values a read has picked so far are new enough.
* `ZeroInv`: the offset is the yaw of the tared report.
* `PumpedInv`: behind the packet loop, every report that was queued when the call began has
  been read, or a newer one of its feature.
* `IndexInv`, `FirstInv`: places, and a sensor nobody has enabled is silent.

`DriverStepInv` shows it kept by each step of a call; `WrapAngleTurns` is the theorem that
`_wrap_angle` changes an angle by whole turns only and lands in -180..179, for every whole
number. `DirectMode_proofs` takes the driver's lemmas and adds the recording side:
`PublishedInv`, `CounterInv`, `FileInv` (the line of each row, with the lemmas on remainders
it needs) and `SensorInv` (a row is no newer than the driver's reading). Theorems:
`DirectTypeCorrect`, `SamplesAreFresh`, `TareIsZero`, `RowsFollow`, `OutputsStayTogether`,
`RowsAreSaved`.

Only model-checked: the liveness properties, which are out of the prover's reach
(`RequestsAnswered`, `SamplingGoesOn`, `SamplingNotBlocked`, `StreamsClose`, `StopEnds`,
`OldReportReplaced`, `Recovers`, `QuietEndsCall`). Every other property of a passing run
is a theorem.

## 5. Where code and words differ

* `DoubleStart`: `start_session` refuses to start over an active session
  (`manager.py:94-97`), but tests with no lock and sets the flag after up to two waits
  for the lock. Two overlapping starts both succeed; the second changes id, rate
  and counter of the session the first was told it has.
* `StaleLabel`: the session test expects counter 0 of a new session's first sample
  (`tests/test_service_split.py:26-27`). A sample in flight over a stop and a start is
  labelled with the new id.
* `TareUnsupported`: "This backend does not support tare." (`manager.py:156`) is also
  the answer when the worker has just dropped the connection of a backend that
  does; it is marked as not retryable.
* `MissingHardware`: `EDGE_REDESIGN.md:46` says the service "retries if the hardware
  disappears or read errors occur". Its worker does so inside a session only
  (`manager.py:222-229`). If the sensor is gone and there is no session, as after a
  restart of the service, the agent waits for `/v1/readyz`, which needs the connection
  (`agent.py:37-39`), and the worker waits for a session: plugging the sensor in again
  changes nothing.

## 6. Not modelled, and the plan

Not modelled:

* Floating-point arithmetic: quaternions to angles (`BaseIMU.py`), the case of a zero
  quaternion, rounding. Neither tool can treat it. Whole degrees stand for angles.
* Requests that only read: `status()` as twelve separate reads, `telemetry/latest`,
  `healthz`. They change no state; in the repository only a person reads their answers,
  except for `readyz`, which `EdgeAgent` has.
* The form checks of requests (`INVALID_JSON`, `INVALID_REQUEST`, `NOT_FOUND`), which come
  before every state change, and the field-by-field copies of `IMUData` and of the contract.
* A disk that is full: writes of rows and of the health file succeed. So does the
  health update inside an `except` clause of the agent, whose own failure would end it.
* The pacing of the loops (`_run`, `readings.py`): a thread may wait any time between two
  steps, so that no property depends on it. The time it takes to write a sample.
* SIGTERM to the direct mode, which Python does not turn into an exception: the process
  is gone with what its file buffer held.
* An agent that asks for a tare of a driver that has none (`FakeIMU`): every start is
  refused and it never streams. `EdgeAgent` lets a tare fail only without the sensor.
* The age of the health file over restarts of the agent: `EdgeHealth` is one life of the
  agent; its content over restarts is in `EdgeAgent`. The text on the screen; compose
  files and units, except that their restart policies are the actions `Restart` and
  `ServiceStarts`; vendored scripts.

What is left to do, most important first:

1. `EdgeAgent`'s view of the service as a refinement: its `Start`, `Reconnect` and `LateStart`
   are read off `manager.py` a second time, at the grain of one request.
   `ServiceKeepsContract` gives the session's half of it for clients that take turns; the
   connection and the answers are left.
2. Read-only requests and what a mixed answer of `status()` can say.
