------------------------- MODULE IMUHardwareService -------------------------
(***************************************************************************)
(* The Pi-local hardware service, imu_host/manager.py, run by              *)
(* imu_host/__main__.py: the main thread, the sampling thread "imu-hw" and *)
(* one HTTP thread per request in progress share one IMUHardwareService    *)
(* object.  Only the driver object (self._imu and its sample counter) is   *)
(* protected by _imu_lock; every other attribute is read and written with  *)
(* no lock.  A step of the model is one access to such an attribute, or    *)
(* one critical section that accesses the driver object only.              *)
(*                                                                         *)
(* Every thread runs the code it runs in the program: pc[t] is the place   *)
(* where thread t is, and _ensure_connected is one set of actions that     *)
(* every kind of thread goes through.                                      *)
(***************************************************************************)
EXTENDS Integers

CONSTANTS
  Main,           \* the main thread, imu_host.__main__.main
  Worker,         \* the sampling thread, IMUHardwareService._run
  Handlers,       \* the HTTP threads that serve control requests
  None,           \* Python's None
  SessionIds,     \* the session ids clients use
  BootId,         \* "boot-session", the id of the session started at boot
  StartRequests,  \* the session requests clients send
  HasTare,        \* the driver has a tare method: RealIMU has, FakeIMU has not
  AutoTare,       \* IMU_SERVICE_AUTO_TARE
  BootSession,    \* IMU_SERVICE_START_ON_BOOT
  MaxCounter      \* bound of the model: no sample is read beyond this counter

Threads == Handlers \union {Main, Worker}

\* A SessionRequest; the request for a tare is written as one that only tares.
StartRequest == [op : {"start"}, session_id : SessionIds,
                 tare : BOOLEAN, reset_counter : BOOLEAN]
BootRequest  == [op |-> "start", session_id |-> BootId,
                 tare |-> AutoTare, reset_counter |-> TRUE]
TareRequest  == [op |-> "tare", session_id |-> None,
                 tare |-> TRUE, reset_counter |-> FALSE]
StopRequest  == [op |-> "stop", session_id |-> None,
                 tare |-> FALSE, reset_counter |-> FALSE]
NoRequest    == [op |-> "none", session_id |-> None,
                 tare |-> FALSE, reset_counter |-> FALSE]

Requests == StartRequests \union {TareRequest, StopRequest}

ErrorCodes == {"IMU_NOT_FOUND", "READ_FAILED"}

\* What a control request is answered with.  "NO_RESPONSE" is the exception
\* that is not a ServiceError: no handler catches it, the connection is
\* closed without a response.
Replies == {"OK", "SESSION_ALREADY_ACTIVE", "NO_ACTIVE_SESSION",
            "IMU_NOT_READY", "CALIBRATION_UNSUPPORTED", "NO_RESPONSE"}

ASSUME ServiceAssumption ==
  /\ Main # Worker
  /\ {Main, Worker} \intersect Handlers = {}
  /\ None \notin Threads \union SessionIds \union ErrorCodes
  /\ BootId \in SessionIds
  /\ StartRequests \subseteq StartRequest
  /\ {HasTare, AutoTare, BootSession} \subseteq BOOLEAN
  /\ MaxCounter \in Nat \ {0}

\* A sample as a stream client gets it: the counter the driver gave it and
\* the session id it is labelled with.  The sensor values are left out.
Sample   == [counter : -1 .. MaxCounter, session : SessionIds \union {None}]
NoSample == [counter |-> -1, session |-> None]

VARIABLES
  pc,             \* where each thread is
  req,            \* the request a thread works on
  reply,          \* the answer a thread is about to give
  lock,           \* who holds _imu_lock
  plugged,        \* environment: the sensor answers on the bus
  imu,            \* self._imu is not None
  counter,        \* the driver object's sample counter
  imuTared,       \* the driver object's offsets were set by tare()
  sessionActive, sessionId,
  sampleHz,       \* self._sample_hz, named by the session that asked for it
  state, tareApplied, lastError,
  sample,         \* local of _run: the sample in flight
  lastSample,     \* self._last_sample, the newest sample handed to streams
  wakeEvent, stopEvent,
  stragglers      \* history: samples published since the session was stopped

imuVars     == <<imu, counter, imuTared>>
sessionVars == <<sessionActive, sessionId, sampleHz>>
statusVars  == <<state, tareApplied, lastError>>
sampleVars  == <<sample, lastSample, stragglers>>
eventVars   == <<wakeEvent, stopEvent>>
callVars    == <<req, reply>>
vars == <<pc, req, reply, lock, plugged, imu, counter, imuTared, sessionActive,
          sessionId, sampleHz, state, tareApplied, lastError, sample, lastSample,
          wakeEvent, stopEvent, stragglers>>

\* Places inside _ensure_connected where _imu_lock is held.
Connecting == {"connect", "opened", "autotare", "ready", "clear", "fail", "degrade"}

StartPlaces == {"check", "ensure", "prepare", "hz", "sid", "activate", "running",
                "wake", "reply"}
HandlerPlaces == {"idle", "deactivate", "clearid", "look", "stopready",
                  "stopdegraded"} \union StartPlaces \union Connecting
MainPlaces    == {"spawn", "serve", "closing", "join", "exited"}
                 \union StartPlaces \union Connecting
WorkerPlaces  == {"unstarted", "loop", "gate", "wait", "unwake", "ensure", "read",
                  "drop", "droperr", "dropstate", "emit", "publish", "exit"}
                 \union Connecting

At(t, place)   == pc[t] = place
Goto(t, place) == pc' = [pc EXCEPT ![t] = place]

Answer(t, code) == /\ Goto(t, "reply")
                   /\ reply' = [reply EXCEPT ![t] = code]

\* self._imu = None: the driver object is gone, its counter and offsets with it.
ForgetImu == imu' = FALSE /\ counter' = 0 /\ imuTared' = FALSE

-----------------------------------------------------------------------------
(* _ensure_connected *)

\* Where the caller goes on when _ensure_connected returns True.
ReturnsTrue(t) ==
  /\ Goto(t, IF t = Worker THEN "read"
             ELSE IF req[t] = NoRequest THEN "spawn" ELSE "prepare")
  /\ UNCHANGED reply

\* Where the caller goes on when it returns False: the worker sleeps and goes
\* round, start() ignores it, a request is refused.
ReturnsFalse(t) ==
  \/ /\ req[t] = NoRequest
     /\ Goto(t, IF t = Worker THEN "loop" ELSE "spawn")
     /\ UNCHANGED reply
  \/ /\ req[t] # NoRequest
     /\ Answer(t, "IMU_NOT_READY")

\* The lock is free and there is a connection: nothing to do.
EnsureConnected(t) ==
  /\ At(t, "ensure") /\ lock = None /\ imu
  /\ ReturnsTrue(t)
  /\ UNCHANGED <<req, lock, plugged, imuVars, sessionVars, statusVars,
                 sampleVars, eventVars>>

\* Mutant: the check whether there is a connection is made before taking the lock
\* and not again under it.
EnsureLockUnchecked(t) ==
  /\ At(t, "ensure") /\ lock = None
  /\ lock' = t
  /\ Goto(t, "connect")
  /\ UNCHANGED <<callVars, plugged, imuVars, sessionVars, statusVars,
                 sampleVars, eventVars>>

\* The lock is free and there is no connection: the thread keeps the lock while
\* it opens the hardware.
EnsureLock(t) ==
  /\ At(t, "ensure") /\ lock = None /\ ~imu
  /\ lock' = t
  /\ Goto(t, "connect")
  /\ UNCHANGED <<callVars, plugged, imuVars, sessionVars, statusVars,
                 sampleVars, eventVars>>

\* self._imu = self._hardware_factory(): a new driver object, counter at 0.
OpenHardware(t) ==
  /\ At(t, "connect") /\ plugged
  /\ imu' = TRUE /\ counter' = 0 /\ imuTared' = FALSE
  /\ Goto(t, "opened")
  /\ UNCHANGED <<callVars, lock, plugged, sessionVars, statusVars,
                 sampleVars, eventVars>>

\* Mutant: the state is set and the error code is not.
OpenFailsUnexplained(t) ==
  /\ At(t, "connect") /\ ~plugged
  /\ Goto(t, "degrade")
  /\ UNCHANGED <<callVars, lock, plugged, imuVars, sessionVars, statusVars,
                 sampleVars, eventVars>>

OpenFails(t) ==
  /\ At(t, "connect") /\ ~plugged
  /\ Goto(t, "fail")
  /\ UNCHANGED <<callVars, lock, plugged, imuVars, sessionVars, statusVars,
                 sampleVars, eventVars>>

\* Mutant: a reconnect leaves self._tare_applied alone.
KeepTare(t) ==
  /\ At(t, "opened")
  /\ Goto(t, IF AutoTare /\ HasTare THEN "autotare" ELSE "ready")
  /\ UNCHANGED <<callVars, lock, plugged, imuVars, sessionVars, statusVars,
                 sampleVars, eventVars>>

\* self._tare_applied = False
ForgetTare(t) ==
  /\ At(t, "opened")
  /\ tareApplied' = FALSE
  /\ Goto(t, IF AutoTare /\ HasTare THEN "autotare" ELSE "ready")
  /\ UNCHANGED <<callVars, lock, plugged, imuVars, sessionVars, state, lastError,
                 sampleVars, eventVars>>

TareOnConnect(t) ==
  /\ At(t, "autotare") /\ plugged
  /\ imuTared' = TRUE /\ tareApplied' = TRUE
  /\ Goto(t, "ready")
  /\ UNCHANGED <<callVars, lock, plugged, imu, counter, sessionVars, state,
                 lastError, sampleVars, eventVars>>

\* tare() raised: the handler of _ensure_connected forgets the driver object.
TareOnConnectFails(t) ==
  /\ At(t, "autotare") /\ ~plugged
  /\ ForgetImu
  /\ Goto(t, "fail")
  /\ UNCHANGED <<callVars, lock, plugged, sessionVars, statusVars, sampleVars,
                 eventVars>>

\* self._state = "ready", whatever the session's state is
MarkReady(t) ==
  /\ At(t, "ready")
  /\ state' = "ready"
  /\ Goto(t, "clear")
  /\ UNCHANGED <<callVars, lock, plugged, imuVars, sessionVars, tareApplied,
                 lastError, sampleVars, eventVars>>

\* _clear_error, return True and release of the lock
ClearError(t) ==
  /\ At(t, "clear")
  /\ lastError' = None
  /\ lock' = None
  /\ ReturnsTrue(t)
  /\ UNCHANGED <<req, plugged, imuVars, sessionVars, state, tareApplied,
                 sampleVars, eventVars>>

\* _set_error("IMU_NOT_FOUND", ...), its first assignment
SetNotFound(t) ==
  /\ At(t, "fail")
  /\ lastError' = "IMU_NOT_FOUND"
  /\ Goto(t, "degrade")
  /\ UNCHANGED <<callVars, lock, plugged, imuVars, sessionVars, state,
                 tareApplied, sampleVars, eventVars>>

\* Mutant: the failure path returns without releasing the lock.
MarkDegradedLocked(t) ==
  /\ At(t, "degrade")
  /\ state' = "degraded"
  /\ ReturnsFalse(t)
  /\ UNCHANGED <<req, lock, plugged, imuVars, sessionVars, tareApplied, lastError,
                 sampleVars, eventVars>>

\* the last assignment of _set_error, return False and release of the lock
MarkDegraded(t) ==
  /\ At(t, "degrade")
  /\ state' = "degraded"
  /\ lock' = None
  /\ ReturnsFalse(t)
  /\ UNCHANGED <<req, plugged, imuVars, sessionVars, tareApplied, lastError,
                 sampleVars, eventVars>>

-----------------------------------------------------------------------------
(* The control requests: start_session, stop_session, tare *)

\* An HTTP thread takes a request; a tare begins with _ensure_connected.  A
\* connection that is kept alive is served until the process ends.
Receive(h) ==
  /\ At(h, "idle") /\ pc[Main] \in {"serve", "closing", "join"}
  /\ \E r \in Requests :
       /\ req' = [req EXCEPT ![h] = r]
       /\ Goto(h, IF r.op = "tare" THEN "ensure" ELSE "check")
  /\ UNCHANGED <<reply, lock, plugged, imuVars, sessionVars, statusVars,
                 sampleVars, eventVars>>

\* Mutant: a start request is let in over an active session.
CheckNothing(t) ==
  /\ At(t, "check") /\ req[t].op = "start"
  /\ Goto(t, "ensure") /\ UNCHANGED reply
  /\ UNCHANGED <<req, lock, plugged, imuVars, sessionVars, statusVars,
                 sampleVars, eventVars>>

\* if self._session_active: start_session raises, otherwise it goes on to
\* _ensure_connected.  Nothing keeps the answer true after this step.
CheckNotActive(t) ==
  /\ At(t, "check") /\ req[t].op = "start"
  /\ \/ sessionActive /\ Answer(t, "SESSION_ALREADY_ACTIVE")
     \/ ~sessionActive /\ Goto(t, "ensure") /\ UNCHANGED reply
  /\ UNCHANGED <<req, lock, plugged, imuVars, sessionVars, statusVars,
                 sampleVars, eventVars>>

\* if not self._session_active: stop_session raises.
CheckActive(t) ==
  /\ At(t, "check") /\ req[t].op = "stop"
  /\ \/ ~sessionActive /\ Answer(t, "NO_ACTIVE_SESSION")
     \/ sessionActive /\ Goto(t, "deactivate") /\ UNCHANGED reply
  /\ UNCHANGED <<req, lock, plugged, imuVars, sessionVars, statusVars,
                 sampleVars, eventVars>>

\* Mutant: the counter restarts at 1.
ResetCounterToOne(t) ==
  counter' = IF req[t].reset_counter /\ imu THEN 1 ELSE counter

\* The critical section of start_session and tare begins with the reset of the
\* counter, if asked for and if there still is a driver object.
ResetCounter(t) ==
  counter' = IF req[t].reset_counter /\ imu THEN 0 ELSE counter

AfterTare(t) ==
  IF req[t].op = "tare" THEN Answer(t, "OK") ELSE Goto(t, "hz") /\ UNCHANGED reply

PrepareNoTare(t) ==
  /\ At(t, "prepare") /\ lock = None
  /\ ~req[t].tare
  /\ ResetCounter(t)
  /\ Goto(t, "hz")
  /\ UNCHANGED <<callVars, lock, plugged, imu, imuTared, sessionVars, statusVars,
                 sampleVars, eventVars>>

\* _apply_tare finds no driver object, or one that has no tare method.
PrepareUnsupported(t) ==
  /\ At(t, "prepare") /\ lock = None
  /\ req[t].tare /\ ~(imu /\ HasTare)
  /\ ResetCounter(t)
  /\ Answer(t, "CALIBRATION_UNSUPPORTED")
  /\ UNCHANGED <<req, lock, plugged, imu, imuTared, sessionVars, statusVars,
                 sampleVars, eventVars>>

PrepareTare(t) ==
  /\ At(t, "prepare") /\ lock = None
  /\ req[t].tare /\ imu /\ HasTare /\ plugged
  /\ ResetCounter(t)
  /\ imuTared' = TRUE /\ tareApplied' = TRUE
  /\ AfterTare(t)
  /\ UNCHANGED <<req, lock, plugged, imu, sessionVars, state, lastError,
                 sampleVars, eventVars>>

\* Mutant: a tare that fails drops the connection, as a read that fails does.
PrepareTareDrops(t) ==
  /\ At(t, "prepare") /\ lock = None
  /\ req[t].tare /\ imu /\ HasTare /\ ~plugged
  /\ ForgetImu
  /\ Answer(t, "NO_RESPONSE")
  /\ UNCHANGED <<req, lock, plugged, sessionVars, statusVars, sampleVars, eventVars>>

\* The driver's tare() raises: the request dies, the reset stays done.
PrepareTareFails(t) ==
  /\ At(t, "prepare") /\ lock = None
  /\ req[t].tare /\ imu /\ HasTare /\ ~plugged
  /\ ResetCounter(t)
  /\ Answer(t, "NO_RESPONSE")
  /\ UNCHANGED <<req, lock, plugged, imu, imuTared, sessionVars, statusVars,
                 sampleVars, eventVars>>

\* Mutant: the rate of the first session is kept.
KeepSampleHz(t) ==
  /\ At(t, "hz")
  /\ sampleHz' = IF sampleHz = None THEN req[t].session_id ELSE sampleHz
  /\ Goto(t, "sid")
  /\ UNCHANGED <<callVars, lock, plugged, imuVars, sessionActive, sessionId,
                 statusVars, sampleVars, eventVars>>

\* The assignments of start_session, in order and with no lock.
SetSampleHz(t) ==
  /\ At(t, "hz")
  /\ sampleHz' = req[t].session_id
  /\ Goto(t, "sid")
  /\ UNCHANGED <<callVars, lock, plugged, imuVars, sessionActive, sessionId,
                 statusVars, sampleVars, eventVars>>

SetSessionId(t) ==
  /\ At(t, "sid")
  /\ sessionId' = req[t].session_id
  /\ Goto(t, "activate")
  /\ UNCHANGED <<callVars, lock, plugged, imuVars, sessionActive, sampleHz,
                 statusVars, sampleVars, eventVars>>

Activate(t) ==
  /\ At(t, "activate")
  /\ sessionActive' = TRUE
  /\ stragglers' = 0
  /\ Goto(t, "running")
  /\ UNCHANGED <<callVars, lock, plugged, imuVars, sessionId, sampleHz,
                 statusVars, sample, lastSample, eventVars>>

MarkRunning(t) ==
  /\ At(t, "running")
  /\ state' = "running"
  /\ Goto(t, "wake")
  /\ UNCHANGED <<callVars, lock, plugged, imuVars, sessionVars, tareApplied,
                 lastError, sampleVars, eventVars>>

\* Mutant: the event is not set.
WakeNobody(t) ==
  /\ At(t, "wake")
  /\ Answer(t, "OK")
  /\ UNCHANGED <<req, lock, plugged, imuVars, sessionVars, statusVars,
                 sampleVars, eventVars>>

\* self._wake_event.set() and return self.status(), of start and of stop
Wake(t) ==
  /\ At(t, "wake")
  /\ wakeEvent' = TRUE
  /\ Answer(t, "OK")
  /\ UNCHANGED <<req, lock, plugged, imuVars, sessionVars, statusVars,
                 sampleVars, stopEvent>>

\* The assignments of stop_session, in order and with no lock.
Deactivate(t) ==
  /\ At(t, "deactivate")
  /\ sessionActive' = FALSE
  /\ Goto(t, "clearid")
  /\ UNCHANGED <<callVars, lock, plugged, imuVars, sessionId, sampleHz,
                 statusVars, sampleVars, eventVars>>

\* Mutant: stop_session leaves the state alone.
ClearSessionIdOnly(t) ==
  /\ At(t, "clearid")
  /\ sessionId' = None
  /\ Goto(t, "wake")
  /\ UNCHANGED <<callVars, lock, plugged, imuVars, sessionActive, sampleHz,
                 statusVars, sampleVars, eventVars>>

ClearSessionId(t) ==
  /\ At(t, "clearid")
  /\ sessionId' = None
  /\ Goto(t, "look")
  /\ UNCHANGED <<callVars, lock, plugged, imuVars, sessionActive, sampleHz,
                 statusVars, sampleVars, eventVars>>

\* "ready" if self._imu is not None else "degraded": read here, assigned later
LookAtImu(t) ==
  /\ At(t, "look")
  /\ Goto(t, IF imu THEN "stopready" ELSE "stopdegraded")
  /\ UNCHANGED <<callVars, lock, plugged, imuVars, sessionVars, statusVars,
                 sampleVars, eventVars>>

\* Mutant: a state that status() does not know.
MarkStoppedAs(t) ==
  /\ pc[t] \in {"stopready", "stopdegraded"}
  /\ state' = "stopped"
  /\ Goto(t, "wake")
  /\ UNCHANGED <<callVars, lock, plugged, imuVars, sessionVars, tareApplied,
                 lastError, sampleVars, eventVars>>

MarkStopped(t) ==
  /\ \/ At(t, "stopready") /\ state' = "ready"
     \/ At(t, "stopdegraded") /\ state' = "degraded"
  /\ Goto(t, "wake")
  /\ UNCHANGED <<callVars, lock, plugged, imuVars, sessionVars, tareApplied,
                 lastError, sampleVars, eventVars>>

\* The answer is sent and the HTTP thread is free for the next request.
SendReply(h) ==
  /\ At(h, "reply")
  /\ Goto(h, "idle")
  /\ req' = [req EXCEPT ![h] = NoRequest]
  /\ reply' = [reply EXCEPT ![h] = None]
  /\ UNCHANGED <<lock, plugged, imuVars, sessionVars, statusVars, sampleVars,
                 eventVars>>

-----------------------------------------------------------------------------
(* The main thread: start(), the boot session, run_server, close() *)

\* start() starts the sampling thread; the boot session, if configured, is
\* started before any request is served.
StartWorker ==
  /\ At(Main, "spawn")
  /\ pc' = [pc EXCEPT ![Worker] = "loop",
                      ![Main] = IF BootSession THEN "check" ELSE "serve"]
  /\ req' = [req EXCEPT ![Main] = IF BootSession THEN BootRequest ELSE NoRequest]
  /\ UNCHANGED <<reply, lock, plugged, imuVars, sessionVars, statusVars,
                 sampleVars, eventVars>>

\* A ServiceError of the boot session is ignored; another exception ends main
\* before it serves anything.
BootSessionDone ==
  /\ At(Main, "reply")
  /\ Goto(Main, IF reply[Main] = "NO_RESPONSE" THEN "exited" ELSE "serve")
  /\ req' = [req EXCEPT ![Main] = NoRequest]
  /\ reply' = [reply EXCEPT ![Main] = None]
  /\ UNCHANGED <<lock, plugged, imuVars, sessionVars, statusVars, sampleVars,
                 eventVars>>

\* serve_forever is interrupted; close() sets the stop event, then the wake event.
Interrupt ==
  /\ At(Main, "serve")
  /\ stopEvent' = TRUE
  /\ Goto(Main, "closing")
  /\ UNCHANGED <<callVars, lock, plugged, imuVars, sessionVars, statusVars,
                 sampleVars, wakeEvent>>

WakeToStop ==
  /\ At(Main, "closing")
  /\ wakeEvent' = TRUE
  /\ Goto(Main, "join")
  /\ UNCHANGED <<callVars, lock, plugged, imuVars, sessionVars, statusVars,
                 sampleVars, stopEvent>>

\* join(timeout=5) returns, with the worker ended or not, and the process ends.
Exit ==
  /\ At(Main, "join")
  /\ Goto(Main, "exited")
  /\ UNCHANGED <<callVars, lock, plugged, imuVars, sessionVars, statusVars,
                 sampleVars, eventVars>>

-----------------------------------------------------------------------------
(* The sampling thread: _run, _drop_connection, _emit_sample *)

\* while not self._stop_event.is_set()
Loop ==
  /\ At(Worker, "loop")
  /\ Goto(Worker, IF stopEvent THEN "exit" ELSE "gate")
  /\ UNCHANGED <<callVars, lock, plugged, imuVars, sessionVars, statusVars,
                 sampleVars, eventVars>>

\* Mutant: the worker samples with no session.
OpenGate ==
  /\ At(Worker, "gate")
  /\ Goto(Worker, "ensure")
  /\ UNCHANGED <<callVars, lock, plugged, imuVars, sessionVars, statusVars,
                 sampleVars, eventVars>>

\* if not self._session_active: wait, otherwise _ensure_connected
Gate ==
  /\ At(Worker, "gate")
  /\ Goto(Worker, IF sessionActive THEN "ensure" ELSE "wait")
  /\ UNCHANGED <<callVars, lock, plugged, imuVars, sessionVars, statusVars,
                 sampleVars, eventVars>>

\* self._wake_event.wait(timeout=0.25) returns because the event is set ...
Woken ==
  /\ At(Worker, "wait") /\ wakeEvent
  /\ Goto(Worker, "unwake")
  /\ UNCHANGED <<callVars, lock, plugged, imuVars, sessionVars, statusVars,
                 sampleVars, eventVars>>

\* ... or because 0.25 s are over.
WaitTimeout ==
  /\ At(Worker, "wait") /\ ~wakeEvent
  /\ Goto(Worker, "unwake")
  /\ UNCHANGED <<callVars, lock, plugged, imuVars, sessionVars, statusVars,
                 sampleVars, eventVars>>

\* Mutant: the worker waits again and does not look at the session in between.
ClearWakeAndWait ==
  /\ At(Worker, "unwake")
  /\ wakeEvent' = FALSE
  /\ Goto(Worker, "wait")
  /\ UNCHANGED <<callVars, lock, plugged, imuVars, sessionVars, statusVars,
                 sampleVars, stopEvent>>

ClearWake ==
  /\ At(Worker, "unwake")
  /\ wakeEvent' = FALSE
  /\ Goto(Worker, "loop")
  /\ UNCHANGED <<callVars, lock, plugged, imuVars, sessionVars, statusVars,
                 sampleVars, stopEvent>>

\* self._imu.read_data() under the lock: the driver numbers the sample.
ReadData ==
  /\ At(Worker, "read") /\ lock = None
  /\ imu /\ plugged
  /\ counter < MaxCounter
  /\ sample' = [NoSample EXCEPT !.counter = counter]
  /\ counter' = counter + 1
  /\ Goto(Worker, "emit")
  /\ UNCHANGED <<callVars, lock, plugged, imu, imuTared, sessionVars, statusVars,
                 lastSample, stragglers, eventVars>>

\* read_data raises, or there is no driver object any more.
ReadFails ==
  /\ At(Worker, "read") /\ lock = None
  /\ ~(imu /\ plugged)
  /\ Goto(Worker, "drop")
  /\ UNCHANGED <<callVars, lock, plugged, imuVars, sessionVars, statusVars,
                 sampleVars, eventVars>>

\* _drop_connection: the driver object is forgotten under the lock ...
DropImu ==
  /\ At(Worker, "drop") /\ lock = None
  /\ ForgetImu
  /\ Goto(Worker, "droperr")
  /\ UNCHANGED <<callVars, lock, plugged, sessionVars, statusVars, sampleVars,
                 eventVars>>

\* ... and _set_error("READ_FAILED", ...) runs after the lock is released.
SetReadFailed ==
  /\ At(Worker, "droperr")
  /\ lastError' = "READ_FAILED"
  /\ Goto(Worker, "dropstate")
  /\ UNCHANGED <<callVars, lock, plugged, imuVars, sessionVars, state,
                 tareApplied, sampleVars, eventVars>>

MarkDropped ==
  /\ At(Worker, "dropstate")
  /\ state' = "degraded"
  /\ Goto(Worker, "loop")
  /\ UNCHANGED <<callVars, lock, plugged, imuVars, sessionVars, tareApplied,
                 lastError, sampleVars, eventVars>>

\* _emit_sample labels the sample with the session id of this moment ...
LabelSample ==
  /\ At(Worker, "emit")
  /\ sample' = [sample EXCEPT !.session = sessionId]
  /\ Goto(Worker, "publish")
  /\ UNCHANGED <<callVars, lock, plugged, imuVars, sessionVars, statusVars,
                 lastSample, stragglers, eventVars>>

\* ... and hands it to latest_sample() and to the streams.  The pause until the
\* next read is left out: it only delays.
PublishSample ==
  /\ At(Worker, "publish")
  /\ lastSample' = sample
  /\ sample' = NoSample
  /\ stragglers' = IF sessionActive THEN stragglers ELSE stragglers + 1
  /\ Goto(Worker, "loop")
  /\ UNCHANGED <<callVars, lock, plugged, imuVars, sessionVars, statusVars,
                 eventVars>>

-----------------------------------------------------------------------------
(* The environment and the specification *)

\* The sensor is unplugged, or fails, or comes back.
Replug ==
  /\ plugged' = ~plugged
  /\ UNCHANGED <<pc, callVars, lock, imuVars, sessionVars, statusVars,
                 sampleVars, eventVars>>

\* The process has ended, its daemon threads with it.
Terminated == At(Main, "exited") /\ UNCHANGED vars

Init ==
  /\ pc = [t \in Threads |-> CASE t = Main -> "ensure"
                               [] t = Worker -> "unstarted"
                               [] OTHER -> "idle"]
  /\ req = [t \in Threads |-> NoRequest]
  /\ reply = [t \in Threads |-> None]
  /\ lock = None
  /\ plugged \in BOOLEAN
  /\ imu = FALSE /\ counter = 0 /\ imuTared = FALSE
  /\ sessionActive = FALSE /\ sessionId = None /\ sampleHz = None
  /\ state = "starting" /\ tareApplied = FALSE /\ lastError = None
  /\ sample = NoSample /\ lastSample = NoSample /\ stragglers = 0
  /\ wakeEvent = FALSE /\ stopEvent = FALSE

Ensure(t) ==
  \/ EnsureConnected(t) \/ EnsureLock(t)
  \/ OpenHardware(t) \/ OpenFails(t) \/ ForgetTare(t)
  \/ TareOnConnect(t) \/ TareOnConnectFails(t)
  \/ MarkReady(t) \/ ClearError(t) \/ SetNotFound(t) \/ MarkDegraded(t)

StartSession(t) ==
  \/ CheckNotActive(t)
  \/ PrepareNoTare(t) \/ PrepareUnsupported(t) \/ PrepareTare(t)
  \/ PrepareTareFails(t)
  \/ SetSampleHz(t) \/ SetSessionId(t) \/ Activate(t) \/ MarkRunning(t) \/ Wake(t)

StopSession(h) ==
  \/ CheckActive(h)
  \/ Deactivate(h) \/ ClearSessionId(h) \/ LookAtImu(h) \/ MarkStopped(h)

\* What a handler does once it has taken a request.
Handle(h) == Ensure(h) \/ StartSession(h) \/ StopSession(h) \/ SendReply(h)

MainStep ==
  \/ Ensure(Main) \/ StartSession(Main)
  \/ StartWorker \/ BootSessionDone \/ WakeToStop \/ Exit

\* What the worker does, except for the timeout of its wait.
WorkerStep ==
  \/ Ensure(Worker)
  \/ Loop \/ Gate \/ Woken \/ ClearWake
  \/ ReadData \/ ReadFails \/ LabelSample \/ PublishSample
  \/ DropImu \/ SetReadFailed \/ MarkDropped

Next ==
  \/ /\ pc[Main] # "exited"
     /\ \/ \E h \in Handlers : Receive(h) \/ Handle(h)
        \/ MainStep
        \/ Interrupt
        \/ WorkerStep
        \/ WaitTimeout
        \/ Replug
  \/ Terminated

Spec == Init /\ [][Next]_vars

\* Every thread that can go on does.  A thread that waits for _imu_lock gets it
\* in the end: the worker, the only thread that takes the lock again and again,
\* sleeps with the lock free after each failed attempt and between two reads.
\* Nobody has to send a request, to interrupt the service or to plug the sensor
\* in, and the worker is woken by its event, not by the timeout of its wait.
AtLock(t) == pc[t] \in {"ensure", "prepare", "read", "drop"}

Fairness ==
  /\ WF_vars(WorkerStep) /\ WF_vars(MainStep)
  /\ \A h \in Handlers : /\ WF_vars(Handle(h))
                         /\ SF_vars(AtLock(h) /\ Handle(h))
  /\ SF_vars(AtLock(Worker) /\ WorkerStep)

FairSpec == Spec /\ Fairness

-----------------------------------------------------------------------------
(* Properties *)

TypeOK ==
  /\ pc \in [Threads -> HandlerPlaces \union MainPlaces \union WorkerPlaces]
  /\ \A h \in Handlers : pc[h] \in HandlerPlaces
  /\ pc[Main] \in MainPlaces /\ pc[Worker] \in WorkerPlaces
  /\ req \in [Threads -> StartRequest \union
                         {TareRequest, StopRequest, BootRequest, NoRequest}]
  /\ reply \in [Threads -> Replies \union {None}]
  /\ lock \in Threads \union {None}
  /\ plugged \in BOOLEAN
  /\ imu \in BOOLEAN /\ counter \in 0 .. MaxCounter /\ imuTared \in BOOLEAN
  /\ sessionActive \in BOOLEAN
  /\ sessionId \in SessionIds \union {None}
  /\ sampleHz \in SessionIds \union {None}
  /\ state \in {"starting", "ready", "running", "degraded"}
  /\ tareApplied \in BOOLEAN
  /\ lastError \in ErrorCodes \union {None}
  /\ sample \in Sample /\ lastSample \in Sample
  /\ wakeEvent \in BOOLEAN /\ stopEvent \in BOOLEAN
  /\ stragglers \in Nat

\* The hardware is never opened while it is open: a thread at the factory call
\* has seen that there is no connection, nobody has made one since, and no other
\* thread is inside _ensure_connected's critical section.
SingleConnection ==
  \A t \in Threads :
    pc[t] = "connect" => /\ ~imu
                         /\ \A u \in Threads \ {t} : pc[u] \notin Connecting

\* The worker never reads a driver object that is gone: the "IMU disconnected"
\* exception of _run cannot happen, for only the worker drops a connection.
WorkerFindsImu == At(Worker, "read") => imu

\* When status() reports a tare on a live connection, the driver object that is
\* connected now was tared: a reconnect never inherits the flag of the object
\* before it.  (While the lock is held the flag may still be that of the old one.)
TareTruthful == tareApplied /\ imu /\ lock = None => imuTared

\* A missing IMU is explained: once start() has tried, status() shows an error
\* code whenever there is no connection, except while someone is connecting or the
\* worker is between forgetting the driver object and recording why.
MissingImuExplained ==
  ~imu /\ lock = None /\ state # "starting" /\ ~At(Worker, "droperr")
    => lastError # None

\* After a stop at most one more sample goes out, the one that was in flight.
OneStraggler == stragglers <= 1

\* No wake-up is lost: when the worker sleeps in wait() with its event clear,
\* there is no session and no stop to act on, or the thread that made one is still
\* about to set the event.  The 0.25 s timeout is not needed.
NoLostWakeup ==
  At(Worker, "wait") /\ ~wakeEvent =>
    /\ sessionActive => \E t \in Threads : pc[t] \in {"running", "wake"}
    /\ stopEvent => At(Main, "closing")

\* The counters of the samples that go out show every loss: each is the successor
\* of the one before it, or 0 after a reset or a reconnect.
CountersContiguous ==
  [][lastSample'.counter \in {0, lastSample.counter + 1}]_lastSample

\* Every control request gets its answer or, with NO_RESPONSE, the end of its connection
\* without one, unless the process ends first: no thread keeps _imu_lock for good and none waits for it for good,
\* whatever the sensor does.
RequestsAnswered ==
  \A h \in Handlers : ~At(h, "idle") ~> At(h, "idle") \/ At(Main, "exited")

\* A session that is not stopped, with a sensor that comes back to stay, is sampled:
\* the worker is neither left asleep nor stuck in its recovery from the failures
\* before.  It does not need the timeout of its wait for that.
SamplingGoesOn ==
  <>[](sessionActive /\ plugged /\ At(Main, "serve")) => <>[](counter = MaxCounter)
=============================================================================
