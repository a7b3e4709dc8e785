--------------------- MODULE IMUHardwareService_proofs ---------------------
(***************************************************************************)
(* Proofs of the invariants of IMUHardwareService, for any number of       *)
(* handlers and sessions, any requests, and both kinds of driver.          *)
(***************************************************************************)
EXTENDS IMUHardwareService, TLAPS

(***************************************************************************)
(* The inductive invariant, part by part.                                  *)
(***************************************************************************)

\* Only a thread that serves a request goes the ways of a request.
RequestInv ==
  /\ req[Worker] = NoRequest
  /\ \A h \in Handlers : ~At(h, "idle") => req[h] \in Requests

TypeInv == TypeOK /\ RequestInv

\* _imu_lock is held by the thread that is inside _ensure_connected.
LockInv == \A t \in Threads : pc[t] \in Connecting <=> lock = t

\* What the holder of the lock knows of the connection.
ConnectionInv ==
  \A t \in Threads :
    /\ pc[t] \in {"connect", "fail", "degrade"} => ~imu
    /\ pc[t] \in {"opened", "autotare", "ready", "clear"} => imu

\* Nobody connects while the worker is about to read.
ReadInv == At(Worker, "read") => imu /\ lock = None

\* The flag may be that of the last connection only until ForgetTare.
TareInv ==
  tareApplied /\ imu => imuTared \/ \E t \in Threads : At(t, "opened")

\* start() is still running: it connects, and then starts the worker.
Starting ==
  \/ At(Main, "spawn")
  \/ pc[Main] \in {"ensure"} \union Connecting /\ req[Main] = NoRequest

\* Until start() is done nobody else does anything, and the state is "starting"
\* only until it has tried to connect.
StartInv ==
  /\ Starting <=> At(Worker, "unstarted")
  /\ Starting => \A h \in Handlers : At(h, "idle")
  /\ state = "starting" => /\ Starting
                           /\ pc[Main] \notin {"spawn", "clear"}
                           /\ imu => pc[Main] \in {"opened", "autotare", "ready"}

ErrorInv ==
  /\ ~imu /\ lastError = None =>
       lock # None \/ state = "starting" \/ At(Worker, "droperr")
  /\ \A t \in Threads : At(t, "degrade") => lastError # None

StragglerInv ==
  /\ stragglers \in {0, 1}
  /\ stragglers = 1 => /\ ~sessionActive
                       /\ pc[Worker] \in {"loop", "gate", "wait", "unwake", "exit"}

WakeInv ==
  ~wakeEvent =>
    /\ At(Worker, "wait") /\ sessionActive =>
         \E t \in Threads : pc[t] \in {"running", "wake"}
    /\ pc[Worker] \in {"gate", "wait"} /\ stopEvent => At(Main, "closing")

CounterInv ==
  IF pc[Worker] \in {"emit", "publish"}
  THEN /\ sample.counter \in {0, lastSample.counter + 1}
       /\ counter \in {0, sample.counter + 1}
  ELSE counter \in {0, lastSample.counter + 1}

IInv ==
  /\ TypeInv /\ LockInv /\ ConnectionInv /\ ReadInv /\ TareInv /\ StartInv
  /\ ErrorInv /\ StragglerInv /\ WakeInv /\ CounterInv

-----------------------------------------------------------------------------
(***************************************************************************)
(* Facts about the constants.                                              *)
(***************************************************************************)

\* A request is never NoRequest, and each has a session id to be typed.
LEMMA RequestFacts ==
  /\ \A r \in Requests : r # NoRequest
  /\ BootRequest # NoRequest
  /\ NoRequest \notin Requests /\ NoRequest.op = "none"
  /\ BootRequest.session_id \in SessionIds
  /\ \A r \in StartRequest \union {TareRequest, StopRequest, BootRequest, NoRequest} :
       r.session_id \in SessionIds \union {None}
BY ServiceAssumption DEF ServiceAssumption, Requests, StartRequest, TareRequest,
   StopRequest, NoRequest, BootRequest

LEMMA ThreadFacts ==
  /\ Main \in Threads /\ Worker \in Threads /\ Main # Worker
  /\ \A h \in Handlers : h \in Threads /\ h # Main /\ h # Worker
  /\ \A t \in Threads : t = Main \/ t = Worker \/ t \in Handlers
  /\ None \notin Threads /\ None \notin SessionIds
BY ServiceAssumption DEF ServiceAssumption, Threads

\* The actions that are not those of a request, in groups for the proofs.
Lifecycle == StartWorker \/ BootSessionDone \/ WakeToStop \/ Exit \/ Interrupt

Pausing == Loop \/ Gate \/ Woken \/ WaitTimeout \/ ClearWake

Sampling ==
  \/ ReadData \/ ReadFails \/ DropImu \/ SetReadFailed \/ MarkDropped
  \/ LabelSample \/ PublishSample

\* Every action keeps every variable in its type.
LEMMA TypeStep == TypeInv /\ [Next]_vars => TypeInv'
<1> SUFFICES ASSUME TypeInv, [Next]_vars PROVE TypeInv'
  OBVIOUS
<1> USE ThreadFacts, RequestFacts, ServiceAssumption
    DEF ServiceAssumption, TypeInv, TypeOK, RequestInv, At, Goto,
        imuVars, sessionVars, statusVars, sampleVars,
        eventVars, callVars, HandlerPlaces, MainPlaces, WorkerPlaces, StartPlaces,
        Connecting
<1>1. ASSUME NEW t \in Threads, Ensure(t) PROVE TypeInv'
  <2>1. CASE EnsureConnected(t)
    BY <2>1, <1>1 DEF EnsureConnected, ReturnsTrue
  <2>2. CASE EnsureLock(t)
    BY <2>2, <1>1 DEF EnsureLock
  <2>3. CASE OpenHardware(t)
    <3>1. imu' \in BOOLEAN /\ imuTared' \in BOOLEAN
      BY <2>3, <1>1 DEF OpenHardware, At, Goto
    <3> QED BY <3>1, <2>3, <1>1 DEF OpenHardware
  <2>4. CASE OpenFails(t)
    BY <2>4, <1>1 DEF OpenFails
  <2>5. CASE ForgetTare(t)
    <3>1. tareApplied' \in BOOLEAN
      BY <2>5, <1>1 DEF ForgetTare, At, Goto
    <3> QED BY <3>1, <2>5, <1>1 DEF ForgetTare
  <2>6. CASE TareOnConnect(t)
    BY <2>6, <1>1 DEF TareOnConnect
  <2>7. CASE TareOnConnectFails(t)
    <3>1. imu' \in BOOLEAN /\ imuTared' \in BOOLEAN
      BY <2>7, <1>1 DEF TareOnConnectFails, ForgetImu, At, Goto
    <3> QED BY <3>1, <2>7, <1>1 DEF TareOnConnectFails, ForgetImu
  <2>8. CASE MarkReady(t)
    BY <2>8, <1>1 DEF MarkReady
  <2>9. CASE ClearError(t)
    BY <2>9, <1>1 DEF ClearError, ReturnsTrue
  <2>10. CASE SetNotFound(t)
    BY <2>10, <1>1 DEF SetNotFound, ErrorCodes
  <2>11. CASE MarkDegraded(t)
    BY <2>11, <1>1 DEF MarkDegraded, ReturnsFalse, Answer, Replies
  <2> QED
    BY <1>1, <2>1, <2>2, <2>3, <2>4, <2>5, <2>6, <2>7, <2>8, <2>9, <2>10, <2>11
       DEF Ensure
<1>2. ASSUME NEW t \in Threads \ {Worker}, StartSession(t) PROVE TypeInv'
  <2>1. CASE CheckNotActive(t)
    BY <2>1, <1>2 DEF CheckNotActive, Answer, Replies
  <2>2. CASE PrepareNoTare(t)
    BY <2>2, <1>2 DEF PrepareNoTare, ResetCounter
  <2>3. CASE PrepareUnsupported(t)
    BY <2>3, <1>2 DEF PrepareUnsupported, ResetCounter, Answer, Replies
  <2>4. CASE PrepareTare(t)
    BY <2>4, <1>2 DEF PrepareTare, ResetCounter, AfterTare, Answer, Replies
  <2>5. CASE PrepareTareFails(t)
    BY <2>5, <1>2 DEF PrepareTareFails, ResetCounter, Answer, Replies
  <2>6. CASE SetSampleHz(t)
    BY <2>6, <1>2 DEF SetSampleHz
  <2>7. CASE SetSessionId(t)
    BY <2>7, <1>2 DEF SetSessionId
  <2>8. CASE Activate(t)
    BY <2>8, <1>2 DEF Activate
  <2>9. CASE MarkRunning(t)
    BY <2>9, <1>2 DEF MarkRunning
  <2>10. CASE Wake(t)
    BY <2>10, <1>2 DEF Wake, Answer, Replies
  <2> QED BY <1>2, <2>1, <2>2, <2>3, <2>4, <2>5, <2>6, <2>7, <2>8, <2>9, <2>10
    DEF StartSession
<1>3. ASSUME NEW h \in Handlers, StopSession(h) PROVE TypeInv'
  <2>1. CASE CheckActive(h)
    BY <2>1, <1>3 DEF CheckActive, Answer, Replies
  <2>2. CASE Deactivate(h)
    <3>1. sessionActive' \in BOOLEAN
      BY <2>2, <1>3 DEF Deactivate, At, Goto
    <3> QED BY <3>1, <2>2, <1>3 DEF Deactivate
  <2>3. CASE ClearSessionId(h)
    BY <2>3, <1>3 DEF ClearSessionId
  <2>4. CASE LookAtImu(h)
    BY <2>4, <1>3 DEF LookAtImu
  <2>5. CASE MarkStopped(h)
    BY <2>5, <1>3 DEF MarkStopped
  <2> QED BY <1>3, <2>1, <2>2, <2>3, <2>4, <2>5 DEF StopSession
<1>4. ASSUME NEW h \in Handlers, Receive(h) \/ SendReply(h) PROVE TypeInv'
  <2>1. CASE Receive(h)
    BY <2>1, <1>4 DEF Receive, Requests
  <2>2. CASE SendReply(h)
    BY <2>2, <1>4 DEF SendReply
  <2> QED BY <1>4, <2>1, <2>2
<1>5. ASSUME Lifecycle PROVE TypeInv'
  <2>1. CASE StartWorker
    BY <2>1 DEF StartWorker
  <2>2. CASE BootSessionDone
    BY <2>2 DEF BootSessionDone
  <2>3. CASE Interrupt
    BY <2>3 DEF Interrupt
  <2>4. CASE WakeToStop
    BY <2>4 DEF WakeToStop
  <2>5. CASE Exit
    BY <2>5 DEF Exit
  <2> QED BY <1>5, <2>1, <2>2, <2>3, <2>4, <2>5 DEF Lifecycle
<1>6. ASSUME Pausing PROVE TypeInv'
  <2>1. CASE Loop
    BY <2>1 DEF Loop
  <2>2. CASE Gate
    BY <2>2 DEF Gate
  <2>3. CASE Woken
    BY <2>3 DEF Woken
  <2>4. CASE WaitTimeout
    BY <2>4 DEF WaitTimeout
  <2>5. CASE ClearWake
    <3>1. wakeEvent' \in BOOLEAN
      BY <2>5 DEF ClearWake, At, Goto
    <3> QED BY <3>1, <2>5 DEF ClearWake
  <2> QED BY <1>6, <2>1, <2>2, <2>3, <2>4, <2>5 DEF Pausing
<1>7. ASSUME Sampling PROVE TypeInv'
  <2>1. CASE ReadData
    BY <2>1 DEF ReadData, Sample, NoSample
  <2>2. CASE ReadFails
    BY <2>2 DEF ReadFails
  <2>3. CASE DropImu
    <3>1. imu' \in BOOLEAN /\ imuTared' \in BOOLEAN
      BY <2>3 DEF DropImu, ForgetImu, At, Goto
    <3> QED BY <3>1, <2>3 DEF DropImu, ForgetImu
  <2>4. CASE SetReadFailed
    BY <2>4 DEF SetReadFailed, ErrorCodes
  <2>5. CASE MarkDropped
    BY <2>5 DEF MarkDropped
  <2>6. CASE LabelSample
    BY <2>6 DEF LabelSample, Sample, NoSample
  <2>7. CASE PublishSample
    BY <2>7 DEF PublishSample, Sample, NoSample
  <2> QED BY <1>7, <2>1, <2>2, <2>3, <2>4, <2>5, <2>6, <2>7 DEF Sampling
<1>8. ASSUME Replug PROVE TypeInv'
  BY <1>8 DEF Replug
<1>9. CASE UNCHANGED vars
  BY <1>9 DEF vars
<1> QED
  BY <1>1, <1>2, <1>3, <1>4, <1>5, <1>6, <1>7, <1>8, <1>9
     DEF Next, Handle, MainStep, WorkerStep, Terminated, Lifecycle, Pausing, Sampling

\* Nothing happens before start() is done.
LEMMA StartStep == TypeInv /\ StartInv /\ [Next]_vars => StartInv'
<1> SUFFICES ASSUME TypeInv /\ StartInv, [Next]_vars PROVE StartInv'
  OBVIOUS
<1>a. pc \in [Threads -> HandlerPlaces \union MainPlaces \union WorkerPlaces]
  BY DEF TypeInv, TypeOK
<1>b. /\ req \in [Threads -> StartRequest \union
                           {TareRequest, StopRequest, BootRequest, NoRequest}]
      /\ RequestInv
  BY DEF TypeInv, TypeOK
<1> USE ThreadFacts, <1>a, <1>b, RequestFacts
    DEF RequestInv, StartInv, Starting, Connecting, At, Goto, imuVars, sessionVars,
        statusVars, sampleVars, eventVars, callVars
<1>1. ASSUME NEW t \in Threads, Ensure(t)
      PROVE  StartInv'
  <2>1. CASE EnsureConnected(t)
    BY <2>1, <1>1 DEF EnsureConnected, ReturnsTrue
  <2>2. CASE EnsureLock(t)
    BY <2>2, <1>1 DEF EnsureLock
  <2>3. CASE OpenHardware(t)
    BY <2>3, <1>1 DEF OpenHardware
  <2>4. CASE OpenFails(t)
    BY <2>4, <1>1 DEF OpenFails
  <2>5. CASE ForgetTare(t)
    BY <2>5, <1>1 DEF ForgetTare
  <2>6. CASE TareOnConnect(t)
    BY <2>6, <1>1 DEF TareOnConnect
  <2>7. CASE TareOnConnectFails(t)
    BY <2>7, <1>1 DEF TareOnConnectFails, ForgetImu
  <2>8. CASE MarkReady(t)
    BY <2>8, <1>1 DEF MarkReady
  <2>9. CASE ClearError(t)
    BY <2>9, <1>1 DEF ClearError, ReturnsTrue
  <2>10. CASE SetNotFound(t)
    BY <2>10, <1>1 DEF SetNotFound
  <2>11. CASE MarkDegraded(t)
    BY <2>11, <1>1 DEF MarkDegraded, ReturnsFalse, Answer
  <2> QED BY <1>1, <2>1, <2>2, <2>3, <2>4, <2>5, <2>6, <2>7, <2>8, <2>9, <2>10,
       <2>11 DEF Ensure
<1>2. ASSUME NEW t \in Threads \ {Worker}, StartSession(t)
      PROVE  StartInv'
  <2>1. CASE CheckNotActive(t)
    BY <2>1, <1>2 DEF CheckNotActive, Answer
  <2>2. CASE PrepareNoTare(t)
    BY <2>2, <1>2 DEF PrepareNoTare
  <2>3. CASE PrepareUnsupported(t)
    BY <2>3, <1>2 DEF PrepareUnsupported, Answer
  <2>4. CASE PrepareTare(t)
    BY <2>4, <1>2 DEF PrepareTare, AfterTare, Answer
  <2>5. CASE PrepareTareFails(t)
    BY <2>5, <1>2 DEF PrepareTareFails, Answer
  <2>6. CASE SetSampleHz(t)
    BY <2>6, <1>2 DEF SetSampleHz
  <2>7. CASE SetSessionId(t)
    BY <2>7, <1>2 DEF SetSessionId
  <2>8. CASE Activate(t)
    BY <2>8, <1>2 DEF Activate
  <2>9. CASE MarkRunning(t)
    BY <2>9, <1>2 DEF MarkRunning
  <2>10. CASE Wake(t)
    BY <2>10, <1>2 DEF Wake, Answer
  <2> QED BY <1>2, <2>1, <2>2, <2>3, <2>4, <2>5, <2>6, <2>7, <2>8, <2>9, <2>10 DEF
       StartSession
<1>3. ASSUME NEW h \in Handlers, StopSession(h)
      PROVE  StartInv'
  BY <1>3 DEF StopSession, CheckActive, Deactivate, ClearSessionId, LookAtImu,
       MarkStopped,
     Answer
<1>4. ASSUME NEW h \in Handlers, Receive(h) \/ SendReply(h)
      PROVE  StartInv'
  BY <1>4 DEF Receive, SendReply
<1>5. ASSUME Lifecycle
      PROVE  StartInv'
  BY <1>5 DEF Lifecycle, StartWorker, BootSessionDone, WakeToStop, Exit, Interrupt
<1>6. ASSUME Pausing
      PROVE  StartInv'
  BY <1>6 DEF Pausing, Loop, Gate, Woken, WaitTimeout, ClearWake
<1>7. ASSUME Sampling
      PROVE  StartInv'
  BY <1>7 DEF Sampling, ReadData, ReadFails, DropImu, SetReadFailed, MarkDropped,
       LabelSample,
     PublishSample, ForgetImu
<1>8. CASE Replug
  BY <1>8 DEF Replug
<1>9. CASE UNCHANGED vars
  BY <1>9 DEF vars
<1> QED
  BY <1>1, <1>2, <1>3, <1>4, <1>5, <1>6, <1>7, <1>8, <1>9
     DEF Next, Handle, MainStep, WorkerStep, Terminated, Lifecycle, Pausing,
          Sampling

\* The lock is taken by the step into _ensure_connected's critical section and
\* released by the step out of it.
LEMMA LockStep == TypeInv /\ StartInv /\ LockInv /\ [Next]_vars => LockInv'
<1> SUFFICES ASSUME TypeInv /\ StartInv /\ LockInv, [Next]_vars PROVE LockInv'
  OBVIOUS
<1>a. pc \in [Threads -> HandlerPlaces \union MainPlaces \union WorkerPlaces]
  BY DEF TypeInv, TypeOK
<1> USE ThreadFacts, <1>a
    DEF LockInv, Connecting, At, Goto, imuVars, sessionVars, statusVars, sampleVars,
        eventVars, callVars
<1>1. ASSUME NEW t \in Threads, Ensure(t)
      PROVE  LockInv'
  BY <1>1 DEF Ensure, EnsureConnected, EnsureLock, OpenHardware, OpenFails,
       ForgetTare,
     TareOnConnect, TareOnConnectFails, MarkReady, ClearError, SetNotFound,
          MarkDegraded,
     ReturnsTrue, ReturnsFalse, ForgetImu, Answer
<1>2. ASSUME NEW t \in Threads \ {Worker}, StartSession(t)
      PROVE  LockInv'
  BY <1>2 DEF StartSession, CheckNotActive, PrepareNoTare, PrepareUnsupported,
       PrepareTare,
     PrepareTareFails, ResetCounter, AfterTare, SetSampleHz, SetSessionId, Activate,
     MarkRunning, Wake, Answer
<1>3. ASSUME NEW h \in Handlers, StopSession(h)
      PROVE  LockInv'
  BY <1>3 DEF StopSession, CheckActive, Deactivate, ClearSessionId, LookAtImu,
       MarkStopped,
     Answer
<1>4. ASSUME NEW h \in Handlers, Receive(h) \/ SendReply(h)
      PROVE  LockInv'
  BY <1>4 DEF Receive, SendReply
<1>5. ASSUME Lifecycle
      PROVE  LockInv'
  BY <1>5 DEF Lifecycle, StartWorker, BootSessionDone, WakeToStop, Exit, Interrupt,
       StartInv, Starting
<1>6. ASSUME Pausing
      PROVE  LockInv'
  BY <1>6 DEF Pausing, Loop, Gate, Woken, WaitTimeout, ClearWake
<1>7. ASSUME Sampling
      PROVE  LockInv'
  BY <1>7 DEF Sampling, ReadData, ReadFails, DropImu, SetReadFailed, MarkDropped,
       LabelSample,
     PublishSample, ForgetImu
<1>8. CASE Replug
  BY <1>8 DEF Replug
<1>9. CASE UNCHANGED vars
  BY <1>9 DEF vars
<1> QED
  BY <1>1, <1>2, <1>3, <1>4, <1>5, <1>6, <1>7, <1>8, <1>9
     DEF Next, Handle, MainStep, WorkerStep, Terminated, Lifecycle, Pausing,
          Sampling

\* Nobody else touches the connection while a thread makes one.
LEMMA ConnectionStep ==
  TypeInv /\ StartInv /\ LockInv /\ ConnectionInv /\ [Next]_vars => ConnectionInv'
<1> SUFFICES ASSUME TypeInv /\ StartInv /\ LockInv /\ ConnectionInv, [Next]_vars
             PROVE  ConnectionInv'
  OBVIOUS
<1>a. pc \in [Threads -> HandlerPlaces \union MainPlaces \union WorkerPlaces]
  BY DEF TypeInv, TypeOK
<1> USE ThreadFacts, <1>a
    DEF LockInv, ConnectionInv, Connecting, At, Goto, imuVars, sessionVars,
        statusVars, sampleVars, eventVars, callVars
<1>1. ASSUME NEW t \in Threads, Ensure(t)
      PROVE  ConnectionInv'
  BY <1>1 DEF Ensure, EnsureConnected, EnsureLock, OpenHardware, OpenFails,
       ForgetTare,
     TareOnConnect, TareOnConnectFails, MarkReady, ClearError, SetNotFound,
          MarkDegraded,
     ReturnsTrue, ReturnsFalse, ForgetImu, Answer
<1>2. ASSUME NEW t \in Threads \ {Worker}, StartSession(t)
      PROVE  ConnectionInv'
  BY <1>2 DEF StartSession, CheckNotActive, PrepareNoTare, PrepareUnsupported,
       PrepareTare,
     PrepareTareFails, ResetCounter, AfterTare, SetSampleHz, SetSessionId, Activate,
     MarkRunning, Wake, Answer
<1>3. ASSUME NEW h \in Handlers, StopSession(h)
      PROVE  ConnectionInv'
  BY <1>3 DEF StopSession, CheckActive, Deactivate, ClearSessionId, LookAtImu,
       MarkStopped,
     Answer
<1>4. ASSUME NEW h \in Handlers, Receive(h) \/ SendReply(h)
      PROVE  ConnectionInv'
  BY <1>4 DEF Receive, SendReply
<1>5. ASSUME Lifecycle
      PROVE  ConnectionInv'
  BY <1>5 DEF Lifecycle, StartWorker, BootSessionDone, WakeToStop, Exit, Interrupt
<1>6. ASSUME Pausing
      PROVE  ConnectionInv'
  BY <1>6 DEF Pausing, Loop, Gate, Woken, WaitTimeout, ClearWake
<1>7. ASSUME Sampling
      PROVE  ConnectionInv'
  BY <1>7 DEF Sampling, ReadData, ReadFails, DropImu, SetReadFailed, MarkDropped,
       LabelSample,
     PublishSample, ForgetImu
<1>8. CASE Replug
  BY <1>8 DEF Replug
<1>9. CASE UNCHANGED vars
  BY <1>9 DEF vars
<1> QED
  BY <1>1, <1>2, <1>3, <1>4, <1>5, <1>6, <1>7, <1>8, <1>9
     DEF Next, Handle, MainStep, WorkerStep, Terminated, Lifecycle, Pausing,
          Sampling

\* The connection the worker has found stays until the worker reads.
LEMMA ReadStep ==
  TypeInv /\ LockInv /\ ConnectionInv /\ ReadInv /\ [Next]_vars => ReadInv'
<1> SUFFICES ASSUME TypeInv /\ LockInv /\ ConnectionInv /\ ReadInv, [Next]_vars
             PROVE  ReadInv'
  OBVIOUS
<1>a. pc \in [Threads -> HandlerPlaces \union MainPlaces \union WorkerPlaces]
  BY DEF TypeInv, TypeOK
<1>b. /\ req \in [Threads -> StartRequest \union
                           {TareRequest, StopRequest, BootRequest, NoRequest}]
      /\ RequestInv
  BY DEF TypeInv, TypeOK
<1> USE ThreadFacts, <1>a, <1>b, RequestFacts
    DEF LockInv, ConnectionInv, ReadInv, Connecting, At, Goto, imuVars, sessionVars,
        statusVars, sampleVars, eventVars, callVars
<1>1. ASSUME NEW t \in Threads, Ensure(t)
      PROVE  ReadInv'
  BY <1>1 DEF Ensure, EnsureConnected, EnsureLock, OpenHardware, OpenFails,
       ForgetTare,
     TareOnConnect, TareOnConnectFails, MarkReady, ClearError, SetNotFound,
          MarkDegraded,
     ReturnsTrue, ReturnsFalse, ForgetImu, Answer
<1>2. ASSUME NEW t \in Threads \ {Worker}, StartSession(t)
      PROVE  ReadInv'
  BY <1>2 DEF StartSession, CheckNotActive, PrepareNoTare, PrepareUnsupported,
       PrepareTare,
     PrepareTareFails, ResetCounter, AfterTare, SetSampleHz, SetSessionId, Activate,
     MarkRunning, Wake, Answer
<1>3. ASSUME NEW h \in Handlers, StopSession(h)
      PROVE  ReadInv'
  BY <1>3 DEF StopSession, CheckActive, Deactivate, ClearSessionId, LookAtImu,
       MarkStopped,
     Answer
<1>4. ASSUME NEW h \in Handlers, Receive(h) \/ SendReply(h)
      PROVE  ReadInv'
  BY <1>4 DEF Receive, SendReply
<1>5. ASSUME Lifecycle
      PROVE  ReadInv'
  BY <1>5 DEF Lifecycle, StartWorker, BootSessionDone, WakeToStop, Exit, Interrupt
<1>6. ASSUME Pausing
      PROVE  ReadInv'
  BY <1>6 DEF Pausing, Loop, Gate, Woken, WaitTimeout, ClearWake
<1>7. ASSUME Sampling
      PROVE  ReadInv'
  BY <1>7 DEF Sampling, ReadData, ReadFails, DropImu, SetReadFailed, MarkDropped,
       LabelSample,
     PublishSample, ForgetImu
<1>8. CASE Replug
  BY <1>8 DEF Replug
<1>9. CASE UNCHANGED vars
  BY <1>9 DEF vars
<1> QED
  BY <1>1, <1>2, <1>3, <1>4, <1>5, <1>6, <1>7, <1>8, <1>9
     DEF Next, Handle, MainStep, WorkerStep, Terminated, Lifecycle, Pausing,
          Sampling

\* A new connection makes the flag false before anyone can see it.
LEMMA TareStep == TypeInv /\ StartInv /\ TareInv /\ [Next]_vars => TareInv'
<1> SUFFICES ASSUME TypeInv /\ StartInv /\ TareInv, [Next]_vars PROVE TareInv'
  OBVIOUS
<1>a. pc \in [Threads -> HandlerPlaces \union MainPlaces \union WorkerPlaces]
  BY DEF TypeInv, TypeOK
<1> USE ThreadFacts, <1>a
    DEF TareInv, At, Goto, imuVars, sessionVars, statusVars, sampleVars, eventVars,
        callVars
<1>1. ASSUME NEW t \in Threads, Ensure(t)
      PROVE  TareInv'
  BY <1>1 DEF Ensure, EnsureConnected, EnsureLock, OpenHardware, OpenFails,
       ForgetTare,
     TareOnConnect, TareOnConnectFails, MarkReady, ClearError, SetNotFound,
          MarkDegraded,
     ReturnsTrue, ReturnsFalse, ForgetImu, Answer
<1>2. ASSUME NEW t \in Threads \ {Worker}, StartSession(t)
      PROVE  TareInv'
  BY <1>2 DEF StartSession, CheckNotActive, PrepareNoTare, PrepareUnsupported,
       PrepareTare,
     PrepareTareFails, ResetCounter, AfterTare, SetSampleHz, SetSessionId, Activate,
     MarkRunning, Wake, Answer
<1>3. ASSUME NEW h \in Handlers, StopSession(h)
      PROVE  TareInv'
  BY <1>3 DEF StopSession, CheckActive, Deactivate, ClearSessionId, LookAtImu,
       MarkStopped,
     Answer
<1>4. ASSUME NEW h \in Handlers, Receive(h) \/ SendReply(h)
      PROVE  TareInv'
  BY <1>4 DEF Receive, SendReply
<1>5. ASSUME Lifecycle
      PROVE  TareInv'
  BY <1>5 DEF Lifecycle, StartWorker, BootSessionDone, WakeToStop, Exit, Interrupt,
       StartInv, Starting
<1>6. ASSUME Pausing
      PROVE  TareInv'
  BY <1>6 DEF Pausing, Loop, Gate, Woken, WaitTimeout, ClearWake
<1>7. ASSUME Sampling
      PROVE  TareInv'
  BY <1>7 DEF Sampling, ReadData, ReadFails, DropImu, SetReadFailed, MarkDropped,
       LabelSample,
     PublishSample, ForgetImu
<1>8. CASE Replug
  BY <1>8 DEF Replug
<1>9. CASE UNCHANGED vars
  BY <1>9 DEF vars
<1> QED
  BY <1>1, <1>2, <1>3, <1>4, <1>5, <1>6, <1>7, <1>8, <1>9
     DEF Next, Handle, MainStep, WorkerStep, Terminated, Lifecycle, Pausing,
          Sampling

\* A connection is lost or refused together with a reason.
LEMMA ErrorStep ==
  TypeInv /\ StartInv /\ LockInv /\ ConnectionInv /\ ErrorInv /\ [Next]_vars => ErrorInv'
<1> SUFFICES ASSUME TypeInv /\ StartInv /\ LockInv /\ ConnectionInv /\ ErrorInv, [Next]_vars
             PROVE  ErrorInv'
  OBVIOUS
<1>a. pc \in [Threads -> HandlerPlaces \union MainPlaces \union WorkerPlaces]
  BY DEF TypeInv, TypeOK
<1> USE ThreadFacts, <1>a, ServiceAssumption
    DEF StartInv, Starting, LockInv, ConnectionInv, ErrorInv, Connecting,
        ErrorCodes, At, Goto, imuVars, sessionVars, statusVars, sampleVars,
        eventVars, callVars
<1>1. ASSUME NEW t \in Threads, Ensure(t)
      PROVE  ErrorInv'
  BY <1>1 DEF Ensure, EnsureConnected, EnsureLock, OpenHardware, OpenFails,
       ForgetTare,
     TareOnConnect, TareOnConnectFails, MarkReady, ClearError, SetNotFound,
          MarkDegraded,
     ReturnsTrue, ReturnsFalse, ForgetImu, Answer
<1>2. ASSUME NEW t \in Threads \ {Worker}, StartSession(t)
      PROVE  ErrorInv'
  BY <1>2 DEF StartSession, CheckNotActive, PrepareNoTare, PrepareUnsupported,
       PrepareTare,
     PrepareTareFails, ResetCounter, AfterTare, SetSampleHz, SetSessionId, Activate,
     MarkRunning, Wake, Answer
<1>3. ASSUME NEW h \in Handlers, StopSession(h)
      PROVE  ErrorInv'
  BY <1>3 DEF StopSession, CheckActive, Deactivate, ClearSessionId, LookAtImu,
       MarkStopped,
     Answer
<1>4. ASSUME NEW h \in Handlers, Receive(h) \/ SendReply(h)
      PROVE  ErrorInv'
  BY <1>4 DEF Receive, SendReply
<1>5. ASSUME Lifecycle
      PROVE  ErrorInv'
  BY <1>5 DEF Lifecycle, StartWorker, BootSessionDone, WakeToStop, Exit, Interrupt
<1>6. ASSUME Pausing
      PROVE  ErrorInv'
  BY <1>6 DEF Pausing, Loop, Gate, Woken, WaitTimeout, ClearWake
<1>7. ASSUME Sampling
      PROVE  ErrorInv'
  BY <1>7 DEF Sampling, ReadData, ReadFails, DropImu, SetReadFailed, MarkDropped,
       LabelSample,
     PublishSample, ForgetImu
<1>8. CASE Replug
  BY <1>8 DEF Replug
<1>9. CASE UNCHANGED vars
  BY <1>9 DEF vars
<1> QED
  BY <1>1, <1>2, <1>3, <1>4, <1>5, <1>6, <1>7, <1>8, <1>9
     DEF Next, Handle, MainStep, WorkerStep, Terminated, Lifecycle, Pausing,
          Sampling

\* Once the worker has seen that there is no session it publishes nothing.
LEMMA StragglerStep == TypeInv /\ StragglerInv /\ [Next]_vars => StragglerInv'
<1> SUFFICES ASSUME TypeInv /\ StragglerInv, [Next]_vars PROVE StragglerInv'
  OBVIOUS
<1>a. pc \in [Threads -> HandlerPlaces \union MainPlaces \union WorkerPlaces]
  BY DEF TypeInv, TypeOK
<1>b. /\ req \in [Threads -> StartRequest \union
                           {TareRequest, StopRequest, BootRequest, NoRequest}]
      /\ RequestInv
  BY DEF TypeInv, TypeOK
<1> USE ThreadFacts, <1>a, <1>b, RequestFacts
    DEF RequestInv, StragglerInv, Connecting, At, Goto, imuVars, sessionVars,
        statusVars, sampleVars, eventVars, callVars
<1>1. ASSUME NEW t \in Threads, Ensure(t)
      PROVE  StragglerInv'
  BY <1>1 DEF Ensure, EnsureConnected, EnsureLock, OpenHardware, OpenFails,
       ForgetTare,
     TareOnConnect, TareOnConnectFails, MarkReady, ClearError, SetNotFound,
          MarkDegraded,
     ReturnsTrue, ReturnsFalse, ForgetImu, Answer
<1>2. ASSUME NEW t \in Threads \ {Worker}, StartSession(t)
      PROVE  StragglerInv'
  BY <1>2 DEF StartSession, CheckNotActive, PrepareNoTare, PrepareUnsupported,
       PrepareTare,
     PrepareTareFails, ResetCounter, AfterTare, SetSampleHz, SetSessionId, Activate,
     MarkRunning, Wake, Answer
<1>3. ASSUME NEW h \in Handlers, StopSession(h)
      PROVE  StragglerInv'
  BY <1>3 DEF StopSession, CheckActive, Deactivate, ClearSessionId, LookAtImu,
       MarkStopped,
     Answer
<1>4. ASSUME NEW h \in Handlers, Receive(h) \/ SendReply(h)
      PROVE  StragglerInv'
  BY <1>4 DEF Receive, SendReply
<1>5. ASSUME Lifecycle
      PROVE  StragglerInv'
  BY <1>5 DEF Lifecycle, StartWorker, BootSessionDone, WakeToStop, Exit, Interrupt
<1>6. ASSUME Pausing
      PROVE  StragglerInv'
  BY <1>6 DEF Pausing, Loop, Gate, Woken, WaitTimeout, ClearWake
<1>7. ASSUME Sampling
      PROVE  StragglerInv'
  BY <1>7 DEF Sampling, ReadData, ReadFails, DropImu, SetReadFailed, MarkDropped,
       LabelSample,
     PublishSample, ForgetImu
<1>8. CASE Replug
  BY <1>8 DEF Replug
<1>9. CASE UNCHANGED vars
  BY <1>9 DEF vars
<1> QED
  BY <1>1, <1>2, <1>3, <1>4, <1>5, <1>6, <1>7, <1>8, <1>9
     DEF Next, Handle, MainStep, WorkerStep, Terminated, Lifecycle, Pausing,
          Sampling

\* Between the last look at session and stop event and the wait, whoever changes
\* them has still to set the wake event.
LEMMA WakeStep == TypeInv /\ WakeInv /\ [Next]_vars => WakeInv'
<1> SUFFICES ASSUME TypeInv /\ WakeInv, [Next]_vars PROVE WakeInv'
  OBVIOUS
<1>a. pc \in [Threads -> HandlerPlaces \union MainPlaces \union WorkerPlaces]
  BY DEF TypeInv, TypeOK
<1> USE ThreadFacts, <1>a
    DEF WakeInv, At, Goto, imuVars, sessionVars, statusVars, sampleVars, eventVars,
        callVars
<1>1. ASSUME NEW t \in Threads, Ensure(t)
      PROVE  WakeInv'
  BY <1>1 DEF Ensure, EnsureConnected, EnsureLock, OpenHardware, OpenFails,
       ForgetTare,
     TareOnConnect, TareOnConnectFails, MarkReady, ClearError, SetNotFound,
          MarkDegraded,
     ReturnsTrue, ReturnsFalse, ForgetImu, Answer
<1>2. ASSUME NEW t \in Threads \ {Worker}, StartSession(t)
      PROVE  WakeInv'
  BY <1>2 DEF StartSession, CheckNotActive, PrepareNoTare, PrepareUnsupported,
       PrepareTare,
     PrepareTareFails, ResetCounter, AfterTare, SetSampleHz, SetSessionId, Activate,
     MarkRunning, Wake, Answer
<1>3. ASSUME NEW h \in Handlers, StopSession(h)
      PROVE  WakeInv'
  BY <1>3 DEF StopSession, CheckActive, Deactivate, ClearSessionId, LookAtImu,
       MarkStopped,
     Answer
<1>4. ASSUME NEW h \in Handlers, Receive(h) \/ SendReply(h)
      PROVE  WakeInv'
  BY <1>4 DEF Receive, SendReply
<1>5. ASSUME Lifecycle
      PROVE  WakeInv'
  BY <1>5 DEF Lifecycle, StartWorker, BootSessionDone, WakeToStop, Exit, Interrupt
<1>6. ASSUME Pausing
      PROVE  WakeInv'
  BY <1>6 DEF Pausing, Loop, Gate, Woken, WaitTimeout, ClearWake
<1>7. ASSUME Sampling
      PROVE  WakeInv'
  BY <1>7 DEF Sampling, ReadData, ReadFails, DropImu, SetReadFailed, MarkDropped,
       LabelSample,
     PublishSample, ForgetImu
<1>8. CASE Replug
  BY <1>8 DEF Replug
<1>9. CASE UNCHANGED vars
  BY <1>9 DEF vars
<1> QED
  BY <1>1, <1>2, <1>3, <1>4, <1>5, <1>6, <1>7, <1>8, <1>9
     DEF Next, Handle, MainStep, WorkerStep, Terminated, Lifecycle, Pausing,
          Sampling

\* The counter is always the next one after the last sample, or 0.
LEMMA CounterStep == TypeInv /\ StartInv /\ CounterInv /\ [Next]_vars => CounterInv'
<1> SUFFICES ASSUME TypeInv /\ StartInv /\ CounterInv, [Next]_vars PROVE CounterInv'
  OBVIOUS
<1>a. pc \in [Threads -> HandlerPlaces \union MainPlaces \union WorkerPlaces]
  BY DEF TypeInv, TypeOK
<1>b. /\ sample \in Sample /\ lastSample \in Sample
      /\ counter \in Int /\ sample.counter \in Int /\ lastSample.counter \in Int
  BY ServiceAssumption DEF ServiceAssumption, TypeInv, TypeOK, Sample
<1> USE ThreadFacts, <1>a, <1>b
    DEF CounterInv, Connecting, At, Goto, imuVars, sessionVars, statusVars,
        sampleVars, eventVars, callVars
<1>1. ASSUME NEW t \in Threads, Ensure(t)
      PROVE  CounterInv'
  BY <1>1 DEF Ensure, EnsureConnected, EnsureLock, OpenHardware, OpenFails,
       ForgetTare,
     TareOnConnect, TareOnConnectFails, MarkReady, ClearError, SetNotFound,
          MarkDegraded,
     ReturnsTrue, ReturnsFalse, ForgetImu, Answer
<1>2. ASSUME NEW t \in Threads \ {Worker}, StartSession(t)
      PROVE  CounterInv'
  BY <1>2 DEF StartSession, CheckNotActive, PrepareNoTare, PrepareUnsupported,
       PrepareTare,
     PrepareTareFails, ResetCounter, AfterTare, SetSampleHz, SetSessionId, Activate,
     MarkRunning, Wake, Answer
<1>3. ASSUME NEW h \in Handlers, StopSession(h)
      PROVE  CounterInv'
  BY <1>3 DEF StopSession, CheckActive, Deactivate, ClearSessionId, LookAtImu,
       MarkStopped,
     Answer
<1>4. ASSUME NEW h \in Handlers, Receive(h) \/ SendReply(h)
      PROVE  CounterInv'
  BY <1>4 DEF Receive, SendReply
<1>5. ASSUME Lifecycle
      PROVE  CounterInv'
  BY <1>5 DEF Lifecycle, StartWorker, BootSessionDone, WakeToStop, Exit, Interrupt,
       StartInv, Starting
<1>6. ASSUME Pausing
      PROVE  CounterInv'
  BY <1>6 DEF Pausing, Loop, Gate, Woken, WaitTimeout, ClearWake
<1>7. ASSUME Sampling
      PROVE  CounterInv'
  <2>1. CASE ReadData
    BY <2>1 DEF ReadData, NoSample
  <2>2. CASE ReadFails
    BY <2>2 DEF ReadFails
  <2>3. CASE DropImu
    BY <2>3 DEF DropImu, ForgetImu
  <2>4. CASE SetReadFailed
    BY <2>4 DEF SetReadFailed
  <2>5. CASE MarkDropped
    BY <2>5 DEF MarkDropped
  <2>6. CASE LabelSample
    BY <2>6 DEF LabelSample, Sample
  <2>7. CASE PublishSample
    BY <2>7 DEF PublishSample, NoSample
  <2> QED BY <1>7, <2>1, <2>2, <2>3, <2>4, <2>5, <2>6, <2>7 DEF Sampling
<1>8. CASE Replug
  BY <1>8 DEF Replug
<1>9. CASE UNCHANGED vars
  BY <1>9 DEF vars
<1> QED
  BY <1>1, <1>2, <1>3, <1>4, <1>5, <1>6, <1>7, <1>8, <1>9
     DEF Next, Handle, MainStep, WorkerStep, Terminated, Lifecycle, Pausing,
          Sampling

-----------------------------------------------------------------------------
(***************************************************************************)
(* The invariant holds, and what follows from it.                          *)
(***************************************************************************)

LEMMA InitIInv == Init => IInv
<1> SUFFICES ASSUME Init PROVE IInv
  OBVIOUS
<1> USE ThreadFacts, ServiceAssumption DEF ServiceAssumption, Init, At
<1>1. TypeInv
  <2>1. /\ pc \in [Threads -> HandlerPlaces \union MainPlaces \union WorkerPlaces]
        /\ \A h \in Handlers : pc[h] \in HandlerPlaces
        /\ pc[Main] \in MainPlaces /\ pc[Worker] \in WorkerPlaces
    BY DEF HandlerPlaces, MainPlaces, WorkerPlaces, StartPlaces
  <2>2. /\ req \in [Threads -> StartRequest \union
                             {TareRequest, StopRequest, BootRequest, NoRequest}]
        /\ reply \in [Threads -> Replies \union {None}]
        /\ RequestInv
    BY DEF RequestInv
  <2>3. sample \in Sample /\ lastSample \in Sample /\ counter \in 0 .. MaxCounter
    BY DEF Sample, NoSample
  <2> QED
    BY <2>1, <2>2, <2>3 DEF TypeInv, TypeOK
<1>2. LockInv /\ ConnectionInv /\ ReadInv
  BY DEF LockInv, ConnectionInv, ReadInv, Connecting
<1>3. TareInv /\ StartInv /\ ErrorInv
  BY DEF TareInv, StartInv, Starting, ErrorInv
<1>4. StragglerInv /\ WakeInv /\ CounterInv
  BY DEF StragglerInv, WakeInv, CounterInv, NoSample
<1> QED
  BY <1>1, <1>2, <1>3, <1>4 DEF IInv

LEMMA IInvStep == IInv /\ [Next]_vars => IInv'
BY TypeStep, StartStep, LockStep, ConnectionStep, ReadStep, TareStep, ErrorStep,
   StragglerStep, WakeStep, CounterStep DEF IInv

\* The inductive invariant holds.
THEOREM Invariant == Spec => []IInv
BY InitIInv, IInvStep, PTL DEF Spec

\* Every variable keeps its type, whatever the requests and the driver.
THEOREM TypeCorrect == Spec => []TypeOK
<1>1. IInv => TypeOK
  BY DEF IInv, TypeInv
<1> QED BY <1>1, Invariant, PTL

\* The hardware is never opened while it is open, for any number of handlers.
THEOREM ConnectionIsSingle == Spec => []SingleConnection
<1>1. IInv => SingleConnection
  BY DEF IInv, SingleConnection, LockInv, ConnectionInv, Connecting
<1> QED BY <1>1, Invariant, PTL

\* The "IMU disconnected" exception of _run cannot happen.
THEOREM WorkerHasImu == Spec => []WorkerFindsImu
<1>1. IInv => WorkerFindsImu
  BY DEF IInv, WorkerFindsImu, ReadInv
<1> QED BY <1>1, Invariant, PTL

\* A live connection that status() calls tared was tared.
THEOREM TareIsTruthful == Spec => []TareTruthful
<1>1. IInv => TareTruthful
  BY ThreadFacts DEF IInv, TareTruthful, TareInv, LockInv, Connecting, At
<1> QED BY <1>1, Invariant, PTL

\* A missing IMU has an error code.
THEOREM MissingImuHasError == Spec => []MissingImuExplained
<1>1. IInv => MissingImuExplained
  BY DEF IInv, MissingImuExplained, ErrorInv
<1> QED BY <1>1, Invariant, PTL

\* At most one sample goes out after a stop, however many handlers there are.
THEOREM AtMostOneStraggler == Spec => []OneStraggler
<1>1. IInv => OneStraggler
  BY DEF IInv, OneStraggler, StragglerInv
<1> QED BY <1>1, Invariant, PTL

\* The worker never sleeps through a change it has to act on.
THEOREM WakeupsAreKept == Spec => []NoLostWakeup
<1>1. IInv => NoLostWakeup
  BY DEF IInv, NoLostWakeup, WakeInv, At
<1> QED BY <1>1, Invariant, PTL

\* Only PublishSample hands a sample out, and its counter is the next one or 0.
LEMMA PublishedCounter ==
  IInv /\ [Next]_vars => [lastSample'.counter \in {0, lastSample.counter + 1}]_lastSample
<1> SUFFICES ASSUME IInv, [Next]_vars
             PROVE  [lastSample'.counter \in {0, lastSample.counter + 1}]_lastSample
  OBVIOUS
<1>1. CASE PublishSample
  BY <1>1 DEF PublishSample, IInv, CounterInv, At
<1>2. CASE ~PublishSample
  <2>1. UNCHANGED lastSample
    BY <1>2
       DEF Next, vars, Handle, MainStep, WorkerStep, Terminated, Ensure, EnsureConnected,
       EnsureLock, OpenHardware, OpenFails, ForgetTare, TareOnConnect,
       TareOnConnectFails, MarkReady, ClearError, SetNotFound, MarkDegraded,
       StartSession, CheckNotActive, PrepareNoTare, PrepareUnsupported, PrepareTare,
       PrepareTareFails, SetSampleHz, SetSessionId, Activate, MarkRunning, Wake,
       StopSession, CheckActive, Deactivate, ClearSessionId, LookAtImu, MarkStopped,
       Receive, SendReply, StartWorker, BootSessionDone, WakeToStop, Exit, Interrupt,
       Loop, Gate, Woken, WaitTimeout, ClearWake, ReadData, ReadFails, DropImu,
       SetReadFailed, MarkDropped, LabelSample, Replug, sampleVars
  <2> QED BY <2>1
<1> QED BY <1>1, <1>2

\* The counters of the samples that go out show every loss.
THEOREM CountersAreContiguous == Spec => CountersContiguous
BY Invariant, PublishedCounter, PTL DEF Spec, CountersContiguous
=============================================================================
