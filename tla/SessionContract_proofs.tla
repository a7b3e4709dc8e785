------------------------ MODULE SessionContract_proofs ------------------------
(***************************************************************************)
(* Proof that the service keeps the session contract to clients that take  *)
(* turns: what IMUHardwareService does with its unprotected attributes,    *)
(* one access at a time, looks like atomic starts and stops as long as no  *)
(* two start or stop requests are carried out at the same time.  Requests  *)
(* to tare, the worker and the reconnections may come in between at will.  *)
(* Without turns the contract is broken: see the run DoubleStart.          *)
(***************************************************************************)
EXTENDS MCIMUHardwareService, IMUHardwareService_proofs

Callers == Handlers \union {Main}

(***************************************************************************)
(* The inductive invariant of sessions that take turns, on top of TypeInv. *)
(***************************************************************************)

\* The main thread is through with its boot session before it serves.
TurnsInv ==
  pc[Main] \notin {"serve", "closing", "join", "exited"} => \A h \in Handlers : At(h, "idle")

\* Which requests get where.
RouteInv ==
  \A t \in Callers :
    /\ pc[t] \in {"ensure", "prepare"} \union Connecting => req[t].op \in {"none", "start", "tare"}
    /\ pc[t] \in {"hz", "sid", "activate", "running"} => req[t].op = "start"
    /\ pc[t] \in {"deactivate", "clearid"} => req[t].op = "stop"
    /\ pc[t] = "prepare" => req[t].op # "none"

\* A start request that has been let in.
Admitted(t) ==
  req[t].op = "start" /\ pc[t] \in {"ensure", "prepare", "hz", "sid", "activate"} \union Connecting

\* What a request has found, or set, is still so.
TrustInv ==
  \A t \in Callers :
    /\ Admitted(t) => ~sessionActive
    /\ pc[t] \in {"sid", "activate"} => sampleHz = req[t].session_id
    /\ pc[t] = "activate" => sessionId = req[t].session_id
    /\ pc[t] \in {"deactivate", "running"} => sessionActive
    /\ pc[t] = "clearid" => ~sessionActive

\* "running" outlives the session only until the stop request sets the state.
RunningInv ==
  state = "running" /\ ~sessionActive =>
    \E h \in Handlers : pc[h] \in {"clearid", "look", "stopready", "stopdegraded"}

\* A session is that of one request.
WholeInv == sessionActive => sessionId \in SessionIds /\ sampleHz = sessionId

ClientInv == TurnsInv /\ RouteInv /\ TrustInv /\ WholeInv /\ RunningInv

-----------------------------------------------------------------------------
(* One caller at a time *)

\* A caller that starts or stops a session, or the main thread in start().
Busy(t) ==
  pc[t] \notin {"idle", "reply", "serve", "closing", "join", "exited"} /\ req[t].op # "tare"

LEMMA OnlyCaller ==
  ASSUME SessionsTakeTurns, TypeInv, TurnsInv, NEW t \in Callers, NEW u \in Callers,
         Busy(t), Busy(u)
  PROVE  t = u
BY ThreadFacts
   DEF SessionsTakeTurns, Switching, TypeInv, TypeOK, TurnsInv, Callers, Busy, At

LEMMA CallerFacts ==
  /\ \A t \in Callers : t \in Threads /\ t # Worker
  /\ \A r \in StartRequest \union {TareRequest, StopRequest, BootRequest, NoRequest} :
       /\ r.op \in {"none", "start", "tare", "stop"}
       /\ r.op = "none" => r = NoRequest
       /\ r.op = "start" => r.session_id \in SessionIds
       /\ r.op = "tare" => r.tare
BY ThreadFacts, ServiceAssumption DEF ServiceAssumption, Callers, StartRequest, TareRequest,
   StopRequest, BootRequest, NoRequest

\* Only a start resets the counter.
LEMMA ResetRequests ==
  ASSUME TypeInv, NEW t \in Threads, req[t].op = "tare"
  PROVE  ~req[t].reset_counter
<1>1. /\ req[t] \in StartRequest \union {TareRequest, StopRequest, BootRequest, NoRequest}
  BY DEF TypeInv, TypeOK
<1> QED BY <1>1 DEF StartRequest, TareRequest, StopRequest, BootRequest, NoRequest

LEMMA TurnsStep == TypeInv /\ StartInv /\ TurnsInv /\ [Next]_vars => TurnsInv'
<1> SUFFICES ASSUME TypeInv, StartInv, TurnsInv, [Next]_vars PROVE TurnsInv'
  OBVIOUS
<1>a. pc \in [Threads -> HandlerPlaces \union MainPlaces \union WorkerPlaces]
  BY DEF TypeInv, TypeOK
<1> USE ThreadFacts, CallerFacts, <1>a
    DEF TurnsInv, At, Goto, imuVars, sessionVars, statusVars, sampleVars, eventVars, callVars
<1>1. ASSUME NEW t \in Threads, Ensure(t)
      PROVE  TurnsInv'
  BY <1>1 DEF Ensure, EnsureConnected, EnsureLock, OpenHardware, OpenFails, ForgetTare,
     TareOnConnect, TareOnConnectFails, MarkReady, ClearError, SetNotFound,
     MarkDegraded, ReturnsTrue, ReturnsFalse, ForgetImu, Answer
<1>2. ASSUME NEW t \in Callers, StartSession(t)
      PROVE  TurnsInv'
  BY <1>2 DEF StartSession, CheckNotActive, PrepareNoTare, PrepareUnsupported,
     PrepareTare, PrepareTareFails, ResetCounter, AfterTare, SetSampleHz, SetSessionId,
     Activate, MarkRunning, Wake, Answer
<1>3. ASSUME NEW h \in Handlers, StopSession(h)
      PROVE  TurnsInv'
  BY <1>3 DEF StopSession, CheckActive, Deactivate, ClearSessionId, LookAtImu,
     MarkStopped, Answer
<1>4. ASSUME NEW h \in Handlers, Receive(h) \/ SendReply(h)
      PROVE  TurnsInv'
  BY <1>4 DEF Receive, SendReply, Requests
<1>5. ASSUME Lifecycle
      PROVE  TurnsInv'
  BY <1>5 DEF Lifecycle, StartWorker, BootSessionDone, WakeToStop, Exit, Interrupt
<1>6. ASSUME Pausing
      PROVE  TurnsInv'
  BY <1>6 DEF Pausing, Loop, Gate, Woken, WaitTimeout, ClearWake
<1>7. ASSUME Sampling
      PROVE  TurnsInv'
  BY <1>7 DEF Sampling, ReadData, ReadFails, DropImu, SetReadFailed, MarkDropped,
     LabelSample, PublishSample, ForgetImu
<1>8. CASE Replug
  BY <1>8 DEF Replug
<1>9. CASE UNCHANGED vars
  BY <1>9 DEF vars
<1> QED
  BY <1>1, <1>2, <1>3, <1>4, <1>5, <1>6, <1>7, <1>8, <1>9 DEF Callers, Next, Handle, MainStep,
     WorkerStep, Terminated, Lifecycle, Pausing, Sampling

\* A request goes its own way.
LEMMA RouteStep == TypeInv /\ RouteInv /\ [Next]_vars => RouteInv'
<1> SUFFICES ASSUME TypeInv, RouteInv, [Next]_vars PROVE RouteInv'
  OBVIOUS
<1>a. /\ pc \in [Threads -> HandlerPlaces \union MainPlaces \union WorkerPlaces]
      /\ req \in [Threads -> StartRequest \union
                             {TareRequest, StopRequest, BootRequest, NoRequest}]
      /\ RequestInv
  BY DEF TypeInv, TypeOK
<1>b. /\ BootRequest.op = "start" /\ TareRequest.op = "tare" /\ NoRequest.op = "none"
      /\ \A r \in Requests : r \in StartRequest \union {TareRequest, StopRequest}
  BY ServiceAssumption DEF ServiceAssumption, Requests, BootRequest, TareRequest, NoRequest
<1> USE ThreadFacts, CallerFacts, <1>a, <1>b
    DEF RouteInv, Connecting, At, Goto, imuVars, sessionVars, statusVars, sampleVars, eventVars,
        callVars
<1>1. ASSUME NEW t \in Threads, Ensure(t)
      PROVE  RouteInv'
  BY <1>1 DEF Ensure, EnsureConnected, EnsureLock, OpenHardware, OpenFails, ForgetTare,
     TareOnConnect, TareOnConnectFails, MarkReady, ClearError, SetNotFound,
     MarkDegraded, ReturnsTrue, ReturnsFalse, ForgetImu, Answer
<1>2. ASSUME NEW t \in Callers, StartSession(t)
      PROVE  RouteInv'
  BY <1>2 DEF StartSession, CheckNotActive, PrepareNoTare, PrepareUnsupported,
     PrepareTare, PrepareTareFails, ResetCounter, AfterTare, SetSampleHz, SetSessionId,
     Activate, MarkRunning, Wake, Answer
<1>3. ASSUME NEW h \in Handlers, StopSession(h)
      PROVE  RouteInv'
  BY <1>3 DEF StopSession, CheckActive, Deactivate, ClearSessionId, LookAtImu,
     MarkStopped, Answer
<1>4. ASSUME NEW h \in Handlers, Receive(h) \/ SendReply(h)
      PROVE  RouteInv'
  BY <1>4 DEF Receive, SendReply
<1>5. ASSUME Lifecycle
      PROVE  RouteInv'
  BY <1>5 DEF Lifecycle, StartWorker, BootSessionDone, WakeToStop, Exit, Interrupt
<1>6. ASSUME Pausing
      PROVE  RouteInv'
  BY <1>6 DEF Pausing, Loop, Gate, Woken, WaitTimeout, ClearWake
<1>7. ASSUME Sampling
      PROVE  RouteInv'
  BY <1>7 DEF Sampling, ReadData, ReadFails, DropImu, SetReadFailed, MarkDropped,
     LabelSample, PublishSample, ForgetImu
<1>8. CASE Replug
  BY <1>8 DEF Replug
<1>9. CASE UNCHANGED vars
  BY <1>9 DEF vars
<1> QED
  BY <1>1, <1>2, <1>3, <1>4, <1>5, <1>6, <1>7, <1>8, <1>9
     DEF Callers, Next, Handle, MainStep, WorkerStep, Terminated, Lifecycle, Pausing, Sampling

\* Nobody else changes what a caller relies on.
LEMMA TrustStep ==
  ASSUME SessionsTakeTurns
  PROVE  TypeInv /\ TurnsInv /\ RouteInv /\ TrustInv /\ [Next]_vars => TrustInv'
<1> SUFFICES ASSUME TypeInv, TurnsInv, RouteInv, TrustInv, [Next]_vars PROVE TrustInv'
  OBVIOUS
<1>a. /\ pc \in [Threads -> HandlerPlaces \union MainPlaces \union WorkerPlaces]
      /\ req \in [Threads -> StartRequest \union
                             {TareRequest, StopRequest, BootRequest, NoRequest}]
      /\ RequestInv
  BY DEF TypeInv, TypeOK
<1>b. \A t, u \in Callers : Busy(t) /\ Busy(u) => t = u
  BY OnlyCaller
<1> USE ThreadFacts, CallerFacts, <1>a, <1>b
    DEF RouteInv, TrustInv, Admitted, Busy, Connecting, At, Goto, imuVars, sessionVars,
        statusVars, sampleVars, eventVars, callVars
<1>1. ASSUME NEW t \in Threads, Ensure(t)
      PROVE  TrustInv'
  BY <1>1 DEF Ensure, EnsureConnected, EnsureLock, OpenHardware, OpenFails, ForgetTare,
     TareOnConnect, TareOnConnectFails, MarkReady, ClearError, SetNotFound,
     MarkDegraded, ReturnsTrue, ReturnsFalse, ForgetImu, Answer
<1>2. ASSUME NEW t \in Callers, StartSession(t)
      PROVE  TrustInv'
  BY <1>2 DEF StartSession, CheckNotActive, PrepareNoTare, PrepareUnsupported,
     PrepareTare, PrepareTareFails, ResetCounter, AfterTare, SetSampleHz, SetSessionId,
     Activate, MarkRunning, Wake, Answer
<1>3. ASSUME NEW h \in Handlers, StopSession(h)
      PROVE  TrustInv'
  <2>1. h \in Callers /\ \A u \in Callers : Busy(u) /\ Busy(h) => u = h
    BY DEF Callers
  <2>2. CASE CheckActive(h)
    BY <2>1, <2>2 DEF CheckActive, Answer
  <2>3. CASE Deactivate(h)
    BY <2>1, <2>3 DEF Deactivate
  <2>4. CASE ClearSessionId(h)
    BY <2>1, <2>4 DEF ClearSessionId
  <2>5. CASE LookAtImu(h)
    BY <2>1, <2>5 DEF LookAtImu
  <2>6. CASE MarkStopped(h)
    BY <2>1, <2>6 DEF MarkStopped
  <2> QED BY <1>3, <2>2, <2>3, <2>4, <2>5, <2>6 DEF StopSession
<1>4. ASSUME NEW h \in Handlers, Receive(h) \/ SendReply(h)
      PROVE  TrustInv'
  BY <1>4 DEF Receive, SendReply
<1>5. ASSUME Lifecycle
      PROVE  TrustInv'
  BY <1>5 DEF Lifecycle, StartWorker, BootSessionDone, WakeToStop, Exit, Interrupt
<1>6. ASSUME Pausing
      PROVE  TrustInv'
  BY <1>6 DEF Pausing, Loop, Gate, Woken, WaitTimeout, ClearWake
<1>7. ASSUME Sampling
      PROVE  TrustInv'
  BY <1>7 DEF Sampling, ReadData, ReadFails, DropImu, SetReadFailed, MarkDropped,
     LabelSample, PublishSample, ForgetImu
<1>8. CASE Replug
  BY <1>8 DEF Replug
<1>9. CASE UNCHANGED vars
  BY <1>9 DEF vars
<1> QED
  BY <1>1, <1>2, <1>3, <1>4, <1>5, <1>6, <1>7, <1>8, <1>9
     DEF Callers, Next, Handle, MainStep, WorkerStep, Terminated, Lifecycle, Pausing, Sampling

\* The id and the rate of a session were both set by the request that started it.
LEMMA WholeStep ==
  TypeInv /\ RouteInv /\ TrustInv /\ WholeInv /\ [Next]_vars => WholeInv'
<1> SUFFICES ASSUME TypeInv, RouteInv, TrustInv, WholeInv, [Next]_vars PROVE WholeInv'
  OBVIOUS
<1>a. req \in [Threads -> StartRequest \union
                         {TareRequest, StopRequest, BootRequest, NoRequest}]
  BY DEF TypeInv, TypeOK
<1> USE ThreadFacts, CallerFacts, <1>a
    DEF RouteInv, TrustInv, Admitted, WholeInv, At, Goto, imuVars, sessionVars,
        statusVars, sampleVars, eventVars, callVars
<1>1. ASSUME NEW t \in Threads, Ensure(t)
      PROVE  WholeInv'
  BY <1>1 DEF Ensure, EnsureConnected, EnsureLock, OpenHardware, OpenFails, ForgetTare,
     TareOnConnect, TareOnConnectFails, MarkReady, ClearError, SetNotFound,
     MarkDegraded, ReturnsTrue, ReturnsFalse, ForgetImu, Answer
<1>2. ASSUME NEW t \in Callers, StartSession(t)
      PROVE  WholeInv'
  <2>1. CASE SetSampleHz(t) \/ SetSessionId(t)
    <3>1. ~sessionActive /\ ~sessionActive'
      BY <1>2, <2>1 DEF SetSampleHz, SetSessionId
    <3> QED BY <3>1
  <2>2. CASE Activate(t)
    <3>1. /\ sampleHz = req[t].session_id /\ sessionId = req[t].session_id
          /\ UNCHANGED <<sampleHz, sessionId>> /\ req[t].op = "start"
      BY <1>2, <2>2 DEF Activate
    <3> QED BY <1>2, <3>1
  <2>3. CASE UNCHANGED sessionVars
    BY <2>3
  <2> QED
    BY <1>2, <2>1, <2>2, <2>3
       DEF StartSession, CheckNotActive, PrepareNoTare, PrepareUnsupported, PrepareTare,
       PrepareTareFails, MarkRunning, Wake
<1>3. ASSUME NEW h \in Handlers, StopSession(h)
      PROVE  WholeInv'
  BY <1>3 DEF Callers, StopSession, CheckActive, Deactivate, ClearSessionId, LookAtImu,
     MarkStopped, Answer
<1>4. ASSUME NEW h \in Handlers, Receive(h) \/ SendReply(h)
      PROVE  WholeInv'
  BY <1>4 DEF Receive, SendReply
<1>5. ASSUME Lifecycle
      PROVE  WholeInv'
  BY <1>5 DEF Lifecycle, StartWorker, BootSessionDone, WakeToStop, Exit, Interrupt
<1>6. ASSUME Pausing
      PROVE  WholeInv'
  BY <1>6 DEF Pausing, Loop, Gate, Woken, WaitTimeout, ClearWake
<1>7. ASSUME Sampling
      PROVE  WholeInv'
  BY <1>7 DEF Sampling, ReadData, ReadFails, DropImu, SetReadFailed, MarkDropped,
     LabelSample, PublishSample, ForgetImu
<1>8. CASE Replug
  BY <1>8 DEF Replug
<1>9. CASE UNCHANGED vars
  BY <1>9 DEF vars
<1> QED
  BY <1>1, <1>2, <1>3, <1>4, <1>5, <1>6, <1>7, <1>8, <1>9
     DEF Callers, Next, Handle, MainStep, WorkerStep, Terminated, Lifecycle, Pausing, Sampling

\* Who ends a session leaves the state "running" behind for the steps up to MarkStopped.
LEMMA RunningStep ==
  ASSUME SessionsTakeTurns
  PROVE  TypeInv /\ TurnsInv /\ TrustInv /\ RunningInv /\ [Next]_vars => RunningInv'
<1> SUFFICES ASSUME TypeInv, TurnsInv, TrustInv, RunningInv, [Next]_vars PROVE RunningInv'
  OBVIOUS
<1>a. pc \in [Threads -> HandlerPlaces \union MainPlaces \union WorkerPlaces]
  BY DEF TypeInv, TypeOK
<1> USE ThreadFacts, <1>a
    DEF TrustInv, RunningInv, Connecting, At, Goto, imuVars, sessionVars,
        statusVars, sampleVars, eventVars, callVars
<1>1. ASSUME NEW t \in Threads, Ensure(t)
      PROVE  RunningInv'
  BY <1>1 DEF Ensure, EnsureConnected, EnsureLock, OpenHardware, OpenFails, ForgetTare,
     TareOnConnect, TareOnConnectFails, MarkReady, ClearError, SetNotFound,
     MarkDegraded, ReturnsTrue, ReturnsFalse, ForgetImu, Answer
<1>2. ASSUME NEW t \in Callers, StartSession(t)
      PROVE  RunningInv'
  BY <1>2 DEF StartSession, CheckNotActive, PrepareNoTare, PrepareUnsupported,
     PrepareTare, PrepareTareFails, ResetCounter, AfterTare, SetSampleHz, SetSessionId,
     Activate, MarkRunning, Wake, Answer
<1>3. ASSUME NEW h \in Handlers, StopSession(h)
      PROVE  RunningInv'
  BY <1>3 DEF StopSession, CheckActive, Deactivate, ClearSessionId, LookAtImu,
     MarkStopped, Answer
<1>4. ASSUME NEW h \in Handlers, Receive(h) \/ SendReply(h)
      PROVE  RunningInv'
  BY <1>4 DEF Receive, SendReply
<1>5. ASSUME Lifecycle
      PROVE  RunningInv'
  BY <1>5 DEF Lifecycle, StartWorker, BootSessionDone, WakeToStop, Exit, Interrupt
<1>6. ASSUME Pausing
      PROVE  RunningInv'
  BY <1>6 DEF Pausing, Loop, Gate, Woken, WaitTimeout, ClearWake
<1>7. ASSUME Sampling
      PROVE  RunningInv'
  BY <1>7 DEF Sampling, ReadData, ReadFails, DropImu, SetReadFailed, MarkDropped,
     LabelSample, PublishSample, ForgetImu
<1>8. CASE Replug
  BY <1>8 DEF Replug
<1>9. CASE UNCHANGED vars
  BY <1>9 DEF vars
<1> QED
  BY <1>1, <1>2, <1>3, <1>4, <1>5, <1>6, <1>7, <1>8, <1>9
     DEF Callers, Next, Handle, MainStep, WorkerStep, Terminated, Lifecycle, Pausing, Sampling

-----------------------------------------------------------------------------
(* The refinement *)

\* What the contract sees of the service.
View == <<sessionActive, WhileActive(sessionId), WhileActive(sampleHz), lastSample.session, Stray>>

LEMMA Stutters ==
  ASSUME UNCHANGED View
  PROVE  UNCHANGED Contract!vars
BY DEF View, Contract!vars

LEMMA InitImplements == Init => Contract!Init
<1> SUFFICES ASSUME Init PROVE Contract!Init
  OBVIOUS
<1>1. ~sessionActive /\ pc[Worker] = "unstarted" /\ lastSample.session = None
  BY ThreadFacts DEF Init, NoSample
<1>2. WhileActive(sessionId) = None /\ WhileActive(sampleHz) = None /\ ~Stray
  BY <1>1 DEF WhileActive, Stray, At, Connecting
<1> QED BY <1>1, <1>2 DEF Contract!Init

\* The last assignment of start_session is the start of the session.
LEMMA ActivateStarts ==
  ASSUME TypeInv, RouteInv, TrustInv, NEW t \in Callers, Activate(t)
  PROVE  Contract!Next
<1>1. /\ ~sessionActive /\ sessionActive' = TRUE /\ req[t].session_id \in SessionIds
      /\ sessionId' = req[t].session_id /\ sampleHz' = req[t].session_id
      /\ UNCHANGED <<sample, lastSample, pc[Worker]>>
  BY ThreadFacts, CallerFacts
     DEF TypeInv, TypeOK, RouteInv, TrustInv, Admitted, Activate, At, Goto
<1>2. /\ WhileActive(sessionId)' = req[t].session_id
      /\ WhileActive(sampleHz)' = req[t].session_id
  BY <1>1 DEF WhileActive
<1>3. Stray' \in {Stray, FALSE}
  BY <1>1 DEF Stray, At
<1> QED BY <1>1, <1>2, <1>3 DEF Contract!Next, Contract!Start

\* The first assignment of stop_session is its end.
LEMMA DeactivateStops ==
  ASSUME TrustInv, NEW h \in Handlers, Deactivate(h)
  PROVE  Contract!Next
<1>1. sessionActive /\ sessionActive' = FALSE /\ UNCHANGED lastSample
  BY DEF TrustInv, Callers, Deactivate, At, sampleVars
<1>2. WhileActive(sessionId)' = None /\ WhileActive(sampleHz)' = None
  BY <1>1 DEF WhileActive
<1>3. Stray' \in BOOLEAN
  BY DEF Stray, At
<1> QED BY <1>1, <1>2, <1>3 DEF Contract!Next, Contract!Stop

\* A sample goes out with the id of the session, or it is the stray one.
LEMMA PublishImplements ==
  ASSUME TypeInv, PublishSample
  PROVE  Contract!Next
<1>1. /\ pc[Worker] = "publish" /\ pc'[Worker] = "loop" /\ lastSample' = sample
      /\ UNCHANGED <<sessionActive, sessionId, sampleHz>>
      /\ sample.session \in SessionIds \union {None}
  BY ThreadFacts DEF TypeInv, TypeOK, Sample, PublishSample, At, Goto, sessionVars
<1>2. UNCHANGED <<WhileActive(sessionId), WhileActive(sampleHz)>> /\ ~Stray'
  BY <1>1 DEF WhileActive, Stray, At, Connecting
<1>3. CASE sessionActive /\ sample.session = sessionId
  <2>1. ~Stray /\ WhileActive(sessionId) = sessionId
    BY <1>1, <1>3 DEF Stray, At, WhileActive
  <2>2. Stray \in BOOLEAN /\ Stray' \in BOOLEAN
    BY DEF Stray, At
  <2>3. Stray' = Stray
    BY <1>2, <2>1, <2>2
  <2> QED BY <1>1, <1>2, <1>3, <2>1, <2>3 DEF Contract!Next, Contract!Publish
<1>4. CASE ~(sessionActive /\ sample.session = sessionId)
  <2>1. Stray
    BY <1>1, <1>4 DEF Stray, At
  <2> QED BY <1>1, <1>2, <2>1 DEF Contract!Next, Contract!PublishStray
<1> QED BY <1>3, <1>4

\* A step that leaves the session and the last sample alone, and adds no stray sample.
LEMMA QuietImplements ==
  ASSUME UNCHANGED <<sessionActive, WhileActive(sessionId), WhileActive(sampleHz), lastSample>>,
         Stray' => Stray
  PROVE  [Contract!Next]_(Contract!vars)
<1>1. CASE Stray' = Stray
  BY <1>1, Stutters DEF View
<1>2. CASE Stray /\ ~Stray'
  BY <1>2 DEF Contract!Next, Contract!LoseStray
<1>3. Stray \in BOOLEAN /\ Stray' \in BOOLEAN
  BY DEF Stray, At
<1> QED BY <1>1, <1>2, <1>3

\* What a request does up to its last assignment is not seen, for there is no session.
LEMMA AttributesUnseen ==
  ASSUME TypeInv, RouteInv, TrustInv, NEW t \in Callers,
         SetSampleHz(t) \/ SetSessionId(t) \/ ClearSessionId(t)
  PROVE  [Contract!Next]_(Contract!vars)
<1>1. /\ ~sessionActive /\ UNCHANGED <<sessionActive, lastSample, sample, pc[Worker]>>
  BY ThreadFacts, CallerFacts
     DEF TypeInv, TypeOK, RouteInv, TrustInv, Admitted, SetSampleHz, SetSessionId, ClearSessionId,
         At, Goto, sampleVars
<1>2. UNCHANGED <<WhileActive(sessionId), WhileActive(sampleHz)>>
  BY <1>1 DEF WhileActive
<1>3. Stray' => Stray
  BY <1>1 DEF Stray, At
<1> QED BY <1>1, <1>2, <1>3, QuietImplements

\* Every other step leaves the session attributes alone, and a sample in flight strays only
\* when the session ends.
LEMMA OtherSteps ==
  ASSUME TypeInv, [Next]_vars, UNCHANGED sessionVars, ~PublishSample
  PROVE  [Contract!Next]_(Contract!vars)
<1>a. pc \in [Threads -> HandlerPlaces \union MainPlaces \union WorkerPlaces]
  BY DEF TypeInv, TypeOK
<1>1. UNCHANGED <<WhileActive(sessionId), WhileActive(sampleHz)>>
  BY DEF WhileActive, sessionVars

<1> USE ThreadFacts, <1>a
    DEF Stray, Connecting, At, Goto, imuVars, sessionVars, statusVars, sampleVars, eventVars,
        callVars
<1>2. UNCHANGED lastSample /\ (Stray' => Stray)
  <2>1. ASSUME NEW t \in Threads, Ensure(t)
        PROVE  UNCHANGED lastSample /\ (Stray' => Stray)
    BY <2>1 DEF Ensure, EnsureConnected, EnsureLock, OpenHardware, OpenFails, ForgetTare,
       TareOnConnect, TareOnConnectFails, MarkReady, ClearError, SetNotFound,
       MarkDegraded, ReturnsTrue, ReturnsFalse, ForgetImu, Answer
  <2>2. ASSUME NEW t \in Callers, StartSession(t)
        PROVE  UNCHANGED lastSample /\ (Stray' => Stray)
    <3>1. t \in Threads /\ t # Worker
      BY CallerFacts
    <3>2. UNCHANGED <<pc[Worker], sample, lastSample>>
      BY <2>2, <3>1 DEF StartSession, CheckNotActive, PrepareNoTare, PrepareUnsupported,
       PrepareTare, PrepareTareFails, ResetCounter, AfterTare, SetSampleHz, SetSessionId,
       Activate, MarkRunning, Wake, Answer
    <3> QED BY <3>2
  <2>3. ASSUME NEW h \in Handlers, StopSession(h)
        PROVE  UNCHANGED lastSample /\ (Stray' => Stray)
    <3>2. UNCHANGED <<pc[Worker], sample, lastSample>>
      BY <2>3 DEF StopSession, CheckActive, Deactivate, ClearSessionId, LookAtImu,
       MarkStopped, Answer
    <3> QED BY <3>2
  <2>4. ASSUME NEW h \in Handlers, Receive(h) \/ SendReply(h)
        PROVE  UNCHANGED lastSample /\ (Stray' => Stray)
    BY <2>4 DEF Receive, SendReply
  <2>5. ASSUME Lifecycle
        PROVE  UNCHANGED lastSample /\ (Stray' => Stray)
    BY <2>5 DEF Lifecycle, StartWorker, BootSessionDone, WakeToStop, Exit, Interrupt
  <2>6. ASSUME Pausing
        PROVE  UNCHANGED lastSample /\ (Stray' => Stray)
    BY <2>6 DEF Pausing, Loop, Gate, Woken, WaitTimeout, ClearWake
  <2>7. ASSUME Sampling
        PROVE  UNCHANGED lastSample /\ (Stray' => Stray)
    <3>1. CASE LabelSample
      <4>1. pc[Worker] = "emit" /\ sample'.session = sessionId /\ UNCHANGED lastSample
        BY <3>1 DEF LabelSample, TypeInv, TypeOK, Sample
      <4> QED BY <3>1, <4>1 DEF LabelSample
    <3>2. CASE ~LabelSample
      BY <2>7, <3>2
         DEF Sampling, ReadData, ReadFails, DropImu, SetReadFailed, MarkDropped, ForgetImu
    <3> QED BY <3>1, <3>2
  <2>8. CASE Replug
    BY <2>8 DEF Replug
  <2>9. CASE UNCHANGED vars
    BY <2>9 DEF vars
  <2> QED
    BY <2>1, <2>2, <2>3, <2>4, <2>5, <2>6, <2>7, <2>8, <2>9
       DEF Callers, Next, Handle, MainStep, WorkerStep, Terminated, Lifecycle, Pausing, Sampling
<1> QED BY <1>1, <1>2, QuietImplements

\* Which steps touch the attributes of the session.
LEMMA SessionMoves ==
  ASSUME [Next]_vars
  PROVE  \/ \E t \in Callers : SetSampleHz(t) \/ SetSessionId(t) \/ ClearSessionId(t)
         \/ \E t \in Callers : Activate(t)
         \/ \E h \in Handlers : Deactivate(h)
         \/ PublishSample
         \/ UNCHANGED sessionVars /\ ~PublishSample
BY DEF Callers, Next, vars, Handle, MainStep, WorkerStep, Terminated, Ensure, EnsureConnected,
   EnsureLock, OpenHardware, OpenFails, ForgetTare, TareOnConnect, TareOnConnectFails,
   MarkReady, ClearError, SetNotFound, MarkDegraded, StartSession, CheckNotActive,
   PrepareNoTare, PrepareUnsupported, PrepareTare, PrepareTareFails, MarkRunning, Wake,
   StopSession, CheckActive, LookAtImu, MarkStopped, Receive, SendReply, StartWorker,
   BootSessionDone, WakeToStop, Exit, Interrupt, Loop, Gate, Woken, WaitTimeout, ClearWake,
   ReadData, ReadFails, DropImu, SetReadFailed, MarkDropped, LabelSample, Replug,
   sessionVars

LEMMA StepImplements ==
  TypeInv /\ ClientInv /\ [Next]_vars => [Contract!Next]_(Contract!vars)
<1> SUFFICES ASSUME TypeInv, RouteInv, TrustInv, [Next]_vars
             PROVE  [Contract!Next]_(Contract!vars)
  BY DEF ClientInv
<1>1. CASE \E t \in Callers : SetSampleHz(t) \/ SetSessionId(t) \/ ClearSessionId(t)
  BY <1>1, AttributesUnseen
<1>2. CASE \E t \in Callers : Activate(t)
  BY <1>2, ActivateStarts
<1>3. CASE \E h \in Handlers : Deactivate(h)
  BY <1>3, DeactivateStops
<1>4. CASE PublishSample
  BY <1>4, PublishImplements
<1>5. CASE UNCHANGED sessionVars /\ ~PublishSample
  BY <1>5, OtherSteps
<1> QED BY <1>1, <1>2, <1>3, <1>4, <1>5, SessionMoves

-----------------------------------------------------------------------------
(* The theorems *)

LEMMA InitClientInv == Init => ClientInv
<1> SUFFICES ASSUME Init PROVE ClientInv
  OBVIOUS
<1>1. /\ ~sessionActive /\ state = "starting" /\ pc[Main] = "ensure" /\ req[Main] = NoRequest
      /\ \A h \in Handlers : pc[h] = "idle"
  BY ThreadFacts DEF Init
<1> QED BY <1>1, CallerFacts, RequestFacts
    DEF ClientInv, TurnsInv, RouteInv, TrustInv, Admitted, WholeInv, RunningInv, Callers, At,
        Connecting

LEMMA ClientInvStep ==
  SessionsTakeTurns /\ IInv /\ ClientInv /\ [Next]_vars => ClientInv'
BY TurnsStep, RouteStep, TrustStep, WholeStep, RunningStep DEF IInv, ClientInv

\* What clients can rely on holds as long as start and stop requests take turns.
THEOREM TurnsInvariant == Spec /\ []SessionsTakeTurns => []ClientInv
BY Invariant, InitClientInv, ClientInvStep, PTL DEF Spec

\* A service that is given one HTTP thread at most has no choice but to take turns.
LEMMA OneHandlerTakesTurns == (\A g, h \in Handlers : g = h) => SessionsTakeTurns
BY DEF SessionsTakeTurns

\* If start and stop requests take turns, status() says "running" only of a running session
\* once the requests are answered, whatever tare requests and the worker do to _state
\* meanwhile (start_session, stop_session, _ensure_connected and the worker all write it).
THEOREM RunningIsSession == Spec /\ []SessionsTakeTurns => []RunningMeansSession
<1>1. ClientInv => RunningMeansSession
  BY DEF ClientInv, RunningInv, RunningMeansSession, At
<1> QED BY <1>1, TurnsInvariant, PTL

\* If start and stop requests take turns, a session has the id and the rate of one request
\* (start_session sets _sample_hz, _session_id and _session_active one by one, with no lock).
THEOREM SessionIsWhole ==
  Spec /\ []SessionsTakeTurns
    => [](sessionActive => sessionId \in SessionIds /\ sampleHz = sessionId)
<1>1. ClientInv => (sessionActive => sessionId \in SessionIds /\ sampleHz = sessionId)
  BY DEF ClientInv, WholeInv
<1> QED BY <1>1, TurnsInvariant, PTL

\* If start and stop requests take turns, a session keeps its id until it is stopped:
\* start_session's check is as good as a lock.  Otherwise it is not (run DoubleStart).
THEOREM TurnsKeepId == Spec /\ []SessionsTakeTurns => ActiveSessionKeepsId
<1>1. ASSUME TypeInv, ClientInv, [Next]_vars
      PROVE  [sessionActive /\ sessionActive' => sessionId' = sessionId]_sessionVars
  <2>1. CASE \E t \in Callers : SetSampleHz(t) \/ SetSessionId(t) \/ ClearSessionId(t)
    BY <1>1, <2>1, CallerFacts
       DEF ClientInv, RouteInv, TrustInv, Admitted, SetSampleHz, SetSessionId, ClearSessionId, At
  <2>2. CASE \E t \in Callers : Activate(t)
    BY <2>2 DEF Activate
  <2>3. CASE \E h \in Handlers : Deactivate(h)
    BY <2>3 DEF Deactivate
  <2>4. CASE PublishSample \/ UNCHANGED sessionVars
    BY <2>4 DEF PublishSample
  <2> QED BY <1>1, <2>1, <2>2, <2>3, <2>4, SessionMoves
<1>2. IInv /\ ClientInv /\ [Next]_vars
        => [sessionActive /\ sessionActive' => sessionId' = sessionId]_sessionVars
  BY <1>1 DEF IInv
<1> QED BY <1>2, Invariant, TurnsInvariant, PTL DEF Spec, ActiveSessionKeepsId

\* What changes the driver's counter.
LEMMA CounterMoves ==
  ASSUME [Next]_vars
  PROVE  \/ \E t \in Threads : OpenHardware(t)
         \/ imu' = FALSE
         \/ \E t \in Callers : /\ At(t, "prepare") /\ ResetCounter(t)
                               /\ UNCHANGED sessionActive
         \/ counter' = counter + 1
         \/ UNCHANGED counter
BY DEF Callers, Threads, Next, vars, Handle, MainStep, WorkerStep, Terminated, Ensure,
   EnsureConnected, EnsureLock, OpenFails, ForgetTare, TareOnConnect, TareOnConnectFails,
   MarkReady, ClearError, SetNotFound, MarkDegraded, StartSession, CheckNotActive,
   PrepareNoTare, PrepareUnsupported, PrepareTare, PrepareTareFails, SetSampleHz, SetSessionId,
   Activate, MarkRunning, Wake, StopSession, CheckActive, Deactivate, ClearSessionId, LookAtImu,
   MarkStopped, Receive, SendReply, StartWorker, BootSessionDone, WakeToStop, Exit, Interrupt,
   Loop, Gate, Woken, WaitTimeout, ClearWake, ReadData, ReadFails, DropImu, SetReadFailed,
   MarkDropped, LabelSample, PublishSample, Replug, ForgetImu, imuVars, sessionVars

\* If start and stop requests take turns, nothing but a new connection disturbs the
\* numbering of the samples inside a session: not a start that is refused, and not a tare.
THEOREM CountsRunOn == Spec /\ []SessionsTakeTurns => CountsThroughSession
<1>1. ASSUME ConnectionInv, TypeInv, ClientInv, [Next]_vars,
             sessionActive, sessionActive', imu, imu'
      PROVE  counter' \in {counter, counter + 1}
  <2>1. CASE \E t \in Threads : OpenHardware(t)
    BY <1>1, <2>1 DEF ConnectionInv, OpenHardware, At
  <2>2. ASSUME NEW t \in Callers, At(t, "prepare"), ResetCounter(t)
        PROVE  counter' = counter
    <3>1. req[t].op \in {"start", "tare"}
      BY <1>1, <2>2 DEF ClientInv, RouteInv, At
    <3>2. req[t].op # "start"
      BY <1>1, <2>2 DEF ClientInv, TrustInv, Admitted, At
    <3>3. ~req[t].reset_counter
      BY <1>1, <3>1, <3>2, ResetRequests, CallerFacts
    <3> QED BY <2>2, <3>3 DEF ResetCounter
  <2> QED BY <1>1, <2>1, <2>2, CounterMoves
<1>2. IInv /\ ClientInv /\ [Next]_vars
        => [sessionActive /\ sessionActive' /\ imu /\ imu'
              => counter' \in {counter, counter + 1}]_<<sessionActive, imu, counter>>
  BY <1>1 DEF IInv
<1> QED BY <1>2, Invariant, TurnsInvariant, PTL DEF Spec, CountsThroughSession

\* If start and stop requests take turns, the service implements the session contract:
\* atomic starts and stops, and at most one stray sample between two stops.
THEOREM ServiceKeepsContract == Spec /\ []SessionsTakeTurns => KeepsContract
<1>1. Init => Contract!Init
  BY InitImplements
<1>2. IInv /\ ClientInv /\ [Next]_vars => [Contract!Next]_(Contract!vars)
  BY StepImplements DEF IInv
<1> QED
  BY <1>1, <1>2, Invariant, TurnsInvariant, PTL DEF Spec, KeepsContract, Contract!Spec
=============================================================================
