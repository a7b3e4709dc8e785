------------------------------ MODULE EdgeAgent ------------------------------
(***************************************************************************)
(* The edge agent (imu_edge) beside the hardware service it talks to.  The *)
(* agent is one thread: it waits for the service to be ready, starts a     *)
(* session, opens the telemetry stream and passes each sample to the file, *)
(* to MQTT and to its health file, in this order; whatever fails sends it  *)
(* back to the start.                                                      *)
(*                                                                         *)
(* The service is seen as its clients see it: a request is one step, there *)
(* is at most one session, and a stream keeps the promise of DropOldest,   *)
(* which StreamFanout is proved to implement.  Sample n is the n-th one    *)
(* captured, over all sessions and all lives of the service.               *)
(*                                                                         *)
(* Faults are drawn from a budget: the death of either process, an answer  *)
(* that comes after the client's socket timeout, a sensor that is          *)
(* unplugged, a broker that is gone, another client's requests.            *)
(***************************************************************************)
EXTENDS DataWriter

CONSTANTS
  None,
  Mine, Theirs,  \* whose request has started a session
  QueueSize,     \* IMU_STREAM_QUEUE_SIZE
  MaxSamples,    \* bound of the model: no sample is captured beyond this number
  MaxFaults      \* bound of the model: the budget of faults

ASSUME AgentAssumption ==
  /\ None \notin {Mine, Theirs} /\ Mine # Theirs
  /\ QueueSize \in Nat \ {0} /\ MaxSamples \in Nat /\ MaxFaults \in Nat

VARIABLES
  config,         \* start_session_on_boot and stop_session_on_exit
  pc,             \* where the agent is
  stopRequested,  \* self._stop_requested
  health,         \* the content of the health file; own: by the process that runs
  open, offered, buffer, taken,  \* the stream (see DropOldest); taken is the sample in hand
  severed,        \* the service has died: the stream ends after what is in the socket
  left,           \* the service's thread has left the stream and kept the connection
  base,           \* the last sample captured before the stream was opened
  up,             \* the service runs
  plugged,        \* the sensor answers
  imu,            \* the service has a connection to it
  session,        \* whose session is active
  captured,       \* how many samples the service has captured
  lateStart,      \* a start request the agent has given up on is still being served
  faults          \* faults so far

agentVars   == <<config, pc, stopRequested, health>>
streamVars  == <<open, offered, buffer, taken, severed, left, base>>
serviceVars == <<up, plugged, imu, session, captured, lateStart>>
vars == <<writerVars, broker, agentVars, streamVars, serviceVars, faults>>

Stream == INSTANCE DropOldest

Configs == [start : BOOLEAN, stop : BOOLEAN]

Ended == {"done", "failed", "dead"}

At(place)      == pc = place
Goto(place)    == pc' = place /\ UNCHANGED <<config, stopRequested>>
GotoOnly(place) == Goto(place) /\ UNCHANGED health
Fault          == faults < MaxFaults /\ faults' = faults + 1

\* health.update(state=..., last_counter=...).  own is not in the file: it tells what
\* this process has written from what an earlier one has left.
Update(state, last) == health' = [state |-> state, last |-> last, own |-> TRUE]

\* Leaving the with statement of client.stream().
CloseStream ==
  /\ open' = FALSE /\ offered' = 0 /\ buffer' = <<>>
  /\ severed' = FALSE /\ left' = FALSE
  /\ UNCHANGED <<taken, base>>

\* Either except clause of run: the agent reports it, sleeps and starts again.
Degrade == Update("degraded", 0) /\ Goto("loop")

-----------------------------------------------------------------------------
(* The agent *)

\* DataWriter.__enter__
Begin ==
  /\ At("boot") /\ Enter /\ GotoOnly("loop")
  /\ UNCHANGED <<broker, streamVars, serviceVars, faults>>

Loop ==
  /\ At("loop") /\ GotoOnly(IF stopRequested THEN "close" ELSE "wait")
  /\ UNCHANGED <<writerVars, broker, streamVars, serviceVars, faults>>

\* The service's readiness is its connection: 503 is an error to the client.
Ready == up /\ imu

\* Mutant: the wait goes on until the service is ready.
WaitOverOnlyWhenReady ==
  /\ At("wait") /\ Ready
  /\ GotoOnly(IF config.start THEN "start" ELSE "open")
  /\ UNCHANGED <<writerVars, broker, streamVars, serviceVars, faults>>

\* A request to stop ends the wait, and what follows it is done all the same.
WaitOver ==
  /\ At("wait") /\ (stopRequested \/ Ready)
  /\ GotoOnly(IF config.start THEN "start" ELSE "open")
  /\ UNCHANGED <<writerVars, broker, streamVars, serviceVars, faults>>

StillWaiting == Update("waiting", 0) /\ Goto("wait")

\* Mutant: a service that is not ready is not reported.
NotReadyQuietly ==
  /\ At("wait") /\ ~stopRequested /\ ~Ready
  /\ GotoOnly("wait")
  /\ UNCHANGED <<writerVars, broker, streamVars, serviceVars, faults>>

\* No answer, a refusal or an answer too late: reported as waiting, and tried again.
\* An answer that is cut off is neither of the two errors the wait catches.
NotReady ==
  /\ At("wait") /\ ~stopRequested
  /\ \/ ~Ready /\ StillWaiting /\ UNCHANGED faults
     \/ Fault /\ (StillWaiting \/ Degrade)
  /\ UNCHANGED <<writerVars, broker, streamVars, serviceVars>>

\* The service carries out a start request.
CanStart == up /\ session = None /\ (imu \/ plugged)
Start    == session' = Mine /\ imu' = TRUE /\ UNCHANGED <<up, plugged, captured>>

StartAccepted ==
  /\ At("start") /\ CanStart /\ Start /\ UNCHANGED lateStart
  /\ GotoOnly("open")
  /\ UNCHANGED <<writerVars, broker, streamVars, faults>>

\* Mutant: a session that is active already is an error like any other.
StartConflictFails ==
  /\ At("start") /\ up /\ session # None
  /\ Degrade
  /\ UNCHANGED <<writerVars, broker, streamVars, serviceVars, faults>>

\* SESSION_ALREADY_ACTIVE is as good: the agent's own session, or another client's.
StartConflict ==
  /\ At("start") /\ up /\ session # None
  /\ GotoOnly("open")
  /\ UNCHANGED <<writerVars, broker, streamVars, serviceVars, faults>>

\* No service, or without the sensor: IMU_NOT_READY, or no answer since the tare that
\* was asked for has failed.
StartRefused ==
  /\ At("start") /\ (up => session = None /\ ~plugged)
  /\ Degrade
  /\ UNCHANGED <<writerVars, broker, streamVars, serviceVars, faults>>

\* The socket times out while the service is still at work on the request.
StartTimesOut ==
  /\ At("start") /\ up /\ Fault
  /\ lateStart' = "pending" /\ Degrade
  /\ UNCHANGED <<writerVars, broker, streamVars, up, plugged, imu, session, captured>>

\* Mutant: a stream begins with the last sample, which telemetry/latest also gives.
OpenStreamAtLatest ==
  /\ At("open") /\ up /\ session # None
  /\ open' = TRUE /\ offered' = captured /\ UNCHANGED taken
  /\ buffer' = IF captured = 0 THEN <<>> ELSE <<captured>>
  /\ base' = captured /\ severed' = FALSE /\ left' = FALSE
  /\ GotoOnly("read")
  /\ UNCHANGED <<writerVars, broker, serviceVars, faults>>

OpenStream ==
  /\ At("open") /\ up /\ session # None
  /\ open' = TRUE /\ offered' = captured /\ Stream!Open
  /\ base' = captured /\ severed' = FALSE /\ left' = FALSE
  /\ GotoOnly("read")
  /\ UNCHANGED <<writerVars, broker, serviceVars, faults>>

\* NO_ACTIVE_SESSION, no service, or an answer too late
OpenFails ==
  /\ At("open")
  /\ (~(up /\ session # None) /\ UNCHANGED faults) \/ Fault
  /\ Degrade
  /\ UNCHANGED <<writerVars, broker, streamVars, serviceVars>>

\* A line of the stream becomes a record without the session's id.
FromDict ==
  /\ At("read") /\ Stream!Take
  /\ GotoOnly("got")
  /\ UNCHANGED <<writerVars, broker, severed, left, base, serviceVars, faults>>

\* The service has died: an end of file, after which the loop begins again at once, or
\* half a line or a reset, which is an error.
EndOfStream ==
  /\ At("read") /\ severed /\ buffer = <<>>
  /\ CloseStream /\ (GotoOnly("loop") \/ Degrade)
  /\ UNCHANGED <<writerVars, broker, serviceVars, faults>>

\* Nothing came for the length of the socket timeout.  The end of a session shows in
\* no other way.
ReadTimesOut ==
  /\ At("read") /\ ~severed /\ buffer = <<>>
  /\ CloseStream /\ Degrade
  /\ UNCHANGED <<writerVars, broker, serviceVars, faults>>

\* The loop's break: the sample is not recorded.
DropLast ==
  /\ At("got") /\ stopRequested
  /\ CloseStream /\ GotoOnly("loop")
  /\ UNCHANGED <<writerVars, broker, serviceVars, faults>>

\* Mutant: the sample is reported once it is in the file.
WriteRowAndReport ==
  /\ At("got") /\ ~stopRequested
  /\ OutputToCsv(taken) /\ Update("streaming", taken) /\ Goto("mqtt")
  /\ UNCHANGED <<broker, streamVars, serviceVars, faults>>

WriteRow ==
  /\ At("got") /\ ~stopRequested
  /\ OutputToCsv(taken) /\ GotoOnly("mqtt")
  /\ UNCHANGED <<broker, streamVars, serviceVars, faults>>

Publish ==
  /\ At("mqtt") /\ (OutputMqtt(taken) \/ SkipMqtt)
  /\ GotoOnly("report")
  /\ UNCHANGED <<broker, streamVars, serviceVars, faults>>

\* Mutant: a publication that fails is ignored.
PublishFailsQuietly ==
  /\ At("mqtt") /\ PublishRaises
  /\ GotoOnly("report")
  /\ UNCHANGED <<broker, streamVars, serviceVars, faults>>

PublishFails ==
  /\ At("mqtt") /\ PublishRaises
  /\ CloseStream /\ Degrade
  /\ UNCHANGED <<broker, serviceVars, faults>>

Report ==
  /\ At("report")
  /\ Update("streaming", taken) /\ Goto("read")
  /\ UNCHANGED <<writerVars, broker, streamVars, serviceVars, faults>>

\* Mutant: the writer is left to the garbage collector.
CloseWriterNever ==
  /\ At("close") /\ UNCHANGED writerVars
  /\ GotoOnly(IF config.stop THEN "stop" ELSE "done")
  /\ UNCHANGED <<broker, streamVars, serviceVars, faults>>

CloseWriter ==
  /\ At("close") /\ Exit
  /\ GotoOnly(IF config.stop THEN "stop" ELSE "done")
  /\ UNCHANGED <<broker, streamVars, serviceVars, faults>>

\* Mutant: the stop is left out.
StopSessionNot ==
  /\ At("stop") /\ up
  /\ GotoOnly("done")
  /\ UNCHANGED <<writerVars, broker, streamVars, serviceVars, faults>>

\* Whatever session is active is stopped; that none is does not matter.
StopSession ==
  /\ At("stop") /\ up
  /\ session' = None /\ GotoOnly("done")
  /\ UNCHANGED <<writerVars, broker, streamVars, up, plugged, imu, captured, lateStart, faults>>

\* An OSError is not a ServiceError: the agent ends with a traceback.
StopFails ==
  /\ At("stop")
  /\ \/ ~up /\ UNCHANGED <<session, faults>>
     \/ up /\ Fault /\ session' \in {session, None}
  /\ GotoOnly("failed")
  /\ UNCHANGED <<writerVars, broker, streamVars, up, plugged, imu, captured, lateStart>>

Agent ==
  \/ Begin \/ Loop \/ WaitOver \/ NotReady
  \/ StartAccepted \/ StartConflict \/ StartRefused \/ StartTimesOut
  \/ OpenStream \/ OpenFails
  \/ FromDict \/ EndOfStream \/ ReadTimesOut
  \/ DropLast \/ WriteRow \/ Publish \/ PublishFails \/ Report
  \/ CloseWriter \/ StopSession \/ StopFails

-----------------------------------------------------------------------------
(* What happens to the agent's process *)

\* SIGTERM or SIGINT: the handler sets the flag and nothing else.
HandleSignal ==
  /\ pc \notin Ended /\ ~stopRequested
  /\ stopRequested' = TRUE
  /\ UNCHANGED <<config, pc, health, writerVars, broker, streamVars, serviceVars, faults>>

\* SIGKILL, as at the end of the container's grace period.
Kill ==
  /\ pc \notin Ended /\ Fault
  /\ GotoOnly("dead") /\ CloseStream
  /\ mqttClient' = FALSE
  /\ UNCHANGED <<rows, saved, published, broker, serviceVars>>

\* On the same data directory: compose starts the same container again, and the health
\* file in its /tmp is still there; swarm makes a new container, without one.
Restart ==
  /\ pc \in Ended /\ Fault
  /\ pc' = "boot" /\ stopRequested' = FALSE
  /\ health' \in {None} \union {[h EXCEPT !.own = FALSE] : h \in {health} \ {None}}
  /\ UNCHANGED <<config, writerVars, broker, streamVars, serviceVars>>

Flush ==
  /\ pc \notin Ended /\ FlushBuffer
  /\ UNCHANGED <<broker, agentVars, streamVars, serviceVars, faults>>

-----------------------------------------------------------------------------
(* The service and the rest of the world *)

\* The worker reads a sample in a session and hands it to the stream.
Capture ==
  /\ up /\ session # None /\ imu /\ plugged /\ captured < MaxSamples
  /\ captured' = captured + 1
  /\ IF open /\ ~severed /\ ~left THEN Stream!Offer
                                 ELSE UNCHANGED <<open, offered, buffer, taken>>
  /\ UNCHANGED <<severed, left, base, up, plugged, imu, session, lateStart, faults>>
  /\ UNCHANGED <<writerVars, broker, agentVars>>

\* The worker fails to read, or connects again; only a session makes it do either.
Reconnect ==
  /\ up /\ session # None /\ imu # plugged
  /\ imu' = plugged
  /\ UNCHANGED <<up, plugged, session, captured, lateStart, faults>>
  /\ UNCHANGED <<writerVars, broker, agentVars, streamVars>>

\* The stream's thread has found its queue empty and no session: it stops writing, and
\* the connection stays as it is.
LeaveStream ==
  /\ open /\ ~severed /\ ~left /\ session = None
  /\ left' = TRUE
  /\ UNCHANGED <<open, offered, buffer, taken, severed, base>>
  /\ UNCHANGED <<writerVars, broker, agentVars, serviceVars, faults>>

LateStart ==
  /\ up /\ lateStart = "pending" /\ lateStart' = "served"
  /\ \/ CanStart /\ Start
     \/ ~(CanStart /\ plugged) /\ UNCHANGED <<up, plugged, imu, session, captured>>
  /\ UNCHANGED <<writerVars, broker, agentVars, streamVars, faults>>

\* What the socket holds can still be read.
ServiceDies ==
  /\ up /\ Fault
  /\ up' = FALSE /\ imu' = FALSE /\ session' = None
  /\ lateStart' = IF lateStart = "pending" THEN "served" ELSE lateStart
  /\ severed' = open
  /\ \E n \in 0..Len(buffer) : buffer' = SubSeq(buffer, 1, n)
  /\ UNCHANGED <<plugged, captured, open, offered, taken, left, base>>
  /\ UNCHANGED <<writerVars, broker, agentVars>>

\* systemd starts it again; it tries to connect once.
ServiceStarts ==
  /\ ~up /\ up' = TRUE /\ imu' = plugged
  /\ UNCHANGED <<plugged, session, captured, lateStart, faults>>
  /\ UNCHANGED <<writerVars, broker, agentVars, streamVars>>

\* Another client starts a session, or stops the one there is.
OtherClient ==
  /\ up /\ Fault
  /\ \/ CanStart /\ session' = Theirs /\ imu' = TRUE
     \/ session # None /\ session' = None /\ UNCHANGED imu
  /\ UNCHANGED <<up, plugged, captured, lateStart>>
  /\ UNCHANGED <<writerVars, broker, agentVars, streamVars>>

Unplug ==
  /\ plugged' = ~plugged
  /\ IF plugged THEN Fault ELSE UNCHANGED faults
  /\ UNCHANGED <<up, imu, session, captured, lateStart>>
  /\ UNCHANGED <<writerVars, broker, agentVars, streamVars>>

BrokerChanges ==
  /\ broker' = ~broker
  /\ IF broker THEN Fault ELSE UNCHANGED faults
  /\ UNCHANGED <<writerVars, agentVars, streamVars, serviceVars>>

Service == Capture \/ Reconnect \/ LeaveStream \/ LateStart

Environment ==
  \/ HandleSignal \/ Kill \/ Restart \/ Flush
  \/ ServiceDies \/ ServiceStarts \/ OtherClient \/ Unplug \/ BrokerChanges

-----------------------------------------------------------------------------
Init ==
  /\ WriterInit
  /\ config \in Configs
  /\ pc = "boot" /\ stopRequested = FALSE /\ health = None
  /\ Stream!Init /\ severed = FALSE /\ left = FALSE /\ base = 0
  /\ up = TRUE /\ plugged \in BOOLEAN /\ imu = plugged
  /\ session = None /\ captured = 0 /\ lateStart = "none" /\ faults = 0

Next == Agent \/ Service \/ Environment

\* The agent's and the service's threads run; systemd restarts the service.
Fairness == WF_vars(Agent) /\ WF_vars(Reconnect) /\ WF_vars(LateStart) /\ WF_vars(ServiceStarts)

Spec == Init /\ [][Next]_vars /\ Fairness

-----------------------------------------------------------------------------
Places ==
  {"boot", "loop", "wait", "start", "open", "read", "got", "mqtt", "report", "close", "stop"}
    \union Ended

WriterOK ==
  /\ rows \in Seq(Nat) /\ published \in Seq(Nat) /\ saved \in 0..Len(rows)
  /\ mqttClient \in BOOLEAN /\ broker \in BOOLEAN

AgentOK ==
  /\ config \in Configs /\ pc \in Places /\ stopRequested \in BOOLEAN
  /\ health \in [state : {"waiting", "degraded", "streaming"}, last : Nat, own : BOOLEAN]
                 \union {None}

StreamOK ==
  /\ open \in BOOLEAN /\ severed \in BOOLEAN /\ left \in BOOLEAN
  /\ offered \in Nat /\ taken \in Nat /\ base \in Nat
  /\ buffer \in Seq(Nat) /\ Len(buffer) <= QueueSize

ServiceOK ==
  /\ up \in BOOLEAN /\ plugged \in BOOLEAN /\ imu \in BOOLEAN
  /\ session \in {None, Mine, Theirs} /\ captured \in Nat
  /\ lateStart \in {"none", "pending", "served"}
  /\ faults \in 0..MaxFaults

TypeOK == WriterOK /\ AgentOK /\ StreamOK /\ ServiceOK

InSeq(n, s) == \E i \in 1..Len(s) : s[i] = n

\* The file holds samples in the order of their capture and none of them twice, however
\* often the stream was lost and opened again while it was written.
RowsInOrder == \A i, j \in 1..Len(rows) : i < j => rows[i] < rows[j]

OwnReport == health # None /\ health.own /\ health.state = "streaming"

\* The sample this process reports in the health file was given to its CSV file before,
\* and with MQTT published; the report is the newest row, or lags by the row in hand.
\* The row may be in the file object's buffer still, where a kill loses it, and what an
\* earlier process has left in the health file speaks of rows that are gone.
ReportedMeansWritten ==
  OwnReport =>
    /\ \E i \in 1..Len(rows) :
         /\ rows[i] = health.last
         /\ i = Len(rows) \/ (i = Len(rows) - 1 /\ pc \in {"mqtt", "report", "dead"})
    /\ mqttClient => InSeq(health.last, published)

\* The two outputs part by one sample at most for each stream: what was written from the
\* open stream is published, but for the row that is still to be.
OnlyLastUnpublished ==
  mqttClient /\ open
    => \A i \in 1..Len(rows) :
         (rows[i] > base /\ ~InSeq(rows[i], published)) => At("mqtt") /\ i = Len(rows)

\* An agent that ends by itself, even with a traceback, has its rows on disk.
EndedMeansSaved == pc \in {"done", "failed"} => saved = Len(rows)

\* An agent that was to stop its session on exit, and ended well, leaves none of its
\* own, unless a start request outlived its timeout.
ExitStopsSession ==
  At("done") /\ config.stop /\ lateStart = "none" => session # Mine

Running == pc \notin Ended

\* A stream of an active session is open at both ends.
Attached == open /\ ~severed /\ ~left /\ session # None

\* The agent ends once it is told to, whatever the service does.
StopEnds == stopRequested ~> ~Running

\* What an earlier process has left in the health file, with an emptied CSV file beside it,
\* does not stay there while this one runs, not even if the service never gets ready.
OldReportReplaced == health # None /\ ~health.own ~> ~Running \/ (health # None /\ health.own)

\* Once the service stays connected to a sensor that answers, and nobody stops the agent,
\* it gets its stream, after every fault: lost streams, other clients' sessions, restarts.
Recovers ==
  config.start /\ <>[](Ready /\ plugged /\ ~stopRequested /\ Running) => []<>Attached

\* EDGE_REDESIGN.md says of the service that it "retries if the hardware disappears or
\* read errors occur".  It does so in a session only; when the session is gone as well,
\* the agent waits for the service to be connected and the service for a session.
RetriesLostHardware ==
  plugged /\ config.start /\ <>[](up /\ plugged /\ ~stopRequested /\ Running)
    => <>[]imu
=============================================================================
