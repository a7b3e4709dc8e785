---------------------- MODULE MCIMUHardwareService ----------------------
(***************************************************************************)
(* IMUHardwareService on small instances: the requests clients send.       *)
(***************************************************************************)
EXTENDS IMUHardwareService, TLC

CONSTANTS s1, s2

Start(id, tare, reset) == [op |-> "start", session_id |-> id,
                           tare |-> tare, reset_counter |-> reset]

\* Every request resets the counter and tares.
MCTareRequests == {Start(s1, TRUE, TRUE)}

\* A client of a driver without tare.
MCPlainRequests == {Start(s1, FALSE, TRUE)}

\* One client that wants a tare, one that keeps the counter.
MCMixedRequests == {Start(s1, TRUE, TRUE), Start(s2, FALSE, FALSE)}

\* Clients that always reset the counter, as the edge agent does by default.
MCResetRequests == {Start(s1, FALSE, TRUE), Start(s2, FALSE, TRUE)}

\* The service while it serves: nobody interrupts it.
ServingSpec == Init /\ [][Next /\ ~stopEvent']_vars

HandlerSymmetry == Permutations(Handlers)

-----------------------------------------------------------------------------
(* Sessions that take turns: the session contract *)

\* A request to start or stop a session is being carried out: it has come in and its answer
\* is not yet decided.
Switching(h) == pc[h] \notin {"idle", "reply"} /\ req[h].op # "tare"

SessionsTakeTurns == \A g, h \in Handlers : Switching(g) /\ Switching(h) => g = h

\* The service while it serves clients that do not start or stop sessions at the same time.
TurnsSpec == Init /\ [][Next /\ ~stopEvent' /\ SessionsTakeTurns']_vars

WhileActive(v) == IF sessionActive THEN v ELSE None

\* A sample is on its way that the session of this moment did not ask for.
Stray ==
  \/ ~sessionActive /\ pc[Worker] \in {"ensure", "read", "emit"} \union Connecting
  \/ At(Worker, "publish") /\ (~sessionActive \/ sample.session # sessionId)

Contract ==
  INSTANCE SessionContract WITH
    active <- sessionActive,
    id     <- WhileActive(sessionId),
    hz     <- WhileActive(sampleHz),
    line   <- lastSample.session,
    debt   <- Stray

\* If start and stop requests take turns, the service keeps the session contract: the
\* sessions are as the clients asked for them, and at most one sample goes out between two
\* stops that is not labelled with its session.
KeepsContract == Contract!Spec

\* If start and stop requests take turns, status() says "running" only of a running
\* session once the requests are answered, whatever the worker and requests to tare do.
RunningMeansSession ==
  At(Main, "serve") /\ (\A h \in Handlers : At(h, "idle")) /\ state = "running"
    => sessionActive

\* If start and stop requests take turns, the numbering of the samples is not disturbed
\* while a session and its connection last: start_session resets the counter before the
\* session is active, and no refused start or tare gets that far during a session.
CountsThroughSession ==
  [][sessionActive /\ sessionActive' /\ imu /\ imu'
       => counter' \in {counter, counter + 1}]_<<sessionActive, imu, counter>>

-----------------------------------------------------------------------------
(* What the program says of itself and does not do *)

\* test_service_split.py expects of a session started with reset_counter that the
\* first sample with its id has counter 0.  A sample read before the reset can be
\* labelled after the new id is set.
SessionStartsAtZero ==
  [][lastSample'.session \notin {None, lastSample.session}
       => lastSample'.counter = 0]_lastSample

\* start_session refuses to start over a running session ("Session '...' is already
\* active."), so a session keeps its id until it is stopped.  Two requests that are
\* checked before either is carried out both start a session.
ActiveSessionKeepsId ==
  [][sessionActive /\ sessionActive' => sessionId' = sessionId]_sessionVars

\* CALIBRATION_UNSUPPORTED says "This backend does not support tare.".  It is also
\* what a client gets when the worker has just dropped the connection.
UnsupportedMeansNoTare ==
  \A h \in Handlers : reply[h] = "CALIBRATION_UNSUPPORTED" => ~HasTare
=============================================================================
