---------------------------- MODULE StreamFanout ----------------------------
(***************************************************************************)
(* The telemetry streams: IMUHardwareService._emit_sample hands each       *)
(* sample to the queue of every subscriber, and one HTTP thread per stream *)
(* (IMURequestHandler._stream_samples) empties its queue into the socket.  *)
(*                                                                         *)
(* _subscriber_lock protects the dict of subscribers and each queue has a  *)
(* lock of its own, so a step is one access to the dict or one operation   *)
(* of one queue: the sampling thread goes through a copy of the dict that  *)
(* may be out of date, and a reader may empty a queue between the          *)
(* put_nowait that found it full and the get_nowait that makes room.       *)
(***************************************************************************)
EXTENDS Integers, Sequences

CONSTANTS
  Streams,      \* the GET requests for /v1/telemetry/stream
  QueueSize,    \* IMU_STREAM_QUEUE_SIZE
  None,         \* Python's None
  MaxSamples    \* bound of the model: no sample is read beyond this number

ASSUME FanoutAssumption ==
  /\ None \notin Streams
  /\ QueueSize \in Nat \ {0}
  /\ MaxSamples \in Nat

VARIABLES
  sessionActive,  \* environment: set and cleared by the control requests
  worker,         \* where the sampling thread is
  sent,           \* number of samples read; sample n is the n-th
  targets,        \* the subscribers the current sample is still to be given to
  target,         \* the one whose queue was found full
  subscribers,    \* self._subscribers, whose order is left open
  queue,          \* each stream's queue
  handler,        \* where each stream's HTTP thread is
  line,           \* the last sample it took from its queue
  client          \* whether its client reads, is stalled (its socket full), or gone

workerVars == <<worker, sent, targets, target>>
streamVars == <<sessionActive, handler, line, client>>
vars == <<sessionActive, worker, sent, targets, target, subscribers, queue, handler,
          line, client>>

HandlerAt(s, place)   == handler[s] = place
HandlerGoto(s, place) == handler' = [handler EXCEPT ![s] = place]

-----------------------------------------------------------------------------
(* The sampling thread *)

\* The gate of _run: a sample is read only for a session, which may be stopped by
\* the time the sample is handed out.
ReadSample ==
  /\ worker = "idle" /\ sessionActive
  /\ sent < MaxSamples
  /\ sent' = sent + 1
  /\ worker' = "emit"
  /\ UNCHANGED <<targets, target, subscribers, queue, streamVars>>

\* queues = list(self._subscribers.values())
CopySubscribers ==
  /\ worker = "emit"
  /\ targets' = subscribers
  /\ worker' = "put"
  /\ UNCHANGED <<sent, target, subscribers, queue, streamVars>>

HasRoom(s) == Len(queue[s]) < QueueSize

Put(s) == queue' = [queue EXCEPT ![s] = Append(@, sent)]

\* The worker goes on to the next queue.
DoneWith(s) == targets' = targets \ {s} /\ target' = None /\ worker' = "put"

\* Mutant: the queue has no bound.
PutUnbounded ==
  /\ worker = "put"
  /\ \E s \in targets : Put(s) /\ DoneWith(s)
  /\ UNCHANGED <<sent, subscribers, streamVars>>

PutSample ==
  /\ worker = "put"
  /\ \E s \in targets : HasRoom(s) /\ Put(s) /\ DoneWith(s)
  /\ UNCHANGED <<sent, subscribers, streamVars>>

\* Mutant: put() that waits for room.
PutBlocks == FALSE

\* put_nowait raises queue.Full
QueueFull ==
  /\ worker = "put"
  /\ \E s \in targets : ~HasRoom(s) /\ target' = s
  /\ worker' = "evict"
  /\ UNCHANGED <<sent, targets, subscribers, queue, streamVars>>

\* Mutant: the oldest sample is looked at and not taken.
EvictNothing ==
  /\ worker = "evict" /\ worker' = "retry"
  /\ UNCHANGED <<sent, targets, target, subscribers, queue, streamVars>>

\* Mutant: the newest of the queued samples makes room.
EvictNewest ==
  /\ worker = "evict"
  /\ queue' = [queue EXCEPT ![target] = SubSeq(@, 1, Len(@) - 1)]
  /\ worker' = "retry"
  /\ UNCHANGED <<sent, targets, target, subscribers, streamVars>>

\* get_nowait takes the oldest sample; the queue may have been emptied meanwhile.
EvictOldest ==
  /\ worker = "evict"
  /\ queue' = IF queue[target] = <<>> THEN queue
              ELSE [queue EXCEPT ![target] = Tail(@)]
  /\ worker' = "retry"
  /\ UNCHANGED <<sent, targets, target, subscribers, streamVars>>

\* Mutant: the newest sample is dropped as well as the oldest.
RetryNothing ==
  /\ worker = "retry" /\ DoneWith(target)
  /\ UNCHANGED <<sent, subscribers, queue, streamVars>>

\* The second put_nowait, or the sample is skipped for this stream.
RetryPut ==
  /\ worker = "retry"
  /\ IF HasRoom(target) THEN Put(target) ELSE UNCHANGED queue
  /\ DoneWith(target)
  /\ UNCHANGED <<sent, subscribers, streamVars>>

EmitDone ==
  /\ worker = "put" /\ targets = {}
  /\ worker' = "idle"
  /\ UNCHANGED <<sent, targets, target, subscribers, queue, streamVars>>

-----------------------------------------------------------------------------
(* The HTTP thread of a stream *)

\* NO_ACTIVE_SESSION, or on to register_stream; the session may stop in between.
CheckSession(s) ==
  /\ HandlerAt(s, "new")
  /\ HandlerGoto(s, IF sessionActive THEN "register" ELSE "refused")
  /\ UNCHANGED <<sessionActive, workerVars, subscribers, queue, line, client>>

RegisterStream(s) ==
  /\ HandlerAt(s, "register")
  /\ subscribers' = subscribers \union {s}
  /\ HandlerGoto(s, "headers")
  /\ UNCHANGED <<sessionActive, workerVars, queue, line, client>>

SendHeaders(s) ==
  /\ HandlerAt(s, "headers") /\ client[s] # "gone"
  /\ HandlerGoto(s, "get")
  /\ UNCHANGED <<sessionActive, workerVars, subscribers, queue, line, client>>

\* The headers are sent before the try block: when the client is gone by then, the
\* exception leaves the stream registered for ever.
SendHeadersFails(s) ==
  /\ HandlerAt(s, "headers") /\ client[s] = "gone"
  /\ HandlerGoto(s, "leaked")
  /\ UNCHANGED <<sessionActive, workerVars, subscribers, queue, line, client>>

TakeSample(s) ==
  /\ HandlerAt(s, "get") /\ queue[s] # <<>>
  /\ line' = [line EXCEPT ![s] = Head(queue[s])]
  /\ queue' = [queue EXCEPT ![s] = Tail(@)]
  /\ HandlerGoto(s, "write")
  /\ UNCHANGED <<sessionActive, workerVars, subscribers, client>>

WriteLine(s) ==
  /\ HandlerAt(s, "write") /\ client[s] = "reading"
  /\ HandlerGoto(s, "get")
  /\ UNCHANGED <<sessionActive, workerVars, subscribers, queue, line, client>>

\* BrokenPipeError or ConnectionResetError
WriteFails(s) ==
  /\ HandlerAt(s, "write") /\ client[s] = "gone"
  /\ HandlerGoto(s, "finish")
  /\ UNCHANGED <<sessionActive, workerVars, subscribers, queue, line, client>>

\* get(timeout=5) raises queue.Empty
NothingFor5s(s) ==
  /\ HandlerAt(s, "get") /\ queue[s] = <<>>
  /\ HandlerGoto(s, "recheck")
  /\ UNCHANGED <<sessionActive, workerVars, subscribers, queue, line, client>>

\* Mutant: the thread never looks whether there still is a session.
NeverRecheck(s) ==
  /\ HandlerAt(s, "recheck") /\ HandlerGoto(s, "get")
  /\ UNCHANGED <<sessionActive, workerVars, subscribers, queue, line, client>>

\* Only now the thread looks whether there still is a session.
RecheckSession(s) ==
  /\ HandlerAt(s, "recheck")
  /\ HandlerGoto(s, IF sessionActive THEN "get" ELSE "finish")
  /\ UNCHANGED <<sessionActive, workerVars, subscribers, queue, line, client>>

UnregisterStream(s) ==
  /\ HandlerAt(s, "finish")
  /\ subscribers' = subscribers \ {s}
  /\ HandlerGoto(s, "closed")
  /\ UNCHANGED <<sessionActive, workerVars, queue, line, client>>

-----------------------------------------------------------------------------
(* The environment and the specification *)

\* A control request starts or stops the session.
ToggleSession ==
  /\ sessionActive' = ~sessionActive
  /\ UNCHANGED <<workerVars, subscribers, queue, handler, line, client>>

\* A client stops reading, reads on, or closes its connection.
ClientChanges(s) ==
  /\ client[s] # "gone"
  /\ \E c \in {"reading", "stalled", "gone"} \ {client[s]} :
       client' = [client EXCEPT ![s] = c]
  /\ UNCHANGED <<sessionActive, workerVars, subscribers, queue, handler, line>>

Init ==
  /\ sessionActive \in BOOLEAN
  /\ worker = "idle" /\ sent = 0 /\ targets = {} /\ target = None
  /\ subscribers = {}
  /\ queue = [s \in Streams |-> <<>>]
  /\ handler = [s \in Streams |-> "new"]
  /\ line = [s \in Streams |-> 0]
  /\ client = [s \in Streams |-> "reading"]

Emit ==
  \/ ReadSample \/ CopySubscribers \/ PutSample \/ QueueFull \/ EvictOldest
  \/ RetryPut \/ EmitDone

Serve(s) ==
  \/ CheckSession(s) \/ RegisterStream(s) \/ SendHeaders(s) \/ SendHeadersFails(s)
  \/ TakeSample(s) \/ WriteLine(s) \/ WriteFails(s)
  \/ NothingFor5s(s) \/ RecheckSession(s) \/ UnregisterStream(s)

Next ==
  \/ Emit
  \/ \E s \in Streams : Serve(s) \/ ClientChanges(s)
  \/ ToggleSession

Spec == Init /\ [][Next]_vars

\* The threads go on when they can; clients and control requests do as they like.
FairSpec == Spec /\ WF_vars(Emit) /\ \A s \in Streams : WF_vars(Serve(s))

-----------------------------------------------------------------------------
(* Properties *)

TypeOK ==
  /\ sessionActive \in BOOLEAN
  /\ worker \in {"idle", "emit", "put", "evict", "retry"}
  /\ sent \in 0 .. MaxSamples
  /\ targets \subseteq Streams /\ subscribers \subseteq Streams
  /\ target \in Streams \union {None}
  /\ queue \in [Streams -> Seq(1 .. MaxSamples)]
  /\ \A s \in Streams : Len(queue[s]) <= QueueSize
  /\ handler \in [Streams -> {"new", "refused", "register", "headers", "get", "write",
                              "recheck", "finish", "closed", "leaked"}]
  /\ line \in [Streams -> 0 .. MaxSamples]
  /\ client \in [Streams -> {"reading", "stalled", "gone"}]

\* The newest sample is never the one that is lost: after the eviction there is
\* room, whatever the reader did in between, and the second queue.Full of
\* _emit_sample cannot happen.
NewestKept == worker = "retry" => HasRoom(target)

Subscribed(s) == s \in subscribers

\* The current sample is still to be offered to stream s; a sample that is between
\* its eviction and its second put counts as offered.
Pending(s) ==
  \/ worker = "emit"
  \/ worker \in {"put", "evict"} /\ s \in targets
  \/ worker = "retry" /\ s \in targets \ {target}

Offered(s) ==
  IF ~Subscribed(s) THEN 0 ELSE IF Pending(s) THEN sent - 1 ELSE sent

Buffer(s) ==
  IF ~Subscribed(s) THEN <<>>
  ELSE IF worker = "retry" /\ target = s THEN Append(queue[s], sent)
  ELSE queue[s]

Stream(s) ==
  INSTANCE DropOldest WITH
    open <- Subscribed(s), offered <- Offered(s), buffer <- Buffer(s),
    taken <- line[s]

\* Every stream keeps its promise: each sample from its registration on is offered
\* once and in order, and a stream that lags loses the oldest ones only.
StreamsKeepPromise ==
  /\ \A s \in Streams : Stream(s)!Init
  /\ [][\A s \in Streams : [Stream(s)!Next]_(Stream(s)!vars)]_vars

\* However slow its client, a stream writes newer and newer samples, none of them older
\* than its queue: a sample it takes is one of the last QueueSize + 1 read.
LinesAreRecent ==
  [][\A s \in Streams :
       line'[s] # line[s] => line'[s] > line[s] /\ line'[s] + QueueSize >= sent]_line

\* The sampling thread is never held up by a stream: not by a client that has
\* stalled, nor by the full queue of a stream whose thread is gone.
SamplingNotBlocked == []<>(worker = "idle")

\* When there is no session for good, every stream comes to its end, unless its
\* client stalls again and again.  The thread of a leaked stream has ended, by an exception;
\* its queue stays subscribed all the same.
StreamsClose ==
  <>[]~sessionActive =>
    \A s \in Streams :
      []<>(handler[s] \in {"refused", "closed", "leaked"} \/ client[s] = "stalled")
=============================================================================
