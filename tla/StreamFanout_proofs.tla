------------------------ MODULE StreamFanout_proofs ------------------------
(***************************************************************************)
(* Proofs about StreamFanout, for any number of streams and any size of    *)
(* their queues: the invariants, and that each stream implements           *)
(* DropOldest.                                                             *)
(***************************************************************************)
EXTENDS StreamFanout, SequenceTheorems, TLAPS

(***************************************************************************)
(* The inductive invariant, part by part.                                  *)
(***************************************************************************)

\* The worker is inside the loop of _emit_sample with a sample that was read, and
\* the queue it found full is one it still has to serve.
WorkerInv ==
  /\ worker # "idle" => sent > 0
  /\ worker \in {"idle", "emit"} => targets = {}
  /\ worker \in {"evict", "retry"} => target \in targets

\* A stream is subscribed between register_stream and unregister_stream.
SubscribedInv ==
  \A s \in Streams :
    s \in subscribers <=>
      handler[s] \in {"headers", "get", "write", "recheck", "finish", "leaked"}

\* Before it is registered a stream has nothing, and the worker does not know it.
FreshInv ==
  \A s \in Streams : handler[s] \in {"new", "register"} =>
    s \notin targets /\ queue[s] = <<>> /\ line[s] = 0

FInv == TypeOK /\ WorkerInv /\ SubscribedInv /\ FreshInv /\ NewestKept

-----------------------------------------------------------------------------
\* What get_nowait makes of a queue.
LEMMA TailFacts ==
  ASSUME NEW S, NEW q \in Seq(S)
  PROVE  /\ Len(q) \in Nat /\ (q = <<>> <=> Len(q) = 0)
         /\ q # <<>> => /\ Tail(q) \in Seq(S) /\ Head(q) \in S
                        /\ Len(Tail(q)) = Len(q) - 1
<1>1. Len(q) \in Nat /\ (q = <<>> <=> Len(q) = 0)
  BY EmptySeq
<1>2. ASSUME q # <<>>
      PROVE  Tail(q) \in Seq(S) /\ Head(q) \in S /\ Len(Tail(q)) = Len(q) - 1
  BY <1>2, HeadTailProperties
<1> QED BY <1>1, <1>2

\* What put_nowait makes of a queue, before and after a get_nowait.
LEMMA AppendFacts ==
  ASSUME NEW S, NEW q \in Seq(S), NEW e \in S
  PROVE  /\ Append(q, e) \in Seq(S) /\ Len(Append(q, e)) = Len(q) + 1
         /\ Append(q, e) # <<>>
         /\ q # <<>> => /\ Head(Append(q, e)) = Head(q)
                        /\ Tail(Append(q, e)) = Append(Tail(q), e)
BY AppendProperties, HeadTailAppend

LEMMA InitFInv == Init => FInv
BY FanoutAssumption
   DEF FanoutAssumption, Init, FInv, TypeOK, WorkerInv, SubscribedInv, FreshInv,
       NewestKept

\* The worker's steps.
LEMMA EmitStep == FInv /\ Emit => FInv'
<1> SUFFICES ASSUME FInv, Emit PROVE FInv'
  OBVIOUS
<1> USE FanoutAssumption
    DEF FanoutAssumption, FInv, TypeOK, WorkerInv, SubscribedInv, FreshInv,
        NewestKept, HasRoom, streamVars
<1>1. CASE ReadSample
  BY <1>1 DEF ReadSample
<1>2. CASE CopySubscribers
  BY <1>2 DEF CopySubscribers
<1>3. CASE PutSample
  <2>1. PICK s \in targets : HasRoom(s) /\ Put(s) /\ DoneWith(s)
    BY <1>3 DEF PutSample
  <2>2. /\ Append(queue[s], sent) \in Seq(1 .. MaxSamples)
        /\ Len(Append(queue[s], sent)) = Len(queue[s]) + 1
    BY <1>3, AppendFacts DEF PutSample
  <2> QED BY <1>3, <2>1, <2>2 DEF PutSample, Put, DoneWith
<1>4. CASE QueueFull
  BY <1>4 DEF QueueFull
<1>5. CASE EvictOldest
  <2>1. target \in Streams /\ queue[target] \in Seq(1 .. MaxSamples)
    BY <1>5 DEF EvictOldest
  <2>2. /\ queue[target] # <<>> =>
             /\ Tail(queue[target]) \in Seq(1 .. MaxSamples)
             /\ Len(Tail(queue[target])) = Len(queue[target]) - 1
        /\ Len(queue[target]) \in Nat
        /\ queue[target] = <<>> <=> Len(queue[target]) = 0
    BY <2>1, TailFacts
  <2> QED BY <1>5, <2>1, <2>2 DEF EvictOldest
<1>6. CASE RetryPut
  <2>1. /\ Append(queue[target], sent) \in Seq(1 .. MaxSamples)
        /\ Len(Append(queue[target], sent)) = Len(queue[target]) + 1
    BY <1>6, AppendFacts DEF RetryPut
  <2>2. target \in Streams /\ Len(queue[target]) < QueueSize
    BY <1>6 DEF RetryPut
  <2>3. queue' = [queue EXCEPT ![target] = Append(queue[target], sent)]
    BY <1>6, <2>2 DEF RetryPut, Put
  <2>4. \A s \in Streams \ {target} : queue'[s] = queue[s]
    BY <2>3
  <2>5. /\ queue' \in [Streams -> Seq(1 .. MaxSamples)]
        /\ \A s \in Streams : Len(queue'[s]) <= QueueSize
    BY <2>1, <2>2, <2>3
  <2>6. /\ targets' = targets \ {target} /\ target' = None /\ worker' = "put"
        /\ UNCHANGED <<sent, subscribers, streamVars>>
    BY <1>6 DEF RetryPut, DoneWith
  <2> QED BY <1>6, <2>2, <2>4, <2>5, <2>6 DEF RetryPut
<1>7. CASE EmitDone
  BY <1>7 DEF EmitDone
<1> QED
  BY <1>1, <1>2, <1>3, <1>4, <1>5, <1>6, <1>7 DEF Emit

\* The steps of an HTTP thread and of its client.
LEMMA ServeStep ==
  ASSUME FInv, NEW s \in Streams, Serve(s) \/ ClientChanges(s)
  PROVE  FInv'
<1> USE FanoutAssumption
    DEF FanoutAssumption, FInv, TypeOK, WorkerInv, SubscribedInv, FreshInv,
        NewestKept, HasRoom, HandlerAt, HandlerGoto, workerVars
<1>1. CASE CheckSession(s) \/ SendHeaders(s) \/ SendHeadersFails(s)
  <2>1. CASE CheckSession(s)
    BY <2>1 DEF CheckSession
  <2>2. CASE SendHeaders(s)
    BY <2>2 DEF SendHeaders
  <2>3. CASE SendHeadersFails(s)
    BY <2>3 DEF SendHeadersFails
  <2> QED BY <1>1, <2>1, <2>2, <2>3
<1>2. CASE RegisterStream(s)
  BY <1>2 DEF RegisterStream
<1>3. CASE TakeSample(s)
  <2>1. /\ Tail(queue[s]) \in Seq(1 .. MaxSamples)
        /\ Head(queue[s]) \in 1 .. MaxSamples
        /\ Len(Tail(queue[s])) = Len(queue[s]) - 1 /\ Len(queue[s]) \in Nat
    BY <1>3, TailFacts DEF TakeSample
  <2>2. /\ queue' \in [Streams -> Seq(1 .. MaxSamples)]
        /\ \A t \in Streams : t # s => queue'[t] = queue[t]
        /\ queue'[s] = Tail(queue[s])
    BY <1>3, <2>1 DEF TakeSample
  <2>3. \A t \in Streams : /\ Len(queue'[t]) <= QueueSize
                           /\ HasRoom(t) => Len(queue'[t]) < QueueSize
    <3> SUFFICES ASSUME NEW t \in Streams
                 PROVE  Len(queue'[t]) <= QueueSize /\ (HasRoom(t) => Len(queue'[t]) < QueueSize)
      OBVIOUS
    <3>1. Len(queue[t]) <= QueueSize
      OBVIOUS
    <3>2. CASE t = s
      BY <2>1, <2>2, <3>1, <3>2
    <3>3. CASE t # s
      BY <2>2, <3>1, <3>3
    <3> QED BY <3>2, <3>3
  <2>4. /\ s \in subscribers /\ handler[s] = "get" /\ UNCHANGED <<sessionActive, client>>
        /\ UNCHANGED <<workerVars, subscribers>>
        /\ line' = [line EXCEPT ![s] = Head(queue[s])]
        /\ handler' = [handler EXCEPT ![s] = "write"]
    BY <1>3 DEF TakeSample
  <2>5. TypeOK'
    BY <2>1, <2>2, <2>3, <2>4
  <2>6. WorkerInv' /\ SubscribedInv' /\ FreshInv'
    BY <2>2, <2>4
  <2>7. NewestKept'
    BY <2>3, <2>4
  <2> QED BY <2>5, <2>6, <2>7
<1>4. CASE WriteLine(s) \/ WriteFails(s)
  BY <1>4 DEF WriteLine, WriteFails
<1>5. CASE NothingFor5s(s) \/ RecheckSession(s)
  BY <1>5 DEF NothingFor5s, RecheckSession
<1>6. CASE UnregisterStream(s)
  BY <1>6 DEF UnregisterStream
<1>7. CASE ClientChanges(s)
  BY <1>7 DEF ClientChanges
<1> QED
  BY <1>1, <1>2, <1>3, <1>4, <1>5, <1>6, <1>7 DEF Serve

LEMMA FInvStep == FInv /\ [Next]_vars => FInv'
<1> SUFFICES ASSUME FInv, [Next]_vars PROVE FInv'
  OBVIOUS
<1>1. CASE ToggleSession \/ UNCHANGED vars
  BY <1>1 DEF ToggleSession, vars, workerVars, FInv, TypeOK, WorkerInv, SubscribedInv,
              FreshInv, NewestKept, HasRoom
<1> QED
  BY <1>1, EmitStep, ServeStep DEF Next

\* The inductive invariant holds.
THEOREM Invariant == Spec => []FInv
BY InitFInv, FInvStep, PTL DEF Spec

\* Every variable keeps its type; no queue grows beyond its size.
THEOREM TypeCorrect == Spec => []TypeOK
<1>1. FInv => TypeOK
  BY DEF FInv
<1> QED BY <1>1, Invariant, PTL

\* _emit_sample never loses the newest sample, for any number of streams.
THEOREM NewestIsKept == Spec => []NewestKept
<1>1. FInv => NewestKept
  BY DEF FInv
<1> QED BY <1>1, Invariant, PTL

-----------------------------------------------------------------------------
(***************************************************************************)
(* Each stream implements DropOldest.  Three of the abstract steps are     *)
(* recognised by what becomes of a stream's view of the queue.             *)
(***************************************************************************)
View(s) == <<Subscribed(s), Offered(s), Buffer(s), line[s]>>

LEMMA Stutters ==
  ASSUME NEW s \in Streams, UNCHANGED View(s)
  PROVE  UNCHANGED Stream(s)!vars
BY DEF View, Stream!vars

LEMMA Offers ==
  ASSUME NEW s \in Streams,
         s \in subscribers, s \in subscribers', line'[s] = line[s],
         Offered(s)' = Offered(s) + 1,
         \/ Buffer(s)' = Append(Buffer(s), Offered(s)')
         \/ /\ Buffer(s) # <<>>
            /\ Buffer(s)' = Append(Tail(Buffer(s)), Offered(s)'),
         Len(Buffer(s)') <= QueueSize
  PROVE  Stream(s)!Next
BY DEF Stream!Next, Stream!Offer, Subscribed

LEMMA Takes ==
  ASSUME NEW s \in Streams,
         s \in subscribers, s \in subscribers', Offered(s)' = Offered(s),
         Buffer(s) # <<>>, line'[s] = Head(Buffer(s)), Buffer(s)' = Tail(Buffer(s))
  PROVE  Stream(s)!Next
BY DEF Stream!Next, Stream!Take, Subscribed

LEMMA Closes ==
  ASSUME NEW s \in Streams,
         s \in subscribers, s \notin subscribers', line'[s] = line[s],
         Offered(s)' = 0, Buffer(s)' = <<>>
  PROVE  Stream(s)!Next
BY DEF Stream!Next, Stream!Close, Subscribed

\* A step that only moves the worker, or serves another stream, leaves the view
\* alone.
LEMMA EmitImplements ==
  ASSUME NEW s \in Streams, FInv, Emit
  PROVE  Stream(s)!Next \/ UNCHANGED View(s)
<1> USE FanoutAssumption
    DEF FanoutAssumption, FInv, TypeOK, WorkerInv, NewestKept, HasRoom, streamVars,
        View, Subscribed, Offered, Pending, Buffer
<1>1. CASE ReadSample
  BY <1>1 DEF ReadSample
<1>2. CASE CopySubscribers
  BY <1>2 DEF CopySubscribers
<1>3. CASE PutSample
  <2>1. PICK r \in targets : HasRoom(r) /\ Put(r) /\ DoneWith(r)
    BY <1>3 DEF PutSample
  <2>2. CASE r # s \/ s \notin subscribers
    BY <1>3, <2>1, <2>2 DEF PutSample, Put, DoneWith
  <2>3. CASE r = s /\ s \in subscribers
    <3>1. /\ Offered(s)' = Offered(s) + 1 /\ Offered(s)' = sent
          /\ UNCHANGED <<subscribers, line>>
      BY <1>3, <2>1, <2>3 DEF PutSample, Put, DoneWith
    <3>2. Buffer(s) = queue[s] /\ Buffer(s)' = Append(queue[s], sent)
      BY <1>3, <2>1, <2>3 DEF PutSample, Put, DoneWith
    <3>3. Len(Append(queue[s], sent)) <= QueueSize
      BY <1>3, <2>1, <2>3, AppendFacts DEF PutSample
    <3> QED BY <2>3, <3>1, <3>2, <3>3, Offers
  <2> QED BY <2>2, <2>3
<1>4. CASE QueueFull
  BY <1>4 DEF QueueFull
<1>5. CASE EvictOldest
  <2>1. CASE target # s \/ s \notin subscribers
    <3>1. target \in Streams /\ worker = "evict" /\ worker' = "retry"
          /\ UNCHANGED <<sent, targets, target, subscribers, line>>
      BY <1>5 DEF EvictOldest
    <3>2. s \in subscribers => queue'[s] = queue[s]
      BY <1>5, <2>1, <3>1 DEF EvictOldest
    <3>3. UNCHANGED <<Subscribed(s), Offered(s), line[s]>>
      BY <2>1, <3>1
    <3>4. UNCHANGED Buffer(s)
      BY <2>1, <3>1, <3>2
    <3> QED BY <3>3, <3>4
  <2>2. CASE target = s /\ s \in subscribers
    <3>1. /\ Offered(s)' = Offered(s) + 1 /\ Offered(s)' = sent
          /\ UNCHANGED <<subscribers, line>>
      BY <1>5, <2>2 DEF EvictOldest
    <3>2. /\ Buffer(s) = queue[s]
          /\ Buffer(s)' = IF queue[s] = <<>> THEN Append(queue[s], sent)
                                            ELSE Append(Tail(queue[s]), sent)
      BY <1>5, <2>2 DEF EvictOldest
    <3>3. /\ queue[s] = <<>> => Len(Append(queue[s], sent)) <= QueueSize
          /\ queue[s] # <<>> => Len(Append(Tail(queue[s]), sent)) <= QueueSize
      <4>1. queue[s] \in Seq(1 .. MaxSamples) /\ sent \in 1 .. MaxSamples
        BY <1>5 DEF EvictOldest
      <4> QED BY <4>1, TailFacts, AppendFacts
    <3> QED BY <2>2, <3>1, <3>2, <3>3, Offers
  <2> QED BY <2>1, <2>2
<1>6. CASE RetryPut
  <2>1. target \in Streams /\ target \in targets /\ worker = "retry"
    BY <1>6 DEF RetryPut
  <2>2. queue' = [queue EXCEPT ![target] = Append(queue[target], sent)]
    BY <1>6, <2>1 DEF RetryPut, Put
  <2>3. /\ worker' = "put" /\ targets' = targets \ {target}
        /\ UNCHANGED <<sent, subscribers, line>>
    BY <1>6 DEF RetryPut, DoneWith
  <2>4. UNCHANGED <<Subscribed(s), Offered(s), line[s]>>
    BY <2>1, <2>3
  <2>5. CASE target = s
    <3>1. queue'[s] = Append(queue[s], sent) /\ target' # s
      BY <1>6, <2>2, <2>5, <2>1 DEF RetryPut, DoneWith
    <3>2. UNCHANGED Buffer(s)
      BY <2>1, <2>3, <2>5, <3>1
    <3> QED BY <2>4, <3>2
  <2>6. CASE target # s
    <3>1. queue'[s] = queue[s] /\ target' # s
      BY <1>6, <2>2, <2>6 DEF RetryPut, DoneWith
    <3>2. UNCHANGED Buffer(s)
      BY <2>1, <2>3, <2>6, <3>1
    <3> QED BY <2>4, <3>2
  <2> QED BY <2>5, <2>6
<1>7. CASE EmitDone
  BY <1>7 DEF EmitDone
<1> QED
  BY <1>1, <1>2, <1>3, <1>4, <1>5, <1>6, <1>7 DEF Emit

LEMMA ServeImplements ==
  ASSUME NEW s \in Streams, FInv, NEW r \in Streams, Serve(r) \/ ClientChanges(r)
  PROVE  Stream(s)!Next \/ UNCHANGED View(s)
<1> USE FanoutAssumption
    DEF FanoutAssumption, FInv, TypeOK, WorkerInv, SubscribedInv, FreshInv, HandlerAt,
        HandlerGoto, workerVars, View, Subscribed, Offered, Pending, Buffer
<1>1. CASE \/ CheckSession(r) \/ SendHeaders(r) \/ SendHeadersFails(r)
           \/ WriteLine(r) \/ WriteFails(r) \/ NothingFor5s(r) \/ RecheckSession(r)
           \/ ClientChanges(r)
  BY <1>1 DEF CheckSession, SendHeaders, SendHeadersFails, WriteLine, WriteFails,
              NothingFor5s, RecheckSession, ClientChanges
<1>2. CASE RegisterStream(r)
  <2>1. CASE r # s
    BY <1>2, <2>1 DEF RegisterStream
  <2>2. CASE r = s
    <3>1. s \notin subscribers /\ s \in subscribers' /\ line'[s] = line[s]
      BY <1>2, <2>2 DEF RegisterStream
    <3>2. Offered(s)' \in Nat /\ line[s] = 0
      BY <1>2, <2>2 DEF RegisterStream
    <3>3. Buffer(s)' = <<>>
      BY <1>2, <2>2 DEF RegisterStream
    <3> QED BY <3>1, <3>2, <3>3 DEF Stream!Next, Stream!Open
  <2> QED BY <2>1, <2>2
<1>3. CASE TakeSample(r)
  <2>1. CASE r # s
    BY <1>3, <2>1 DEF TakeSample
  <2>2. CASE r = s
    <3>1. /\ s \in subscribers /\ UNCHANGED <<subscribers, Offered(s)>>
          /\ line'[s] = Head(queue[s]) /\ queue[s] # <<>>
      BY <1>3, <2>2 DEF TakeSample
    <3>2. CASE worker = "retry" /\ target = s
      <4>1. /\ Buffer(s) = Append(queue[s], sent)
            /\ Buffer(s)' = Append(Tail(queue[s]), sent)
        BY <1>3, <2>2, <3>2 DEF TakeSample
      <4>2. /\ Append(queue[s], sent) # <<>>
            /\ Head(Append(queue[s], sent)) = Head(queue[s])
            /\ Tail(Append(queue[s], sent)) = Append(Tail(queue[s]), sent)
        <5>1. queue[s] \in Seq(1 .. MaxSamples) /\ sent \in 1 .. MaxSamples
          BY <3>2
        <5>2. queue[s] # <<>>
          BY <3>1
        <5> QED BY ONLY <5>1, <5>2, AppendFacts
      <4> QED BY <3>1, <4>1, <4>2, Takes
    <3>3. CASE ~(worker = "retry" /\ target = s)
      <4>1. Buffer(s) = queue[s] /\ Buffer(s)' = Tail(queue[s])
        BY <1>3, <2>2, <3>3 DEF TakeSample
      <4> QED BY <3>1, <4>1, Takes
    <3> QED BY <3>2, <3>3
  <2> QED BY <2>1, <2>2
<1>4. CASE UnregisterStream(r)
  <2>1. CASE r # s
    BY <1>4, <2>1 DEF UnregisterStream
  <2>2. CASE r = s
    <3>1. /\ s \in subscribers /\ s \notin subscribers' /\ line'[s] = line[s]
          /\ Offered(s)' = 0 /\ Buffer(s)' = <<>>
      BY <1>4, <2>2 DEF UnregisterStream
    <3> QED BY <3>1, Closes
  <2> QED BY <2>1, <2>2
<1> QED
  BY <1>1, <1>2, <1>3, <1>4 DEF Serve

LEMMA StepImplements ==
  FInv /\ [Next]_vars => \A s \in Streams : [Stream(s)!Next]_(Stream(s)!vars)
<1> SUFFICES ASSUME FInv, [Next]_vars, NEW s \in Streams
             PROVE  [Stream(s)!Next]_(Stream(s)!vars)
  OBVIOUS
<1>1. CASE Emit
  BY <1>1, EmitImplements, Stutters
<1>2. CASE \E r \in Streams : Serve(r) \/ ClientChanges(r)
  BY <1>2, ServeImplements, Stutters
<1>3. CASE ToggleSession \/ UNCHANGED vars
  <2>1. UNCHANGED View(s)
    BY <1>3 DEF ToggleSession, vars, workerVars, View, Subscribed, Offered, Pending,
                Buffer
  <2> QED BY <2>1, Stutters
<1> QED BY <1>1, <1>2, <1>3 DEF Next

LEMMA InitImplements == Init => \A s \in Streams : Stream(s)!Init
<1> SUFFICES ASSUME Init, NEW s \in Streams PROVE Stream(s)!Init
  OBVIOUS
<1>1. ~Subscribed(s)
  BY DEF Init, Subscribed
<1>2. Offered(s) = 0 /\ Buffer(s) = <<>> /\ line[s] = 0
  BY <1>1 DEF Init, Offered, Buffer
<1>3. (s \in subscribers) = FALSE
  BY SMT DEF Init
<1> QED
  BY <1>2, <1>3, Zenon DEF Stream!Init, Subscribed

\* Each stream is offered every sample once and in order from its registration on,
\* and loses only its oldest ones, however many streams there are.
THEOREM StreamsImplementDropOldest == Spec => StreamsKeepPromise
BY Invariant, InitImplements, StepImplements, PTL DEF Spec, StreamsKeepPromise

-----------------------------------------------------------------------------
(***************************************************************************)
(* What the client of a stream gets, from what the contract allows.        *)
(***************************************************************************)

\* The queued samples are the last ones offered, without a gap.
LastOnes(b, n) == \A i \in 1..Len(b) : b[i] = (n - Len(b)) + i

OrderInv(s) ==
  Subscribed(s) => /\ LastOnes(Buffer(s), Offered(s))
                   /\ line[s] + Len(Buffer(s)) <= Offered(s)

\* Taking the oldest one and offering the next one keep it so.
LEMMA LastOnesKept ==
  ASSUME NEW b \in Seq(Nat), NEW n \in Nat, LastOnes(b, n)
  PROVE  /\ LastOnes(Append(b, n + 1), n + 1)
         /\ b # <<>> => /\ LastOnes(Tail(b), n)
                        /\ LastOnes(Append(Tail(b), n + 1), n + 1)
                        /\ Head(b) = (n - Len(b)) + 1
<1>1. ASSUME NEW q \in Seq(Nat), LastOnes(q, n)
      PROVE  LastOnes(Append(q, n + 1), n + 1)
  <2>1. /\ Len(Append(q, n + 1)) = Len(q) + 1 /\ Append(q, n + 1)[Len(q) + 1] = n + 1
        /\ \A i \in 1..Len(q) : Append(q, n + 1)[i] = q[i]
        /\ Len(q) \in Nat
    BY AppendProperties, EmptySeq
  <2> QED BY <1>1, <2>1 DEF LastOnes
<1>2. ASSUME b # <<>>
      PROVE  LastOnes(Tail(b), n) /\ Head(b) = (n - Len(b)) + 1 /\ Tail(b) \in Seq(Nat)
  <2>1. /\ Tail(b) \in Seq(Nat) /\ Len(Tail(b)) = Len(b) - 1 /\ Head(b) = b[1]
        /\ \A i \in 1..Len(Tail(b)) : Tail(b)[i] = b[i + 1]
        /\ Len(b) \in Nat \ {0}
    BY <1>2, HeadTailProperties, EmptySeq
  <2> QED BY <2>1 DEF LastOnes
<1> QED BY <1>1, <1>2

ViewOK(s) ==
  /\ Buffer(s) \in Seq(Nat) /\ Offered(s) \in Nat /\ line[s] \in Nat
  /\ Len(Buffer(s)) \in 0..QueueSize
  /\ Subscribed(s) => Offered(s) \in {sent - 1, sent}

LEMMA ViewTypes == FInv => \A s \in Streams : ViewOK(s)
<1> SUFFICES ASSUME FInv, NEW s \in Streams PROVE ViewOK(s)
  OBVIOUS
<1> USE FanoutAssumption
    DEF FanoutAssumption, FInv, TypeOK, WorkerInv, NewestKept, HasRoom, Subscribed
<1>1. queue[s] \in Seq(Nat) /\ sent \in Nat /\ line[s] \in Nat
  <2>1. queue[s] \in Seq(1 .. MaxSamples)
    OBVIOUS
  <2> QED BY <2>1
<1>2. Buffer(s) \in Seq(Nat) /\ Len(Buffer(s)) \in 0..QueueSize
  <2>1. CASE Buffer(s) = <<>>
    BY <2>1
  <2>2. CASE Buffer(s) = queue[s]
    BY <1>1, <2>2, TailFacts
  <2>3. CASE Buffer(s) = Append(queue[s], sent) /\ worker = "retry" /\ target = s
    BY <1>1, <2>3, AppendFacts, TailFacts
  <2> QED BY <2>1, <2>2, <2>3 DEF Buffer
<1>3. Offered(s) \in Nat /\ (Subscribed(s) => Offered(s) \in {sent - 1, sent})
  BY <1>1 DEF Offered, Pending
<1> QED BY <1>1, <1>2, <1>3 DEF ViewOK

LEMMA NextViewTypes == FInv' => (\A s \in Streams : ViewOK(s))'
BY ViewTypes, PTL

\* Every step of the contract keeps the order.
LEMMA OrderStep ==
  ASSUME FInv, FInv', NEW s \in Streams, OrderInv(s), [Stream(s)!Next]_(Stream(s)!vars)
  PROVE  /\ OrderInv(s)'
         /\ line'[s] # line[s] =>
              line'[s] > line[s] /\ line'[s] + QueueSize >= sent
<1> DEFINE b == Buffer(s)
           n == Offered(s)
<1>1. /\ b \in Seq(Nat) /\ n \in Nat /\ line[s] \in Nat /\ Len(b) \in 0..QueueSize
      /\ Subscribed(s) => n \in {sent - 1, sent}
  BY ViewTypes DEF ViewOK
<1>2. b' \in Seq(Nat) /\ n' \in Nat /\ line'[s] \in Nat /\ Len(b') \in 0..QueueSize
  BY NextViewTypes DEF ViewOK
<1>3. QueueSize \in Nat /\ sent \in Nat
  BY FanoutAssumption DEF FanoutAssumption, FInv, TypeOK
<1>4. Len(<<>>) = 0 /\ LastOnes(<<>>, n')
  BY EmptySeq DEF LastOnes
<1> HIDE DEF b, n
<1>5. CASE Stream(s)!Open
  <2>1. b' = <<>> /\ n' >= line[s] /\ line'[s] = line[s]
    BY <1>5 DEF Stream!Open, b, n
  <2> QED BY <1>1, <1>2, <1>4, <2>1 DEF OrderInv, b, n
<1>6. CASE Stream(s)!Offer
  <2>1. /\ Subscribed(s) /\ n' = n + 1 /\ line'[s] = line[s]
        /\ \/ b' = Append(b, n + 1)
           \/ b # <<>> /\ b' = Append(Tail(b), n + 1)
    BY <1>6 DEF Stream!Offer, b, n
  <2>2. LastOnes(b, n) /\ line[s] + Len(b) <= n
    BY <2>1 DEF OrderInv, b, n
  <2>3. LastOnes(b', n')
    BY <1>1, <2>1, <2>2, LastOnesKept
  <2>4. Len(b') <= Len(b) + 1
    BY <1>1, <2>1, AppendFacts, TailFacts
  <2>5. line'[s] + Len(b') <= n'
    BY <1>1, <1>2, <2>1, <2>2, <2>4
  <2> QED BY <2>1, <2>3, <2>5 DEF OrderInv, b, n
<1>7. CASE Stream(s)!Take
  <2>1. /\ Subscribed(s) /\ b # <<>> /\ n' = n
        /\ line'[s] = Head(b) /\ b' = Tail(b)
    BY <1>7 DEF Stream!Take, b, n
  <2>2. LastOnes(b, n) /\ line[s] + Len(b) <= n
    BY <2>1 DEF OrderInv, b, n
  <2>3. LastOnes(b', n') /\ Head(b) = (n - Len(b)) + 1 /\ Len(b') = Len(b) - 1
    BY <1>1, <2>1, <2>2, LastOnesKept, TailFacts
  <2>4. line'[s] + Len(b') <= n' /\ line'[s] > line[s] /\ line'[s] + QueueSize >= sent
    BY <1>1, <1>2, <1>3, <2>1, <2>2, <2>3
  <2> QED BY <2>1, <2>3, <2>4 DEF OrderInv, b, n
<1>8. CASE Stream(s)!Close
  BY <1>8 DEF Stream!Close, OrderInv
<1>9. CASE UNCHANGED Stream(s)!vars
  BY <1>9 DEF Stream!vars, OrderInv
<1> QED BY <1>5, <1>6, <1>7, <1>8, <1>9 DEF Stream!Next

LEMMA InitOrder == Init => \A s \in Streams : OrderInv(s)
BY DEF Init, OrderInv, Subscribed

LEMMA OrderSteps ==
  FInv /\ (\A s \in Streams : OrderInv(s)) /\ [Next]_vars
    => /\ (\A s \in Streams : OrderInv(s))'
       /\ \A s \in Streams :
            line'[s] # line[s] => line'[s] > line[s] /\ line'[s] + QueueSize >= sent
BY FInvStep, StepImplements, OrderStep

\* A stream never writes an old sample, nor one twice: whatever the client does, a line
\* holds one of the last QueueSize + 1 samples read and a newer one than the line before it
\* (_emit_sample, the handler of /v1/telemetry/stream).
THEOREM LinesStayRecent == Spec => LinesAreRecent
<1>1. FInv /\ (\A s \in Streams : OrderInv(s)) /\ [Next]_vars
        => [\A s \in Streams :
              line'[s] # line[s] => line'[s] > line[s] /\ line'[s] + QueueSize >= sent]_line
  BY OrderSteps
<1> QED BY <1>1, Invariant, InitOrder, OrderSteps, PTL DEF Spec, LinesAreRecent
=============================================================================
