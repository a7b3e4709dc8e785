--------------------------- MODULE EdgeAgent_proofs ---------------------------
(***************************************************************************)
(* Proofs of the invariants of EdgeAgent, for any QueueSize, any number of *)
(* samples and any number of faults.                                       *)
(***************************************************************************)
EXTENDS EdgeAgent, TLAPS, SequenceTheorems

Increasing(s) == \A i, j \in 1..Len(s) : i < j => s[i] < s[j]

(***************************************************************************)
(* The inductive invariant, part by part.                                  *)
(***************************************************************************)

\* The numbers of the samples on their way: those in the file are not newer than the one
\* in hand, that one is older than those in the stream, and so on to the last captured.
OrderInv ==
  /\ base <= captured /\ taken <= captured
  /\ open => taken <= offered /\ offered <= captured
  /\ open /\ ~severed /\ ~left => offered = captured
  /\ ~open => buffer = <<>>
  /\ Increasing(buffer)
  /\ \A i \in 1..Len(buffer) : taken < buffer[i] /\ buffer[i] <= offered

RowsInv ==
  /\ Increasing(rows)
  /\ \A i \in 1..Len(rows) : rows[i] <= taken /\ (At("got") => rows[i] < taken)

\* Where the sample in hand has got to.
StoredInv ==
  /\ At("boot") => ~OwnReport
  /\ pc \in {"mqtt", "report"} => rows # <<>> /\ rows[Len(rows)] = taken
  /\ At("report") /\ mqttClient => InSeq(taken, published)
  /\ ReportedMeansWritten

SavedInv == pc \in {"stop", "done", "failed"} => saved = Len(rows)

IInv ==
  /\ TypeOK /\ OrderInv /\ RowsInv /\ StoredInv
  /\ OnlyLastUnpublished /\ SavedInv /\ ExitStopsSession

-----------------------------------------------------------------------------
(* Sequences of numbers *)

LEMMA LenFacts ==
  ASSUME NEW s \in Seq(Nat)
  PROVE  /\ Len(s) \in Nat /\ (s = <<>> <=> Len(s) = 0)
         /\ \A i \in 1..Len(s) : s[i] \in Nat
BY EmptySeq

LEMMA AppendFacts ==
  ASSUME NEW s \in Seq(Nat), NEW e \in Nat
  PROVE  /\ Append(s, e) \in Seq(Nat) /\ Append(s, e) # <<>>
         /\ Len(Append(s, e)) = Len(s) + 1
         /\ \A i \in 1..Len(s) : Append(s, e)[i] = s[i]
         /\ Append(s, e)[Len(s) + 1] = e
BY AppendProperties, LenFacts

LEMMA TailFacts ==
  ASSUME NEW s \in Seq(Nat), s # <<>>
  PROVE  /\ Head(s) \in Nat /\ Head(s) = s[1]
         /\ Tail(s) \in Seq(Nat) /\ Len(Tail(s)) = Len(s) - 1
         /\ \A i \in 1..Len(Tail(s)) : Tail(s)[i] = s[i + 1]
BY HeadTailProperties, LenFacts

LEMMA PrefixFacts ==
  ASSUME NEW s \in Seq(Nat), NEW n \in 0..Len(s)
  PROVE  /\ SubSeq(s, 1, n) \in Seq(Nat) /\ Len(SubSeq(s, 1, n)) = n
         /\ \A i \in 1..n : SubSeq(s, 1, n)[i] = s[i]
BY SubSeqProperties, LenFacts

\* A larger number at the end leaves a sequence increasing.
LEMMA IncreasingAppend ==
  ASSUME NEW s \in Seq(Nat), NEW e \in Nat, Increasing(s), \A i \in 1..Len(s) : s[i] < e
  PROVE  Increasing(Append(s, e))
<1> SUFFICES ASSUME NEW i \in 1..(Len(s) + 1), NEW j \in 1..(Len(s) + 1), i < j
             PROVE  Append(s, e)[i] < Append(s, e)[j]
  BY AppendFacts DEF Increasing
<1>1. i \in 1..Len(s) /\ (j \in 1..Len(s) \/ j = Len(s) + 1)
  BY LenFacts
<1> QED BY <1>1, AppendFacts, LenFacts DEF Increasing

LEMMA IncreasingTail ==
  ASSUME NEW s \in Seq(Nat), s # <<>>, Increasing(s)
  PROVE  /\ Increasing(Tail(s))
         /\ \A i \in 1..Len(Tail(s)) : Head(s) < Tail(s)[i]
<1> SUFFICES ASSUME NEW i \in 1..(Len(s) - 1)
             PROVE  /\ \A j \in 1..(Len(s) - 1) : i < j => s[i + 1] < s[j + 1]
                    /\ s[1] < s[i + 1]
  BY TailFacts DEF Increasing
<1>1. i + 1 \in 1..Len(s) /\ 1 \in 1..Len(s) /\ 1 < i + 1
  BY LenFacts
<1>2. \A j \in 1..(Len(s) - 1) : j + 1 \in 1..Len(s)
  BY LenFacts
<1> QED BY <1>1, <1>2 DEF Increasing

LEMMA IncreasingPrefix ==
  ASSUME NEW s \in Seq(Nat), NEW n \in 0..Len(s), Increasing(s)
  PROVE  Increasing(SubSeq(s, 1, n))
BY PrefixFacts, LenFacts DEF Increasing

LEMMA InSeqAppend ==
  ASSUME NEW s \in Seq(Nat), NEW e \in Nat
  PROVE  /\ InSeq(e, Append(s, e))
         /\ \A n : InSeq(n, s) => InSeq(n, Append(s, e))
<1>1. Len(s) + 1 \in 1..Len(Append(s, e)) /\ \A i \in 1..Len(s) : i \in 1..Len(Append(s, e))
  BY AppendFacts, LenFacts
<1> QED BY <1>1, AppendFacts DEF InSeq

-----------------------------------------------------------------------------
(* What the actions leave alone *)

numberVars == <<rows, published, open, offered, buffer, taken, severed, base, captured>>

\* The steps that move no sample.
Calm ==
  \/ Loop \/ WaitOver \/ NotReady
  \/ StartAccepted \/ StartConflict \/ StartRefused \/ StartTimesOut
  \/ OpenFails \/ Report \/ CloseWriter \/ StopSession \/ StopFails
  \/ HandleSignal \/ Restart \/ Flush
  \/ Reconnect \/ LeaveStream \/ LateStart \/ ServiceStarts \/ OtherClient
  \/ Unplug \/ BrokerChanges

\* The steps that leave the stream.
Leaving == EndOfStream \/ ReadTimesOut \/ DropLast \/ PublishFails \/ Kill

LEMMA CalmFacts ==
  ASSUME Calm
  PROVE  /\ UNCHANGED numberVars /\ left' \in {left, TRUE}
         /\ pc' \in {"got", "mqtt"} => pc' = pc
         /\ pc' = "report" => pc' = pc
         /\ mqttClient' => mqttClient
<1> USE DEF Loop, WaitOver, NotReady, StillWaiting, StartAccepted, StartConflict,
   StartRefused, StartTimesOut, OpenFails, Report, CloseWriter, StopSession, StopFails,
   HandleSignal, Restart, Flush, Reconnect, LeaveStream, LateStart, ServiceStarts, OtherClient,
   Unplug, BrokerChanges, writerVars, streamVars, serviceVars, agentVars, Goto, GotoOnly,
   Degrade, Update, At, Start, Exit, FlushBuffer
<1>1. UNCHANGED numberVars
  BY DEF Calm, numberVars
<1>2. left' \in {left, TRUE}
  BY DEF Calm
<1>3. /\ pc' \in {"got", "mqtt"} => pc' = pc
      /\ pc' = "report" => pc' = pc
      /\ mqttClient' => mqttClient
  BY DEF Calm
<1> QED BY ONLY <1>1, <1>2, <1>3

LEMMA LeavingFacts ==
  ASSUME Leaving
  PROVE  /\ UNCHANGED <<rows, saved, published, taken, base, captured, session, lateStart>>
         /\ ~open' /\ open' = FALSE /\ offered' = 0 /\ buffer' = <<>>
         /\ severed' = FALSE /\ left' = FALSE
         /\ pc' \in {"loop", "dead"}
         /\ mqttClient' => mqttClient
         /\ \/ health' = [state |-> "degraded", last |-> 0, own |-> TRUE]
            \/ health' = health /\ (pc \in {"read", "got"} \/ pc' = "dead")
BY DEF Leaving, At, EndOfStream, ReadTimesOut, DropLast, PublishFails, Kill, CloseStream,
   PublishRaises, writerVars, serviceVars, Goto, GotoOnly, Degrade, Update

\* A health file an earlier process has left is not this one's.
LEMMA RestartFacts ==
  ASSUME AgentOK, Restart
  PROVE  AgentOK' /\ ~OwnReport' /\ pc' = "boot" /\ UNCHANGED <<rows, published, mqttClient, taken>>
<1>1. CASE health = None
  BY <1>1 DEF Restart, AgentOK, OwnReport, Places, writerVars, streamVars
<1>2. CASE health # None
  <2> DEFINE old == [health EXCEPT !.own = FALSE]
  <2>1. old \in [state : {"waiting", "degraded", "streaming"}, last : Nat, own : BOOLEAN]
    BY <1>2 DEF AgentOK
  <2>2. old.own = FALSE
    BY <1>2 DEF AgentOK
  <2>3. health' \in {None, old}
    BY DEF Restart
  <2> HIDE DEF old
  <2>4. AgentOK'
    BY <2>1, <2>3 DEF Restart, AgentOK, Places
  <2>5. ~OwnReport'
    BY <2>2, <2>3 DEF OwnReport
  <2> QED BY <2>4, <2>5 DEF Restart, writerVars, streamVars
<1> QED BY <1>1, <1>2

LEMMA StepKinds ==
  ASSUME [Next]_vars
  PROVE  \/ Calm \/ Leaving \/ Begin \/ OpenStream \/ FromDict \/ WriteRow \/ Publish
         \/ Capture \/ ServiceDies \/ UNCHANGED vars
BY DEF Next, Agent, Service, Environment, Calm, Leaving

-----------------------------------------------------------------------------
(* Type correctness *)

LEMMA AgentInit == Init => IInv
<1> SUFFICES ASSUME Init PROVE IInv
  OBVIOUS
<1> USE AgentAssumption DEF Init, WriterInit, Stream!Init
<1>1. Len(<<>>) = 0 /\ <<>> \in Seq(Nat)
  BY EmptySeq
<1>2. TypeOK
  <2>1. WriterOK /\ StreamOK
    <3>1. mqttClient \in BOOLEAN /\ broker \in BOOLEAN /\ open \in BOOLEAN /\ severed \in BOOLEAN
         /\ left \in BOOLEAN
      OBVIOUS
    <3>2. rows \in Seq(Nat) /\ published \in Seq(Nat) /\ saved \in 0..Len(rows)
      BY <1>1
    <3>3. offered \in Nat /\ taken \in Nat /\ base \in Nat
      OBVIOUS
    <3>4. buffer \in Seq(Nat) /\ Len(buffer) <= QueueSize
      BY <1>1
    <3> QED BY ONLY <3>1, <3>2, <3>3, <3>4 DEF WriterOK, StreamOK
  <2>2. AgentOK
    BY DEF AgentOK, Places
  <2>3. ServiceOK
    BY DEF ServiceOK
  <2> QED BY <2>1, <2>2, <2>3 DEF TypeOK
<1>3. OrderInv /\ RowsInv /\ StoredInv /\ SavedInv
  BY <1>1 DEF OrderInv, RowsInv, StoredInv, SavedInv, Increasing, ReportedMeansWritten,
     OwnReport, At
<1>4. OnlyLastUnpublished /\ ExitStopsSession
  BY DEF OnlyLastUnpublished, ExitStopsSession, At
<1> QED BY <1>2, <1>3, <1>4 DEF IInv

LEMMA WriterTypeStep == TypeOK /\ [Next]_vars => WriterOK'
<1> SUFFICES ASSUME WriterOK, StreamOK, [Next]_vars PROVE WriterOK'
  BY DEF TypeOK
<1> USE DEF WriterOK
<1>1. CASE Begin
  <2>1. Len(<<>>) = 0 /\ <<>> \in Seq(Nat)
    BY EmptySeq
  <2> QED BY <1>1, <2>1 DEF Begin, Enter, ConnectMqtt
<1>2. CASE WriteRow
  <2>1. Append(rows, taken) \in Seq(Nat) /\ saved \in 0..Len(Append(rows, taken))
    BY AppendFacts, LenFacts DEF StreamOK
  <2> QED BY <1>2, <2>1 DEF WriteRow, OutputToCsv
<1>3. CASE Publish
  <2>1. Append(published, taken) \in Seq(Nat)
    BY AppendFacts DEF StreamOK
  <2> QED BY <1>3, <2>1 DEF Publish, OutputMqtt, SkipMqtt, writerVars
<1>4. CASE CloseWriter
  <2>1. Len(rows) \in 0..Len(rows)
    BY LenFacts
  <2> QED BY <1>4, <2>1 DEF CloseWriter, Exit
<1>5. CASE Flush
  <2>1. saved' \in 0..Len(rows)
    BY <1>5, LenFacts DEF Flush, FlushBuffer
  <2> QED BY <1>5, <2>1 DEF Flush, FlushBuffer
<1>6. CASE Kill \/ BrokerChanges
  BY <1>6 DEF Kill, BrokerChanges, writerVars
<1>7. CASE UNCHANGED <<writerVars, broker>>
  BY <1>7 DEF writerVars
<1>8. \/ Begin \/ WriteRow \/ Publish \/ CloseWriter \/ Flush \/ Kill \/ BrokerChanges
      \/ UNCHANGED <<writerVars, broker>>
  BY DEF Next, Agent, Service, Environment, vars, Loop, WaitOver, NotReady, StillWaiting,
       StartAccepted,
     StartConflict, StartRefused, StartTimesOut, OpenStream, OpenFails, FromDict,
     EndOfStream, ReadTimesOut, DropLast, PublishFails, PublishRaises, Report, StopSession,
     StopFails, HandleSignal, Restart, Capture, Reconnect, LeaveStream, LateStart, ServiceDies,
     ServiceStarts, OtherClient, Unplug
<1> QED BY <1>1, <1>2, <1>3, <1>4, <1>5, <1>6, <1>7, <1>8

LEMMA AgentTypeStep == TypeOK /\ [Next]_vars => AgentOK'
<1> SUFFICES ASSUME AgentOK, StreamOK, [Next]_vars PROVE AgentOK'
  BY DEF TypeOK
<1> USE DEF AgentOK, StreamOK, Places, Ended, Goto, GotoOnly, Update, Degrade, Configs
<1>1. CASE UNCHANGED agentVars
  BY <1>1 DEF agentVars
<1>2. CASE Restart
  BY <1>2, RestartFacts
<1>3. CASE HandleSignal
  BY <1>3 DEF HandleSignal
<1>4. ASSUME NEW place \in Places, GotoOnly(place)
      PROVE  AgentOK'
  BY <1>4
<1>5. ASSUME NEW place \in Places, Goto(place), NEW last \in Nat,
             NEW s \in {"waiting", "degraded", "streaming"}, Update(s, last)
      PROVE  AgentOK'
  BY <1>5
<1>6. \/ UNCHANGED agentVars \/ Restart \/ HandleSignal
      \/ \E place \in Places : GotoOnly(place)
      \/ \E place \in Places, last \in Nat, s \in {"waiting", "degraded", "streaming"} :
           Goto(place) /\ Update(s, last)
  <2>1. CASE \/ Begin \/ Loop \/ WaitOver \/ StartAccepted \/ StartConflict \/ OpenStream
             \/ FromDict \/ DropLast \/ WriteRow \/ Publish \/ CloseWriter \/ StopSession
             \/ StopFails \/ Kill
    BY <2>1, Zenon DEF Begin, Loop, WaitOver, StartAccepted, StartConflict, OpenStream, FromDict,
       DropLast, WriteRow, Publish, CloseWriter, StopSession, StopFails, Kill
  <2>2. CASE \/ NotReady \/ StartRefused \/ StartTimesOut \/ OpenFails \/ ReadTimesOut
             \/ PublishFails \/ Report
    BY <2>2 DEF NotReady, StillWaiting, StartRefused, StartTimesOut, OpenFails, ReadTimesOut,
       PublishFails, Report
  <2>3. CASE EndOfStream
    BY <2>3 DEF EndOfStream
  <2>4. CASE \/ Service \/ Flush \/ ServiceDies \/ ServiceStarts \/ OtherClient
             \/ Unplug \/ BrokerChanges \/ UNCHANGED vars
    BY <2>4 DEF Service, Capture, Reconnect, LeaveStream, LateStart, Flush, ServiceDies,
       ServiceStarts, OtherClient, Unplug, BrokerChanges, vars
  <2> QED BY <2>1, <2>2, <2>3, <2>4 DEF Next, Agent, Environment
<1> QED BY <1>1, <1>2, <1>3, <1>4, <1>5, <1>6

LEMMA StreamTypeStep == TypeOK /\ [Next]_vars => StreamOK'
<1> SUFFICES ASSUME WriterOK, StreamOK, ServiceOK, [Next]_vars PROVE StreamOK'
  BY DEF TypeOK
<1> USE AgentAssumption DEF StreamOK
<1>0. Len(<<>>) = 0 /\ <<>> \in Seq(Nat)
  BY EmptySeq
<1>1. CASE OpenStream
  <2>1. (open \in BOOLEAN /\ severed \in BOOLEAN /\ left \in BOOLEAN)'
    BY <1>1 DEF OpenStream
  <2>2. (offered \in Nat /\ taken \in Nat /\ base \in Nat)'
    BY <1>1 DEF OpenStream, Stream!Open, ServiceOK
  <2>3. buffer' = <<>>
    BY <1>1 DEF OpenStream, Stream!Open
  <2> QED BY <1>0, <2>1, <2>2, <2>3
<1>2. CASE FromDict
  <2>1. Head(buffer) \in Nat /\ Tail(buffer) \in Seq(Nat) /\ Len(Tail(buffer)) <= QueueSize
    BY <1>2, TailFacts, LenFacts DEF FromDict, Stream!Take
  <2> QED BY <1>2, <2>1 DEF FromDict, Stream!Take
<1>3. CASE Leaving
  BY <1>0, <1>3, LeavingFacts
<1>4. CASE Capture
  <2>1. CASE open /\ ~severed /\ ~left
    <3>1. Stream!Offer
      BY <1>4, <2>1 DEF Capture
    <3>2. /\ Append(buffer, offered + 1) \in Seq(Nat)
          /\ buffer # <<>> => Append(Tail(buffer), offered + 1) \in Seq(Nat)
      BY AppendFacts, TailFacts
    <3>3. (buffer \in Seq(Nat))'
      BY <3>1, <3>2 DEF Stream!Offer
    <3>4. (Len(buffer) <= QueueSize /\ offered \in Nat)'
      BY <3>1 DEF Stream!Offer
    <3>5. UNCHANGED <<open, taken, severed, left, base>>
      BY <1>4, <3>1 DEF Capture, Stream!Offer
    <3> QED BY <3>3, <3>4, <3>5
  <2> QED BY <1>4, <2>1 DEF Capture
<1>5. CASE ServiceDies
  <2> PICK n \in 0..Len(buffer) : buffer' = SubSeq(buffer, 1, n)
    BY <1>5 DEF ServiceDies
  <2>1. buffer' \in Seq(Nat) /\ Len(buffer') <= QueueSize
    BY PrefixFacts, LenFacts
  <2> QED BY <1>5, <2>1, Zenon DEF ServiceDies
<1>6. CASE Calm
  BY <1>6, CalmFacts DEF numberVars
<1>7. CASE Begin \/ WriteRow \/ Publish \/ UNCHANGED vars
  BY <1>7 DEF Begin, WriteRow, Publish, streamVars, vars
<1> QED BY <1>1, <1>2, <1>3, <1>4, <1>5, <1>6, <1>7, StepKinds

\* What the agent's steps do to the service.
LEMMA AgentOnService ==
  ASSUME Agent
  PROVE  \/ UNCHANGED serviceVars
         \/ Start /\ UNCHANGED lateStart
         \/ lateStart' = "pending" /\ UNCHANGED <<up, plugged, imu, session, captured>>
         \/ session' \in {session, None} /\ UNCHANGED <<up, plugged, imu, captured, lateStart>>
BY DEF Agent, serviceVars, Begin, Loop, WaitOver, NotReady, StillWaiting, StartAccepted,
   StartConflict, StartRefused, StartTimesOut, OpenStream, OpenFails, FromDict,
   EndOfStream, ReadTimesOut, DropLast, WriteRow, Publish, PublishFails, Report,
   CloseWriter, StopSession, StopFails

LEMMA FaultsStep == [Next]_vars => UNCHANGED faults \/ Fault
BY DEF Next, Agent, Service, Environment, vars, Begin, Loop, WaitOver, NotReady, StillWaiting,
       StartAccepted,
   StartConflict, StartRefused, StartTimesOut, OpenStream, OpenFails, FromDict,
   EndOfStream, ReadTimesOut, DropLast, WriteRow, Publish, PublishFails, Report,
   CloseWriter, StopSession, StopFails, HandleSignal, Kill, Restart, Flush, Capture,
   Reconnect, LeaveStream, LateStart, ServiceDies, ServiceStarts, OtherClient, Unplug, BrokerChanges

LEMMA ServiceTypeStep == TypeOK /\ [Next]_vars => ServiceOK'
<1> SUFFICES ASSUME ServiceOK, [Next]_vars PROVE ServiceOK'
  BY DEF TypeOK
<1>1. (faults \in 0..MaxFaults)'
  BY FaultsStep, AgentAssumption DEF ServiceOK, Fault
<1>2. CASE Agent
  <2>1. (up \in BOOLEAN /\ plugged \in BOOLEAN /\ imu \in BOOLEAN)'
    BY <1>2, AgentOnService DEF ServiceOK, serviceVars, Start
  <2>2. (captured \in Nat /\ session \in {None, Mine, Theirs})'
    BY <1>2, AgentOnService DEF ServiceOK, serviceVars, Start
  <2>3. (lateStart \in {"none", "pending", "served"})'
    BY <1>2, AgentOnService DEF ServiceOK, serviceVars, Start
  <2> QED BY <1>1, <2>1, <2>2, <2>3 DEF ServiceOK
<1>3. CASE Service
  <2>1. (up \in BOOLEAN /\ plugged \in BOOLEAN)'
    BY <1>3 DEF ServiceOK, Service, Capture, Reconnect, LeaveStream, LateStart, Start,
       serviceVars
  <2>2. (imu \in BOOLEAN)'
    BY <1>3 DEF ServiceOK, Service, Capture, Reconnect, LeaveStream, LateStart, Start,
       serviceVars
  <2>3. (captured \in Nat /\ session \in {None, Mine, Theirs})'
    BY <1>3 DEF ServiceOK, Service, Capture, Reconnect, LeaveStream, LateStart, Start,
       serviceVars
  <2>4. (lateStart \in {"none", "pending", "served"})'
    BY <1>3 DEF ServiceOK, Service, Capture, Reconnect, LeaveStream, LateStart,
       serviceVars
  <2> QED BY <1>1, <2>1, <2>2, <2>3, <2>4 DEF ServiceOK
<1>4. CASE ServiceDies \/ ServiceStarts \/ OtherClient \/ Unplug
  <2>1. (up \in BOOLEAN)'
    BY <1>4 DEF ServiceOK, ServiceDies, ServiceStarts, OtherClient, Unplug
  <2>2. (plugged \in BOOLEAN)'
    BY <1>4 DEF ServiceOK, ServiceDies, ServiceStarts, OtherClient, Unplug
  <2>3. (imu \in BOOLEAN)'
    BY <1>4 DEF ServiceOK, ServiceDies, ServiceStarts, OtherClient, Unplug
  <2>4. (captured \in Nat /\ session \in {None, Mine, Theirs})'
    BY <1>4 DEF ServiceOK, ServiceDies, ServiceStarts, OtherClient, Unplug
  <2>5. (lateStart \in {"none", "pending", "served"})'
    BY <1>4 DEF ServiceOK, ServiceDies, ServiceStarts, OtherClient, Unplug
  <2> QED BY <1>1, <2>1, <2>2, <2>3, <2>4, <2>5 DEF ServiceOK
<1>5. CASE HandleSignal \/ Kill \/ Restart \/ Flush \/ BrokerChanges \/ UNCHANGED vars
  <2>1. UNCHANGED serviceVars
    BY <1>5 DEF HandleSignal, Kill, Restart, Flush, BrokerChanges, vars
  <2> QED BY <1>1, <2>1 DEF ServiceOK, serviceVars
<1> QED BY <1>2, <1>3, <1>4, <1>5 DEF Next, Environment

LEMMA TypeStep == TypeOK /\ [Next]_vars => TypeOK'
BY WriterTypeStep, AgentTypeStep, StreamTypeStep, ServiceTypeStep DEF TypeOK

-----------------------------------------------------------------------------
(* The order of the samples *)

LEMMA OrderStep == TypeOK /\ TypeOK' /\ OrderInv /\ [Next]_vars => OrderInv'
<1> SUFFICES ASSUME StreamOK, ServiceOK, StreamOK', OrderInv, [Next]_vars PROVE OrderInv'
  BY DEF TypeOK
<1> USE DEF OrderInv, StreamOK, ServiceOK
<1>0. Len(<<>>) = 0
  BY EmptySeq
<1>1. CASE Calm \/ Begin \/ WriteRow \/ Publish \/ UNCHANGED vars
  <2>1. /\ UNCHANGED <<open, offered, buffer, taken, severed, base, captured>>
        /\ left' \in {left, TRUE}
    BY <1>1, CalmFacts DEF numberVars, Begin, WriteRow, Publish, streamVars, serviceVars, vars
  <2> QED BY <2>1
<1>2. CASE Leaving
  BY <1>0, <1>2, LeavingFacts DEF Increasing
<1>3. CASE OpenStream
  <2>1. /\ open' /\ offered' = captured /\ buffer' = <<>> /\ base' = captured
        /\ UNCHANGED <<taken, captured>>
    BY <1>3 DEF OpenStream, Stream!Open, serviceVars
  <2> QED BY <1>0, <2>1 DEF Increasing
<1>4. CASE FromDict
  <2>1. /\ open /\ buffer # <<>> /\ taken' = Head(buffer) /\ buffer' = Tail(buffer)
        /\ UNCHANGED <<open, offered, severed, left, base, captured>>
    BY <1>4 DEF FromDict, Stream!Take, serviceVars
  <2>2. \A i \in 1..Len(Tail(buffer)) : i + 1 \in 1..Len(buffer)
    BY <2>1, TailFacts, LenFacts
  <2>3. 1 \in 1..Len(buffer)
    BY <2>1, LenFacts
  <2> QED BY <2>1, <2>2, <2>3, TailFacts, IncreasingTail
<1>5. CASE Capture
  <2>1. /\ captured' = captured + 1
        /\ UNCHANGED <<open, taken, severed, left, base>>
    BY <1>5 DEF Capture, Stream!Offer
  <2>2. CASE open /\ ~severed /\ ~left
    <3>1. Stream!Offer /\ offered = captured
      BY <1>5, <2>2 DEF Capture
    <3>2. offered' = captured' /\ taken < offered' /\ offered' = offered + 1
      BY <2>1, <2>2, <3>1 DEF Stream!Offer
    <3>3. ASSUME NEW q \in Seq(Nat), Increasing(q), buffer' = Append(q, offered'),
                 \A i \in 1..Len(q) : taken < q[i] /\ q[i] <= offered
          PROVE  /\ Increasing(buffer')
                 /\ \A i \in 1..Len(buffer') : taken < buffer'[i] /\ buffer'[i] <= offered'
      <4>1. \A i \in 1..Len(q) : q[i] < offered'
        BY <3>2, <3>3, LenFacts
      <4>2. Increasing(buffer')
        BY <3>3, <4>1, IncreasingAppend
      <4>3. /\ Len(buffer') = Len(q) + 1 /\ buffer'[Len(q) + 1] = offered'
            /\ \A i \in 1..Len(q) : buffer'[i] = q[i]
        BY <3>3, AppendFacts
      <4> QED BY <3>2, <3>3, <4>1, <4>2, <4>3, LenFacts
    <3>4. CASE buffer' = Append(buffer, offered')
      BY <2>1, <2>2, <3>2, <3>3, <3>4
    <3>5. CASE buffer # <<>> /\ buffer' = Append(Tail(buffer), offered')
      <4>1. /\ Tail(buffer) \in Seq(Nat) /\ Increasing(Tail(buffer))
            /\ \A i \in 1..Len(Tail(buffer)) : Tail(buffer)[i] = buffer[i + 1]
                                               /\ i + 1 \in 1..Len(buffer)
        BY <3>5, TailFacts, IncreasingTail, LenFacts
      <4>2. \A i \in 1..Len(Tail(buffer)) : taken < Tail(buffer)[i] /\ Tail(buffer)[i] <= offered
        BY <4>1
      <4>3. /\ Increasing(buffer')
            /\ \A i \in 1..Len(buffer') : taken < buffer'[i] /\ buffer'[i] <= offered'
        BY ONLY <3>3, <3>5, <4>1, <4>2
      <4> QED BY <2>1, <2>2, <3>2, <4>3
    <3> QED BY <3>1, <3>4, <3>5 DEF Stream!Offer
  <2>3. CASE ~(open /\ ~severed /\ ~left)
    <3>1. UNCHANGED <<offered, buffer>>
      BY <1>5, <2>3 DEF Capture
    <3> QED BY <2>1, <2>3, <3>1
  <2> QED BY <2>2, <2>3
<1>6. CASE ServiceDies
  <2>1. /\ severed' = open
        /\ UNCHANGED <<captured, open, offered, taken, base>>
    BY <1>6 DEF ServiceDies
  <2> PICK n \in 0..Len(buffer) : buffer' = SubSeq(buffer, 1, n)
    BY <1>6 DEF ServiceDies
  <2>2. /\ Len(buffer') = n /\ Increasing(buffer')
        /\ \A i \in 1..n : buffer'[i] = buffer[i] /\ i \in 1..Len(buffer)
    BY PrefixFacts, IncreasingPrefix, LenFacts
  <2>3. ~open => buffer' = <<>>
    BY <1>0, <2>2, LenFacts
  <2> QED BY <2>1, <2>2, <2>3
<1> QED BY <1>1, <1>2, <1>3, <1>4, <1>5, <1>6, StepKinds

LEMMA RowsStep == TypeOK /\ OrderInv /\ RowsInv /\ [Next]_vars => RowsInv'
<1> SUFFICES ASSUME WriterOK, StreamOK, OrderInv, RowsInv, [Next]_vars PROVE RowsInv'
  BY DEF TypeOK
<1> USE DEF RowsInv, StreamOK, WriterOK, At
<1>0. Len(<<>>) = 0
  BY EmptySeq
<1>1. CASE Calm
  BY <1>1, CalmFacts DEF numberVars
<1>2. CASE Leaving
  BY <1>2, LeavingFacts
<1>3. CASE Begin
  BY <1>0, <1>3 DEF Begin, Enter, Increasing
<1>4. CASE OpenStream
  <2>1. UNCHANGED <<rows, taken>> /\ pc' = "read"
    BY <1>4 DEF OpenStream, Stream!Open, writerVars, GotoOnly, Goto
  <2> QED BY <2>1
<1>5. CASE FromDict
  <2>1. buffer # <<>> /\ taken' = Head(buffer) /\ UNCHANGED rows
    BY <1>5 DEF FromDict, Stream!Take, writerVars
  <2>2. Head(buffer) = buffer[1] /\ 1 \in 1..Len(buffer)
    BY <2>1, TailFacts, LenFacts
  <2>3. taken < taken'
    BY <2>1, <2>2 DEF OrderInv
  <2>4. taken' \in Nat
    BY <2>1, TailFacts
  <2> QED BY <2>1, <2>3, <2>4, LenFacts
<1>6. CASE WriteRow
  <2>1. /\ At("got") /\ rows' = Append(rows, taken) /\ pc' = "mqtt"
        /\ UNCHANGED taken
    BY <1>6 DEF WriteRow, OutputToCsv, streamVars, GotoOnly, Goto
  <2>2. Increasing(rows')
    BY <2>1, IncreasingAppend
  <2>3. /\ Len(rows') = Len(rows) + 1 /\ rows'[Len(rows) + 1] = taken
        /\ \A i \in 1..Len(rows) : rows'[i] = rows[i]
    BY <2>1, AppendFacts
  <2> QED BY <2>1, <2>2, <2>3, LenFacts
<1>7. CASE Publish
  BY <1>7 DEF Publish, OutputMqtt, SkipMqtt, writerVars, streamVars, GotoOnly, Goto
<1>8. CASE Capture
  BY <1>8 DEF Capture, Stream!Offer, writerVars, agentVars
<1>9. CASE ServiceDies
  BY <1>9 DEF ServiceDies, writerVars, agentVars
<1>10. CASE UNCHANGED vars
  BY <1>10 DEF vars, writerVars, streamVars, agentVars
<1> QED
  BY <1>1, <1>2, <1>3, <1>4, <1>5, <1>6, <1>7, <1>8, <1>9, <1>10, StepKinds

-----------------------------------------------------------------------------
(* The two outputs and the health file *)

LEMMA StoredStep == TypeOK /\ StoredInv /\ [Next]_vars => StoredInv'
<1> SUFFICES ASSUME WriterOK, AgentOK, StreamOK, StoredInv, [Next]_vars PROVE StoredInv'
  BY DEF TypeOK
<1> USE DEF StoredInv, ReportedMeansWritten, OwnReport, At
<1>0. Len(rows) \in Nat
  BY LenFacts DEF WriterOK
<1>1. CASE Report
  <2>1. /\ pc = "report" /\ pc' = "read"
        /\ health' = [state |-> "streaming", last |-> taken, own |-> TRUE]
        /\ UNCHANGED <<rows, published, mqttClient, taken>>
    BY <1>1 DEF Report, At, Update, Goto, writerVars, streamVars
  <2>2. Len(rows) \in 1..Len(rows) /\ rows[Len(rows)] = taken
    BY <2>1, LenFacts DEF WriterOK
  <2> QED BY <2>1, <2>2 DEF InSeq
<1>2. CASE Restart
  BY <1>2, RestartFacts
<1>3. CASE Calm /\ ~Report /\ ~Restart
  <2>1. /\ UNCHANGED <<rows, published, taken>>
        /\ pc' \in {"mqtt", "report"} => pc' = pc
        /\ mqttClient' => mqttClient
    BY <1>3, CalmFacts DEF numberVars
  <2>2. \/ /\ health' = health
           /\ pc' = "boot" => pc = "boot"
           /\ pc \in {"mqtt", "report", "dead"} => pc' = pc
        \/ pc' # "boot" /\ health'.state # "streaming"
    <3>1. CASE \/ Loop \/ WaitOver \/ StartAccepted \/ StartConflict \/ CloseWriter
               \/ StopSession \/ StopFails
      BY <3>1 DEF Loop, WaitOver, StartAccepted, StartConflict, CloseWriter, StopSession,
         StopFails, Goto, GotoOnly
    <3>2. CASE NotReady \/ StartRefused \/ StartTimesOut \/ OpenFails
      <4>1. pc' # "boot" /\ \E s \in {"waiting", "degraded"} : Update(s, 0)
        BY <3>2 DEF NotReady, StillWaiting, StartRefused, StartTimesOut, OpenFails, Goto, Degrade
      <4>2. health'.state # "streaming"
        BY <4>1 DEF Update
      <4> QED BY <4>1, <4>2
    <3>3. CASE \/ HandleSignal \/ Flush \/ Reconnect \/ LeaveStream \/ LateStart
               \/ ServiceStarts \/ OtherClient \/ Unplug \/ BrokerChanges
      <4>1. UNCHANGED <<pc, health>>
        BY <3>3 DEF HandleSignal, Flush, Reconnect, LeaveStream, LateStart, ServiceStarts,
           OtherClient, Unplug, BrokerChanges, agentVars
      <4> QED BY <4>1
    <3> QED BY <1>3, <3>1, <3>2, <3>3 DEF Calm
  <2>3. CASE health' = health /\ (pc' = "boot" => pc = "boot")
             /\ (pc \in {"mqtt", "report", "dead"} => pc' = pc)
    BY <2>1, <2>3 DEF InSeq
  <2>4. CASE pc' # "boot" /\ health'.state # "streaming"
    BY <2>1, <2>4 DEF InSeq
  <2> QED BY <2>2, <2>3, <2>4
<1>4. CASE Leaving
  <2>1. /\ UNCHANGED <<rows, published, taken>> /\ pc' \in {"loop", "dead"}
        /\ mqttClient' => mqttClient
        /\ \/ health' = [state |-> "degraded", last |-> 0, own |-> TRUE]
           \/ health' = health /\ (pc \in {"read", "got"} \/ pc' = "dead")
    BY <1>4, LeavingFacts
  <2> QED BY <2>1 DEF InSeq
<1>5. CASE Begin
  BY <1>5 DEF Begin, GotoOnly, Goto
<1>6. CASE OpenStream \/ FromDict
  <2>1. /\ UNCHANGED <<rows, published, mqttClient, health>>
        /\ pc \in {"open", "read"} /\ pc' \in {"read", "got"}
    BY <1>6 DEF OpenStream, FromDict, writerVars, GotoOnly, Goto
  <2> QED BY <2>1 DEF InSeq
<1>7. CASE WriteRow
  <2>1. /\ rows' = Append(rows, taken) /\ pc' = "mqtt" /\ pc = "got"
        /\ UNCHANGED <<taken, published, mqttClient, health>>
    BY <1>7 DEF WriteRow, OutputToCsv, streamVars, GotoOnly, Goto, At
  <2>2. /\ rows' # <<>> /\ Len(rows') = Len(rows) + 1 /\ rows'[Len(rows')] = taken
        /\ \A i \in 1..Len(rows) : rows'[i] = rows[i]
    <3>1. rows \in Seq(Nat) /\ taken \in Nat
      BY DEF WriterOK, StreamOK
    <3> QED BY ONLY <2>1, <3>1, AppendFacts
  <2>3. \A i \in 1..Len(rows) : i \in 1..Len(rows')
    BY <1>0, <2>2
  <2>4. OwnReport' => \E i \in 1..Len(rows') : rows'[i] = health'.last /\ i = Len(rows') - 1
    <3> SUFFICES ASSUME OwnReport'
                 PROVE  \E i \in 1..Len(rows') : rows'[i] = health'.last /\ i = Len(rows') - 1
      OBVIOUS
    <3>1. PICK i \in 1..Len(rows) : rows[i] = health.last /\ i = Len(rows)
      BY <2>1
    <3> QED BY <1>0, <2>1, <2>2, <2>3, <3>1
  <2> QED BY <2>1, <2>2, <2>4 DEF InSeq
<1>8. CASE Publish
  <2>1. /\ pc = "mqtt" /\ pc' = "report" /\ UNCHANGED <<rows, taken, mqttClient, health>>
        /\ \/ mqttClient /\ published' = Append(published, taken)
           \/ ~mqttClient /\ published' = published
    BY <1>8 DEF Publish, OutputMqtt, SkipMqtt, writerVars, streamVars, GotoOnly, Goto, At
  <2>2. /\ InSeq(taken, Append(published, taken))
        /\ \A n : InSeq(n, published) => InSeq(n, Append(published, taken))
    BY InSeqAppend DEF WriterOK, StreamOK
  <2>3. mqttClient' => InSeq(taken', published')
    BY <2>1, <2>2
  <2>4. \A n : InSeq(n, published) => InSeq(n, published')
    BY <2>1, <2>2
  <2> QED BY <2>1, <2>3, <2>4
<1>9. CASE Capture \/ ServiceDies \/ UNCHANGED vars
  <2>1. UNCHANGED <<rows, published, mqttClient, pc, health, taken>>
    BY <1>9 DEF Capture, Stream!Offer, ServiceDies, vars, writerVars, agentVars, streamVars
  <2> QED BY <2>1 DEF InSeq
<1> QED BY <1>1, <1>2, <1>3, <1>4, <1>5, <1>6, <1>7, <1>8, <1>9, StepKinds

LEMMA PublishedStep ==
  TypeOK /\ OrderInv /\ RowsInv /\ StoredInv /\ OnlyLastUnpublished /\ [Next]_vars
    => OnlyLastUnpublished'
<1> SUFFICES ASSUME WriterOK, StreamOK, ServiceOK, OrderInv, RowsInv, StoredInv,
                    OnlyLastUnpublished, [Next]_vars, mqttClient', open',
                    NEW i \in 1..Len(rows'), rows'[i] > base', ~InSeq(rows'[i], published')
             PROVE  pc' = "mqtt" /\ i = Len(rows')
  BY DEF OnlyLastUnpublished, TypeOK, At
<1> USE DEF OnlyLastUnpublished, At
<1>1. CASE Calm
  <2>1. UNCHANGED <<rows, published, base, open>> /\ (mqttClient' => mqttClient)
    BY <1>1, CalmFacts DEF numberVars
  <2>2. pc = "mqtt" /\ i = Len(rows)
    BY <2>1
  <2>3. pc' = "mqtt"
    BY <1>1, <2>2
       DEF Calm, Loop, WaitOver, NotReady, StillWaiting, StartAccepted, StartConflict,
       StartRefused, StartTimesOut, OpenFails, Report, CloseWriter, StopSession, StopFails,
       HandleSignal, Restart, Flush, Reconnect, LeaveStream, LateStart, ServiceStarts, OtherClient,
   Unplug,
   BrokerChanges, agentVars, Ended
  <2> QED BY <2>1, <2>2, <2>3
<1>2. CASE Leaving
  BY <1>2, LeavingFacts
<1>3. CASE Begin
  <2>1. rows' = <<>>
    BY <1>3 DEF Begin, Enter
  <2> QED BY <2>1, EmptySeq
<1>4. CASE OpenStream
  <2>1. base' = captured /\ UNCHANGED rows
    BY <1>4 DEF OpenStream, writerVars
  <2>2. rows[i] <= taken /\ rows[i] \in Nat
    BY <2>1, LenFacts DEF RowsInv, WriterOK
  <2>3. captured \in Nat /\ taken <= captured
    BY DEF OrderInv, ServiceOK
  <2> QED BY <2>1, <2>2, <2>3 DEF StreamOK
<1>5. CASE FromDict
  <2>1. pc = "read" /\ UNCHANGED <<rows, published, base, open, mqttClient>>
    BY <1>5 DEF FromDict, Stream!Take, writerVars
  <2> QED BY <2>1
<1>6. CASE WriteRow
  <2>1. /\ rows' = Append(rows, taken) /\ pc' = "mqtt" /\ pc = "got"
        /\ UNCHANGED <<published, mqttClient, open, base>>
    BY <1>6 DEF WriteRow, OutputToCsv, streamVars, GotoOnly, Goto
  <2>2. Len(rows') = Len(rows) + 1 /\ \A k \in 1..Len(rows) : rows'[k] = rows[k]
    BY <2>1, AppendFacts DEF WriterOK, StreamOK
  <2>3. i \notin 1..Len(rows)
    BY <2>1, <2>2
  <2> QED BY <2>1, <2>2, <2>3, LenFacts DEF WriterOK
<1>7. CASE Publish
  <2>1. /\ mqttClient /\ published' = Append(published, taken)
        /\ UNCHANGED <<rows, mqttClient, open, base>> /\ pc = "mqtt"
    BY <1>7 DEF Publish, OutputMqtt, SkipMqtt, writerVars, streamVars
  <2>2. /\ \A n : InSeq(n, published) => InSeq(n, published')
        /\ InSeq(taken, published')
    BY <2>1, InSeqAppend DEF WriterOK, StreamOK
  <2>3. i = Len(rows)
    BY <2>1, <2>2
  <2> QED BY <2>1, <2>2, <2>3 DEF StoredInv
<1>8. CASE Capture \/ ServiceDies \/ UNCHANGED vars
  <2>1. UNCHANGED <<rows, published, mqttClient, pc, open, base>>
    BY <1>8 DEF Capture, Stream!Offer, ServiceDies, vars, writerVars, agentVars, streamVars
  <2> QED BY <2>1
<1> QED BY <1>1, <1>2, <1>3, <1>4, <1>5, <1>6, <1>7, <1>8, StepKinds

-----------------------------------------------------------------------------
(* The end *)

LEMMA SavedStep == SavedInv /\ [Next]_vars => SavedInv'
<1> SUFFICES ASSUME SavedInv, [Next]_vars PROVE SavedInv'
  OBVIOUS
<1> USE DEF SavedInv
<1>1. CASE CloseWriter
  BY <1>1 DEF CloseWriter, Exit
<1>2. CASE StopSession \/ StopFails
  BY <1>2 DEF StopSession, StopFails, GotoOnly, Goto, writerVars, At
<1>3. CASE Flush
  BY <1>3 DEF Flush, FlushBuffer, Ended, agentVars
<1>4. CASE Service \/ (Environment /\ ~Flush) \/ UNCHANGED vars
  <2>1. UNCHANGED <<rows, saved>> /\ (pc' = pc \/ pc' \in {"dead", "boot"})
    BY <1>4 DEF Service, Capture, Reconnect, LeaveStream, LateStart, Environment, HandleSignal,
       Kill, Restart, ServiceDies, ServiceStarts, OtherClient, Unplug, BrokerChanges, vars,
       writerVars, agentVars, GotoOnly, Goto
  <2> QED BY <2>1
<1>5. CASE Agent /\ ~CloseWriter /\ ~StopSession /\ ~StopFails
  <2>1. pc' \notin {"stop", "done", "failed"}
    BY <1>5, Zenon DEF Agent, Begin, Loop, WaitOver, NotReady, StillWaiting,
       StartAccepted, StartConflict,
       StartRefused, StartTimesOut, OpenStream, OpenFails, FromDict, EndOfStream,
       ReadTimesOut, DropLast, WriteRow, Publish, PublishFails, Report, GotoOnly, Goto,
       Degrade
  <2> QED BY <2>1
<1> QED BY <1>1, <1>2, <1>3, <1>4, <1>5 DEF Next

LEMMA ExitStep == ExitStopsSession /\ [Next]_vars => ExitStopsSession'
<1> SUFFICES ASSUME ExitStopsSession, [Next]_vars, pc' = "done", config'.stop,
                    lateStart' = "none"
             PROVE  session' # Mine
  BY DEF ExitStopsSession, At
<1> USE AgentAssumption DEF ExitStopsSession, At
<1>1. CASE StopSession
  BY <1>1 DEF StopSession
<1>2. CASE CloseWriter
  BY <1>2 DEF CloseWriter, GotoOnly, Goto
<1>3. CASE Agent /\ ~StopSession /\ ~CloseWriter
  <2>1. pc' # "done"
    BY <1>3, Zenon DEF Agent, Begin, Loop, WaitOver, NotReady, StillWaiting,
       StartAccepted, StartConflict,
       StartRefused, StartTimesOut, OpenStream, OpenFails, FromDict, EndOfStream,
       ReadTimesOut, DropLast, WriteRow, Publish, PublishFails, Report, StopFails, GotoOnly,
       Goto, Degrade
  <2> QED BY <2>1
<1>4. CASE Service
  <2>1. UNCHANGED <<pc, config, session, lateStart>>
    BY <1>4 DEF Service, Capture, Reconnect, LeaveStream, LateStart, agentVars,
       serviceVars
  <2> QED BY <2>1
<1>5. CASE Environment \/ UNCHANGED vars
  <2>1. /\ UNCHANGED <<pc, config>>
        /\ \/ UNCHANGED <<session, lateStart>>
           \/ session' \in {Theirs, None} /\ UNCHANGED lateStart
           \/ session' = None
    BY <1>5 DEF Environment, HandleSignal, Kill, Restart, Flush, ServiceDies, ServiceStarts,
       OtherClient, Unplug, BrokerChanges, vars, agentVars, serviceVars, GotoOnly, Goto
  <2> QED BY <2>1
<1> QED BY <1>1, <1>2, <1>3, <1>4, <1>5 DEF Next

-----------------------------------------------------------------------------
LEMMA IInvStep == IInv /\ [Next]_vars => IInv'
<1> SUFFICES ASSUME IInv, [Next]_vars PROVE IInv'
  OBVIOUS
<1> USE DEF IInv
<1>1. TypeOK'
  BY TypeStep
<1>2. OrderInv' /\ RowsInv'
  BY <1>1, OrderStep, RowsStep
<1>3. StoredInv' /\ OnlyLastUnpublished'
  BY StoredStep, PublishedStep
<1>4. SavedInv' /\ ExitStopsSession'
  BY SavedStep, ExitStep
<1> QED BY <1>1, <1>2, <1>3, <1>4

LEMMA AgentInvariant == Spec => []IInv
BY AgentInit, IInvStep, PTL DEF Spec

\* Type correctness, for any queue and any number of samples and faults.
THEOREM AgentTypeCorrect == Spec => []TypeOK
<1>1. IInv => TypeOK
  BY DEF IInv
<1> QED BY <1>1, AgentInvariant, PTL

\* The file is in the order of capture and has no sample twice, however often the
\* stream, the session or the service was lost.
THEOREM RowsAreInOrder == Spec => []RowsInOrder
<1>1. IInv => RowsInOrder
  BY DEF IInv, RowsInv, Increasing, RowsInOrder
<1> QED BY <1>1, AgentInvariant, PTL

\* What a process reports in the health file is a row it has given to its CSV file, the
\* newest or the one before the row in hand, and has published.  Nothing is said of a
\* report that an earlier process has left.
THEOREM ReportedIsWritten == Spec => []ReportedMeansWritten
<1>1. IInv => ReportedMeansWritten
  BY DEF IInv, StoredInv
<1> QED BY <1>1, AgentInvariant, PTL

\* Of an open stream one row at most is not published.
THEOREM OneUnpublished == Spec => []OnlyLastUnpublished
<1>1. IInv => OnlyLastUnpublished
  BY DEF IInv
<1> QED BY <1>1, AgentInvariant, PTL

\* An agent that has ended by itself has all its rows on disk.
THEOREM EndedIsSaved == Spec => []EndedMeansSaved
<1>1. IInv => EndedMeansSaved
  BY DEF IInv, SavedInv, EndedMeansSaved
<1> QED BY <1>1, AgentInvariant, PTL

\* An agent that stops its session on exit leaves none of its own.
THEOREM ExitIsClean == Spec => []ExitStopsSession
<1>1. IInv => ExitStopsSession
  BY DEF IInv
<1> QED BY <1>1, AgentInvariant, PTL
=============================================================================
