-------------------------- MODULE EdgeHealth_proofs --------------------------
(***************************************************************************)
(* How old the health file gets, for any delay and any limits, and what    *)
(* the health check makes of it, for any IMU_EDGE_STALE_AFTER_S.           *)
(***************************************************************************)
EXTENDS EdgeHealth, TLAPS

\* How old the file may be when the agent enters a phase on its ordinary way.
Entry(p) ==
  IF p = "ready" THEN Delay
  ELSE IF p = "start" THEN Delay + RequestLimit
  ELSE IF p = "open" THEN Delay + 2 * RequestLimit
  ELSE IF p = "read" THEN Delay + 3 * RequestLimit
  ELSE 0

\* The stream has ended and the readiness request is about to be refused: no time can
\* pass before it is.
Refused == phase = "ready" /\ ~up /\ busy = 0

AgeInv ==
  /\ phase \in Blocked /\ ~Refused => age <= Entry(phase) + busy
  /\ phase \in Blocked => age <= LongestSilence
  /\ phase = "fill" => age = 0

StreamingInv ==
  /\ phase = "fill" => file = "empty"
  /\ Alive /\ file = "streaming" =>
       \/ phase = "read" /\ age <= busy
       \/ Refused /\ age <= ReadLimit

SilenceInv ==
  /\ silence <= age
  /\ Alive => silence = 0

HInv ==
  /\ TypeOK /\ AgeInv /\ StreamingInv /\ SilenceInv
  /\ DeadIsNoticed /\ StaleMeansDead

-----------------------------------------------------------------------------
LEMMA LimitFacts ==
  /\ Limit["sleep"] = Delay /\ Limit["read"] = ReadLimit
  /\ \A p \in Requests : Limit[p] = RequestLimit
BY DEF Limit, Blocked, Requests

LEMMA LaterFacts ==
  ASSUME NEW t \in 0..MaxAge
  PROVE  Later(t) \in 0..MaxAge /\ Later(t) <= t + 1 /\ t <= Later(t)
BY HealthAssumption DEF Later

LEMMA InitH == Init => HInv
<1> SUFFICES ASSUME Init PROVE HInv
  OBVIOUS
<1> USE HealthAssumption DEF Init, Blocked, Requests
<1>1. TypeOK
  BY LimitFacts DEF TypeOK, States
<1>2. AgeInv
  BY DEF AgeInv, Entry, LongestSilence
<1>3. StreamingInv /\ SilenceInv
  BY DEF StreamingInv, SilenceInv
<1>4. DeadIsNoticed /\ StaleMeansDead
  BY DEF DeadIsNoticed, StaleMeansDead
<1> QED BY <1>1, <1>2, <1>3, <1>4 DEF HInv

\* An update begins: the file is empty and the time is new.
LEMMA StampStep ==
  ASSUME HInv, NEW s \in States, Stamp(s), Alive
  PROVE  HInv'
<1> USE HealthAssumption DEF Stamp, Goto, HInv, Alive, Blocked, Requests
<1>1. TypeOK'
  BY DEF TypeOK, States
<1>2. AgeInv' /\ StreamingInv' /\ SilenceInv'
  BY DEF AgeInv, StreamingInv, SilenceInv, TypeOK, States, Refused
<1>3. DeadIsNoticed' /\ StaleMeansDead'
  BY DEF DeadIsNoticed, StaleMeansDead, SilenceInv, TypeOK
<1> QED BY <1>1, <1>2, <1>3

LEMMA FillStep == ASSUME HInv, Fill PROVE HInv'
<1> USE HealthAssumption DEF Fill, Goto, HInv, Alive, Blocked, Requests
<1>1. TypeOK'
  BY LimitFacts DEF TypeOK, States
<1>2. AgeInv' /\ StreamingInv' /\ SilenceInv'
  BY DEF AgeInv, StreamingInv, SilenceInv, TypeOK, States, Refused, Entry, LongestSilence
<1>3. DeadIsNoticed' /\ StaleMeansDead'
  BY DEF DeadIsNoticed, StaleMeansDead, SilenceInv, TypeOK
<1> QED BY <1>1, <1>2, <1>3

\* The steps that change the phase alone.
LEMMA MoveStep ==
  ASSUME HInv, WakeUp \/ Answered \/ EndOfStream
  PROVE  HInv'
<1> USE HealthAssumption DEF Goto, HInv, Alive, Blocked, Requests
<1>1. CASE WakeUp
  <2>1. TypeOK'
    BY <1>1, LimitFacts DEF WakeUp, TypeOK
  <2>2. AgeInv' /\ StreamingInv' /\ SilenceInv'
    BY <1>1 DEF WakeUp, AgeInv, StreamingInv, SilenceInv, TypeOK, Refused, Entry,
       LongestSilence
  <2>3. DeadIsNoticed' /\ StaleMeansDead'
    BY <1>1 DEF WakeUp, DeadIsNoticed, StaleMeansDead
  <2> QED BY <2>1, <2>2, <2>3
<1>2. CASE Answered
  <2> PICK p \in Follows[phase] : Goto(p)
    BY <1>2 DEF Answered
  <2>1. \/ phase = "ready" /\ p \in {"start", "open"}
        \/ phase = "start" /\ p = "open"
        \/ phase = "open" /\ p = "read"
    BY <1>2 DEF Answered, Follows
  <2>2. /\ up /\ busy \in Nat /\ busy <= RequestLimit
        /\ phase' = p /\ busy' = 0
        /\ UNCHANGED <<state, file, age, silence, up, verdict>>
    BY <1>2, <2>1, LimitFacts DEF Answered, TypeOK
  <2>3. TypeOK'
    BY <2>1, <2>2, LimitFacts DEF TypeOK
  <2>4. AgeInv'
    BY <2>1, <2>2 DEF AgeInv, TypeOK, Refused, Entry, LongestSilence
  <2>5. StreamingInv' /\ SilenceInv'
    BY <2>1, <2>2 DEF StreamingInv, SilenceInv, TypeOK, Refused
  <2>6. DeadIsNoticed' /\ StaleMeansDead'
    BY <2>1, <2>2 DEF DeadIsNoticed, StaleMeansDead
  <2> QED BY <2>3, <2>4, <2>5, <2>6
<1>3. CASE EndOfStream
  <2>1. TypeOK'
    BY <1>3, LimitFacts DEF EndOfStream, TypeOK
  <2>2. AgeInv'
    BY <1>3 DEF EndOfStream, AgeInv, TypeOK, Refused
  <2>3. StreamingInv' /\ SilenceInv'
    BY <1>3, LimitFacts DEF EndOfStream, StreamingInv, SilenceInv, TypeOK, Refused
  <2>4. DeadIsNoticed' /\ StaleMeansDead'
    BY <1>3 DEF EndOfStream, DeadIsNoticed, StaleMeansDead
  <2> QED BY <2>1, <2>2, <2>3, <2>4
<1> QED BY <1>1, <1>2, <1>3

LEMMA TickStep == ASSUME HInv, Tick PROVE HInv'
<1> USE HealthAssumption DEF Tick, MayWait, HInv, Alive, Blocked, Requests
<1>1. /\ age' \in 0..MaxAge /\ age' <= age + 1 /\ age <= age'
      /\ silence' \in 0..MaxAge
    BY LaterFacts DEF TypeOK
<1>2. TypeOK'
  BY <1>1, LimitFacts DEF TypeOK
<1>3. AgeInv'
  BY <1>1 DEF AgeInv, TypeOK, Refused, Entry, LongestSilence
<1>4. StreamingInv'
  BY <1>1 DEF StreamingInv, TypeOK, Refused
<1>5. SilenceInv'
  BY <1>1 DEF SilenceInv, TypeOK, Later
<1>6. DeadIsNoticed' /\ StaleMeansDead'
  BY DEF DeadIsNoticed, StaleMeansDead
<1> QED BY <1>2, <1>3, <1>4, <1>5, <1>6

LEMMA OtherStep ==
  ASSUME HInv, Dies \/ ServiceChanges \/ Healthcheck \/ UNCHANGED vars
  PROVE  HInv'
<1> USE HealthAssumption DEF HInv, Alive, Blocked, Requests
<1>1. CASE Dies
  BY <1>1 DEF Dies, Goto, TypeOK, AgeInv, StreamingInv, SilenceInv, DeadIsNoticed,
     StaleMeansDead, Refused
<1>2. CASE ServiceChanges
  BY <1>2 DEF ServiceChanges, TypeOK, AgeInv, StreamingInv, SilenceInv, DeadIsNoticed,
     StaleMeansDead, Refused
<1>3. CASE Healthcheck
  <2>1. TypeOK'
    BY <1>3 DEF Healthcheck, Judge, TypeOK
  <2>2. AgeInv' /\ StreamingInv' /\ SilenceInv'
    BY <1>3 DEF Healthcheck, AgeInv, StreamingInv, SilenceInv, Refused, Entry
  <2>3. DeadIsNoticed'
    BY <1>3 DEF Healthcheck, Judge, DeadIsNoticed, SilenceInv, TypeOK
  <2>4. StaleMeansDead'
    BY <1>3 DEF Healthcheck, Judge, StaleMeansDead, AgeInv, TypeOK, LongestSilence
  <2> QED BY <2>1, <2>2, <2>3, <2>4
<1>4. CASE UNCHANGED vars
  BY <1>4 DEF vars, TypeOK, AgeInv, StreamingInv, SilenceInv, DeadIsNoticed,
     StaleMeansDead, Refused, Entry
<1> QED BY <1>1, <1>2, <1>3, <1>4

LEMMA StepH == HInv /\ [Next]_vars => HInv'
<1> SUFFICES ASSUME HInv, [Next]_vars PROVE HInv'
  OBVIOUS
<1>1. CASE Fill
  BY <1>1, FillStep
<1>2. CASE WakeUp \/ Answered \/ EndOfStream
  BY <1>2, MoveStep
<1>3. CASE RequestFails
  BY <1>3, StampStep DEF RequestFails, States, Alive, Requests
<1>4. CASE ReadSample
  BY <1>4, StampStep DEF ReadSample, States, Alive
<1>5. CASE ReadTimesOut
  BY <1>5, StampStep DEF ReadTimesOut, States, Alive
<1>6. CASE Tick
  BY <1>6, TickStep
<1>7. CASE Dies \/ ServiceChanges \/ Healthcheck \/ UNCHANGED vars
  BY <1>7, OtherStep
<1> QED BY <1>1, <1>2, <1>3, <1>4, <1>5, <1>6, <1>7 DEF Next, Agent

LEMMA InvariantH == Spec => []HInv
BY InitH, StepH, PTL DEF Spec

-----------------------------------------------------------------------------
\* Every variable of EdgeHealth keeps its type, whatever the limits.
THEOREM HealthTypeCorrect == Spec => []TypeOK
<1>1. HInv => TypeOK
  BY DEF HInv
<1> QED BY <1>1, InvariantH, PTL

\* The file of a running agent is never older than LongestSilence.
THEOREM AgeIsBounded == Spec => []AgeBounded
<1>1. HInv => AgeBounded
  BY HealthAssumption DEF HInv, AgeBounded, AgeInv, TypeOK, Alive, LongestSilence
<1> QED BY <1>1, InvariantH, PTL

\* A file that says "streaming" is never older than one read of the stream.
THEOREM StreamingStaysCurrent == Spec => []StreamingIsCurrent
<1>1. HInv => StreamingIsCurrent
  BY HealthAssumption, LimitFacts
     DEF HInv, StreamingIsCurrent, StreamingInv, TypeOK, Blocked
<1> QED BY <1>1, InvariantH, PTL

\* A dead agent is found out after StaleAfter.
THEOREM DeathIsNoticed == Spec => []DeadIsNoticed
<1>1. HInv => DeadIsNoticed
  BY DEF HInv
<1> QED BY <1>1, InvariantH, PTL

\* A running agent is never found stale if StaleAfter covers the longest silence.
THEOREM StaleIsDead == Spec => []StaleMeansDead
<1>1. HInv => StaleMeansDead
  BY DEF HInv
<1> QED BY <1>1, InvariantH, PTL
=============================================================================
