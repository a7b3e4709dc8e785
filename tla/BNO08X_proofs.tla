----------------------------- MODULE BNO08X_proofs -----------------------------
(***************************************************************************)
(* What the driver's calls return, for any features, any orientations and  *)
(* any number of packets.                                                  *)
(***************************************************************************)
EXTENDS BNO08X, TLAPS, SequenceTheorems

(***************************************************************************)
(* The inductive invariant of the driver, part by part.                    *)
(***************************************************************************)

IsReport(i) == fifo[i].kind = "report"

\* The reports the sensor holds are in order and newer than every reading.
FifoInv ==
  \A i \in 1..Len(fifo) : IsReport(i) =>
    /\ fifo[i].report \in 1..Len(reports)
    /\ \A f \in FeatureSet : readings[f] < fifo[i].report
    /\ \A j \in 1..Len(fifo) : i < j /\ IsReport(j) => fifo[i].report < fifo[j].report

\* No report is lost: what the sensor does not hold any more is in the readings, or a
\* newer one of its feature is.
CoverInv ==
  \A n \in 1..Len(reports) :
    \/ \E i \in 1..Len(fifo) : IsReport(i) /\ fifo[i].report = n
    \/ n <= readings[reports[n].feature]

\* Behind the packet loop of a read or a tare, what had been queued when it was called is
\* in the readings.
PumpedInv ==
  PumpDone /\ call \in {"read", "tare"}
    => \A n \in 1..since : n <= readings[reports[n].feature]

\* Which calls process packets, and which of them look at a feature from the start.
IndexInv ==
  /\ call = "enable" => index > 0 /\ zero = 0
  /\ call = "tare" => index = Len(Features)
  /\ place \in {"pump", "pumped"} => call \in {"enable", "read", "tare"}

\* The values a read has picked so far are new enough.
FreshInv ==
  /\ call = "read" =>
       \A n \in 1..since : \A k \in 1..(index - 1) :
         reports[n].feature = Features[k] => n <= sample.from[reports[n].feature]
  /\ SampleIsFresh

ZeroInv ==
  /\ zero # 0 => offset = reports[zero].yaw
  /\ call \in {"enable", "tare"} => sample = NoSample
  /\ TaredReadsZero

\* A sensor nobody has enabled a feature of reports nothing.
FirstInv == call = "none" => enabled = {} /\ reports = <<>>

DriverInv ==
  /\ DriverTypeOK /\ FifoInv /\ CoverInv /\ PumpedInv
  /\ IndexInv /\ FreshInv /\ ZeroInv /\ FirstInv

-----------------------------------------------------------------------------
\* _wrap_angle leaves 0 alone and ends in the range of an angle.
LEMMA WrapAngleFacts ==
  /\ \A deg \in Int : WrapAngle(deg) \in -180..179
  /\ WrapAngle(0) = 0
BY DEF WrapAngle

LEMMA Division ==
  ASSUME NEW n \in Int
  PROVE  n \div 360 \in Int /\ n = 360 * (n \div 360) + (n % 360)
OBVIOUS

\* It changes an angle by whole turns only, and brings it into the range of an angle.
THEOREM WrapAngleTurns ==
  ASSUME NEW deg \in Int
  PROVE  /\ WrapAngle(deg) \in -180..179
         /\ \E k \in Int : WrapAngle(deg) = deg - 360 * k
<1>1. deg + 180 \in Int
  OBVIOUS
<1>2. PICK k \in Int : deg + 180 = 360 * k + ((deg + 180) % 360)
  BY <1>1, Division
<1>3. \E m \in Int : WrapAngle(deg) = deg - 360 * m
  BY <1>2 DEF WrapAngle
<1> QED BY <1>3, WrapAngleFacts

-----------------------------------------------------------------------------
(* Sequences *)

LEMMA LenFacts ==
  ASSUME NEW S, NEW s \in Seq(S)
  PROVE  /\ Len(s) \in Nat /\ (s = <<>> <=> Len(s) = 0)
         /\ \A i \in 1..Len(s) : s[i] \in S
BY EmptySeq

LEMMA AppendFacts ==
  ASSUME NEW S, NEW s \in Seq(S), NEW e \in S
  PROVE  /\ Append(s, e) \in Seq(S)
         /\ Len(Append(s, e)) = Len(s) + 1
         /\ \A i \in 1..Len(s) : Append(s, e)[i] = s[i]
         /\ Append(s, e)[Len(s) + 1] = e
BY AppendProperties, LenFacts

LEMMA TailFacts ==
  ASSUME NEW S, NEW s \in Seq(S), s # <<>>
  PROVE  /\ Head(s) \in S /\ Head(s) = s[1]
         /\ Tail(s) \in Seq(S) /\ Len(Tail(s)) = Len(s) - 1
         /\ \A i \in 1..Len(Tail(s)) : Tail(s)[i] = s[i + 1]
BY HeadTailProperties, LenFacts

Reports == [feature : FeatureSet, yaw : Yaws]

\* Every orientation is a number of degrees.
LEMMA YawFacts ==
  ASSUME NEW s \in Seq(Reports), NEW n \in 1..Len(s)
  PROVE  s[n].yaw \in Int
<1>1. s[n] \in Reports
  BY LenFacts
<1>2. s[n].yaw \in Yaws
  BY <1>1 DEF Reports
<1>3. \A y \in -180..180 : y \in Int
  OBVIOUS
<1>4. s[n].yaw \in -180..180
  BY <1>2, SensorAssumption
<1> QED BY <1>3, <1>4, Zenon

\* The features are numbered, and the one that is looked at is one of them.
LEMMA FeatureFacts ==
  /\ Len(Features) \in Nat \ {0} /\ Rotation \in FeatureSet
  /\ \A i \in 1..Len(Features) : Features[i] \in FeatureSet
BY SensorAssumption, LenFacts DEF FeatureSet

-----------------------------------------------------------------------------
(* The beginning *)

LEMMA DriverInitInv == DriverInit => DriverInv
<1> SUFFICES ASSUME DriverInit PROVE DriverInv
  OBVIOUS
<1> USE FeatureFacts DEF DriverInit
<1>1. Len(<<>>) = 0 /\ <<>> \in Seq(Packets) /\ <<>> \in Seq(Reports)
  BY EmptySeq
<1>2. NoReading \in [FeatureSet -> 0..Len(reports)]
  BY <1>1 DEF NoReading
<1>3. DriverTypeOK
  <2>1. quiet \in BOOLEAN /\ enabled \subseteq FeatureSet
    OBVIOUS
  <2>2. fifo \in Seq(Packets) /\ reports \in Seq([feature : FeatureSet, yaw : Yaws])
    BY <1>1 DEF Reports
  <2>3. sample \in [from : [FeatureSet -> 0..Len(reports)], yaw : Int]
    BY <1>2 DEF NoSample
  <2>4. zero \in 0..Len(reports) /\ since \in 0..Len(reports) /\ index \in 0..Len(Features)
    BY <1>1
  <2> QED BY <1>2, <2>1, <2>2, <2>3, <2>4 DEF DriverTypeOK
<1>4. FifoInv /\ CoverInv
  BY <1>1 DEF FifoInv, CoverInv
<1>5. PumpedInv /\ IndexInv /\ FreshInv /\ ZeroInv /\ FirstInv
  BY DEF PumpedInv, PumpDone, FirstInv, IndexInv, FreshInv, SampleIsFresh, ZeroInv, TaredReadsZero, Sampled
<1> QED BY <1>3, <1>4, <1>5 DEF DriverInv

-----------------------------------------------------------------------------
(* The sensor's steps *)

\* A packet more at the end of the sensor's queue; with a report, one report more.
LEMMA SendKeeps ==
  ASSUME DriverInv, NEW packet \in Packets, Send(packet), UNCHANGED <<quiet, enabled, driverVars>>,
         \/ packet.kind # "report" /\ UNCHANGED reports
         \/ \E r \in Reports : /\ reports' = Append(reports, r)
                               /\ packet = Packet("report", Len(reports')),
         call = "none" => UNCHANGED reports
  PROVE  DriverInv'
<1> USE DEF DriverInv
<1>1. /\ fifo \in Seq(Packets) /\ reports \in Seq(Reports)
      /\ readings \in [FeatureSet -> 0..Len(reports)]
  BY DEF DriverTypeOK, Reports
<1>2. /\ fifo' \in Seq(Packets) /\ Len(fifo') = Len(fifo) + 1 /\ Len(fifo) \in Nat
      /\ \A i \in 1..Len(fifo) : fifo'[i] = fifo[i]
      /\ fifo'[Len(fifo) + 1] = packet
  BY <1>1, AppendFacts, LenFacts DEF Send
<1>3. /\ reports' \in Seq(Reports) /\ Len(reports) \in Nat /\ Len(reports') \in Nat
      /\ Len(reports) <= Len(reports')
      /\ \A n \in 1..Len(reports) : reports'[n] = reports[n]
      /\ packet.kind = "report" =>
           packet.report = Len(reports') /\ Len(reports') = Len(reports) + 1
      /\ packet.kind # "report" => Len(reports') = Len(reports)
  <2>1. CASE packet.kind # "report" /\ UNCHANGED reports
    BY <1>1, <2>1, LenFacts
  <2>2. ASSUME NEW r \in Reports, reports' = Append(reports, r),
               packet = Packet("report", Len(reports'))
        PROVE  <1>3!:
    BY <1>1, <2>2, AppendFacts, LenFacts DEF Packet
  <2> QED BY <2>1, <2>2
<1>4. UNCHANGED <<quiet, enabled, call, place, index, processed, readings, offset, zero, since,
                  sample>>
  BY DEF driverVars
<1>5. DriverTypeOK'
  <2>1. (readings \in [FeatureSet -> 0..Len(reports)])'
    BY <1>1, <1>3, <1>4
  <2>2. (sample \in [from : [FeatureSet -> 0..Len(reports)], yaw : Int])'
    BY <1>3, <1>4 DEF DriverTypeOK
  <2>3. (zero \in 0..Len(reports) /\ since \in 0..Len(reports))'
    BY <1>3, <1>4 DEF DriverTypeOK
  <2> QED BY <1>2, <1>3, <1>4, <2>1, <2>2, <2>3 DEF DriverTypeOK, Reports
<1>6. FifoInv'
  <2> SUFFICES ASSUME NEW i \in 1..Len(fifo'), fifo'[i].kind = "report"
               PROVE  /\ fifo'[i].report \in 1..Len(reports')
                      /\ \A f \in FeatureSet : readings[f] < fifo'[i].report
                      /\ \A j \in 1..Len(fifo') : i < j /\ fifo'[j].kind = "report"
                                                    => fifo'[i].report < fifo'[j].report
    BY <1>4 DEF FifoInv, IsReport
  <2>1. CASE i \in 1..Len(fifo)
    <3>1. /\ fifo[i].report \in 1..Len(reports)
          /\ \A f \in FeatureSet : readings[f] < fifo[i].report
          /\ \A j \in 1..Len(fifo) : i < j /\ fifo[j].kind = "report"
                                       => fifo[i].report < fifo[j].report
      BY <1>2, <2>1 DEF FifoInv, IsReport
    <3>2. ASSUME NEW j \in 1..Len(fifo'), i < j, fifo'[j].kind = "report"
          PROVE  fifo[i].report < fifo'[j].report
      <4>1. j \in 1..Len(fifo) \/ fifo'[j] = packet
        BY <1>2
      <4>2. CASE j \in 1..Len(fifo)
        BY <1>2, <3>1, <3>2, <4>2
      <4>3. CASE fifo'[j] = packet
        BY <1>3, <3>1, <3>2, <4>3
      <4> QED BY <4>1, <4>2, <4>3
    <3> QED BY <1>2, <1>3, <2>1, <3>1, <3>2
  <2>2. CASE i = Len(fifo) + 1
    <3>1. fifo'[i] = packet
      BY <1>2, <2>2
    <3>2. \A f \in FeatureSet : readings[f] <= Len(reports) /\ readings[f] \in Nat
      BY <1>1, <1>3
    <3> QED BY <1>2, <1>3, <2>2, <3>1, <3>2
  <2> QED BY <1>2, <2>1, <2>2
<1>7. CoverInv'
  <2> SUFFICES ASSUME NEW n \in 1..Len(reports')
               PROVE  \/ \E i \in 1..Len(fifo') : fifo'[i].kind = "report" /\ fifo'[i].report = n
                      \/ n <= readings[reports'[n].feature]
    BY <1>4 DEF CoverInv, IsReport
  <2>1. CASE n \in 1..Len(reports)
    <3>1. \/ \E i \in 1..Len(fifo) : fifo[i].kind = "report" /\ fifo[i].report = n
          \/ n <= readings[reports[n].feature]
      BY <2>1 DEF CoverInv, IsReport
    <3>2. reports'[n] = reports[n]
      BY <1>3, <2>1
    <3> QED BY <1>2, <1>4, <3>1, <3>2
  <2>2. CASE n \notin 1..Len(reports)
    <3>1. packet.kind = "report" /\ packet.report = n
      BY <1>3, <2>2
    <3> QED BY <1>2, <3>1
  <2> QED BY <2>1, <2>2
<1>8. IndexInv' /\ PumpedInv'
  <2>1. \A n \in 1..since : n \in 1..Len(reports)
    BY <1>3 DEF DriverTypeOK
  <2> QED BY <1>3, <1>4, <2>1 DEF IndexInv, PumpedInv, PumpDone
<1>9. FreshInv'
  <2>1. \A n \in 1..since : n \in 1..Len(reports)
    BY <1>3 DEF DriverTypeOK
  <2> QED BY <1>3, <1>4, <2>1 DEF FreshInv, SampleIsFresh, Sampled
<1>10. ZeroInv'
  <2>1. zero # 0 => zero \in 1..Len(reports)
    BY <1>3 DEF DriverTypeOK
  <2> QED BY <1>3, <1>4, <2>1 DEF ZeroInv, TaredReadsZero, Sampled
<1>11. FirstInv'
  BY <1>4 DEF FirstInv
<1> QED BY <1>5, <1>6, <1>7, <1>8, <1>9, <1>10, <1>11

LEMMA SensorStep == DriverInv /\ Sensor => DriverInv'
<1> SUFFICES ASSUME DriverInv, Sensor PROVE DriverInv'
  OBVIOUS
<1>1. CASE EmitReport
  <2>1. PICK f \in enabled, yaw \in Yaws : reports' = Append(reports, [feature |-> f, yaw |-> yaw])
    BY <1>1 DEF EmitReport
  <2>2. [feature |-> f, yaw |-> yaw] \in Reports /\ reports \in Seq(Reports)
    BY DEF DriverInv, DriverTypeOK, Reports
  <2>3. Len(reports') \in Nat
    BY <2>1, <2>2, AppendFacts, LenFacts
  <2>4. Packet("report", Len(reports')) \in Packets
    BY <2>3 DEF Packet, Packets
  <2>5. /\ Send(Packet("report", Len(reports')))
        /\ UNCHANGED <<quiet, enabled, driverVars>>
        /\ call # "none"
    BY <1>1 DEF EmitReport, DriverInv, FirstInv
  <2> QED BY <2>1, <2>2, <2>4, <2>5, SendKeeps
<1>2. CASE EmitJunk
  <2>1. PICK kind \in Junk : Send(Packet(kind, 0))
    BY <1>2 DEF EmitJunk
  <2>2. Packet(kind, 0) \in Packets /\ Packet(kind, 0).kind # "report"
    BY DEF Packet, Packets, Junk
  <2>3. UNCHANGED <<quiet, enabled, reports, driverVars>>
    BY <1>2 DEF EmitJunk
  <2> QED BY <2>1, <2>2, <2>3, SendKeeps
<1>3. CASE FallQuiet
  BY <1>3 DEF FallQuiet, driverVars, DriverInv, DriverTypeOK, FifoInv, IsReport, CoverInv,
     PumpedInv, PumpDone, IndexInv, FreshInv, SampleIsFresh, ZeroInv, TaredReadsZero, Sampled,
     FirstInv
<1> QED BY <1>1, <1>2, <1>3 DEF Sensor

-----------------------------------------------------------------------------
(* The driver's steps *)

\* What the reading of the feature at index is.
LEMMA ReadingFacts ==
  ASSUME DriverTypeOK, index > 0
  PROVE  /\ index \in 1..Len(Features) /\ Features[index] \in FeatureSet
         /\ Reading = readings[Features[index]] /\ Reading \in 0..Len(reports)
         /\ Len(reports) \in Nat
<1>1. index \in 1..Len(Features) /\ Features[index] \in FeatureSet
  BY FeatureFacts DEF DriverTypeOK
<1>2. Len(reports) \in Nat
  BY LenFacts DEF DriverTypeOK
<1> QED BY <1>1, <1>2 DEF Reading, DriverTypeOK

\* A new object, a new read and a tare begin with no sample.
LEMMA BeginStep ==
  ASSUME DriverInv, Connect \/ ReadData \/ Tare
  PROVE  DriverInv'
<1> USE FeatureFacts DEF DriverInv
<1>1. Len(reports) \in Nat /\ UNCHANGED sensorVars /\ sample' = NoSample /\ call' # "none"
  BY LenFacts DEF DriverTypeOK, Connect, ReadData, Tare
<1>2. /\ NoReading \in [FeatureSet -> 0..Len(reports)]
      /\ NoSample \in [from : [FeatureSet -> 0..Len(reports)], yaw : Int]
  BY <1>1 DEF NoReading, NoSample
<1>3. FirstInv'
  BY <1>1 DEF FirstInv
<1>4. CASE Connect
  <2>1. /\ call = "none" /\ call' = "enable" /\ place' = "next" /\ index' = 1
        /\ processed' = 0 /\ readings' = NoReading /\ offset' = 0 /\ zero' = 0 /\ since' = 0
    BY <1>4 DEF Connect
  <2>2. DriverTypeOK'
    BY <1>1, <1>2, <2>1 DEF DriverTypeOK, sensorVars
  <2>3. PumpedInv' /\ IndexInv' /\ FreshInv' /\ ZeroInv'
    BY <1>1, <2>1 DEF PumpedInv, PumpDone, IndexInv, FreshInv, SampleIsFresh, ZeroInv, TaredReadsZero, Sampled
  <2>4. Len(reports) = 0
    BY <2>1, EmptySeq DEF FirstInv
  <2>5. FifoInv' /\ CoverInv'
    BY <1>1, <2>4 DEF FifoInv, CoverInv, IsReport, sensorVars
  <2> QED BY <1>3, <2>2, <2>3, <2>5
<1>5. CASE ReadData
  <2>1. /\ call' = "read" /\ place' = "pump" /\ index' = 0 /\ since' = Len(reports)
        /\ UNCHANGED <<processed, readings, offset, zero>>
    BY <1>5 DEF ReadData
  <2>2. DriverTypeOK'
    BY <1>1, <1>2, <2>1 DEF DriverTypeOK, sensorVars
  <2>3. PumpedInv' /\ IndexInv' /\ FreshInv' /\ ZeroInv'
    BY <1>1, <2>1 DEF PumpedInv, PumpDone, IndexInv, FreshInv, SampleIsFresh, ZeroInv, TaredReadsZero, Sampled,
       sensorVars
  <2>4. FifoInv' /\ CoverInv'
    BY <1>1, <2>1 DEF FifoInv, CoverInv, IsReport, sensorVars
  <2> QED BY <1>3, <2>2, <2>3, <2>4
<1>6. CASE Tare
  <2>1. /\ call' = "tare" /\ place' = "pump" /\ index' = Len(Features)
        /\ since' = Len(reports) /\ UNCHANGED <<processed, readings, offset, zero>>
    BY <1>6 DEF Tare
  <2>2. DriverTypeOK'
    BY <1>1, <1>2, <2>1 DEF DriverTypeOK, sensorVars
  <2>3. PumpedInv' /\ IndexInv' /\ FreshInv' /\ ZeroInv'
    BY <1>1, <2>1 DEF PumpedInv, PumpDone, IndexInv, FreshInv, SampleIsFresh, ZeroInv, TaredReadsZero, Sampled,
       sensorVars
  <2>4. FifoInv' /\ CoverInv'
    BY <1>1, <2>1 DEF FifoInv, CoverInv, IsReport, sensorVars
  <2> QED BY <1>3, <2>2, <2>3, <2>4
<1> QED BY <1>4, <1>5, <1>6

\* Enabling a feature touches neither the sensor's queue nor a reading.
LEMMA EnableStep ==
  ASSUME DriverInv, SendFeature \/ FeatureEnabled \/ FeatureMissing
  PROVE  DriverInv'
<1> USE DEF DriverInv
<1>1. call = "enable" /\ call' \in {"enable", "ready"} /\ index > 0
  BY DEF SendFeature, FeatureEnabled, FeatureMissing, IndexInv
<1>2. UNCHANGED <<quiet, fifo, reports, readings, offset, zero, since, sample>>
  BY DEF SendFeature, FeatureEnabled, FeatureMissing, sensorVars
<1>3. (index' = index \/ (index' = index + 1 /\ ~LastFeature))
  BY DEF SendFeature, FeatureEnabled, FeatureMissing
<1>4. processed' \in Nat
  <2>1. processed \in Nat
    BY DEF DriverTypeOK
  <2> QED BY <2>1 DEF SendFeature, FeatureEnabled, FeatureMissing
<1>5. place' \in {"next", "pump"}
  BY DEF SendFeature, FeatureEnabled, FeatureMissing
<1>6. index' \in 1..Len(Features)
  BY <1>1, <1>3, ReadingFacts, FeatureFacts DEF LastFeature
<1>7. enabled' \subseteq FeatureSet
  BY <1>1, ReadingFacts DEF SendFeature, FeatureEnabled, FeatureMissing, sensorVars, DriverTypeOK
<1>8. DriverTypeOK'
  BY <1>1, <1>2, <1>6, <1>7, <1>4, <1>5 DEF DriverTypeOK
<1>9. FifoInv' /\ CoverInv'
  BY <1>2 DEF FifoInv, CoverInv, IsReport
<1>10. place' = "pump" => call' = "enable"
  BY <1>1 DEF SendFeature, FeatureEnabled, FeatureMissing
<1>11. IndexInv' /\ FirstInv' /\ PumpedInv'
  BY <1>1, <1>2, <1>5, <1>6, <1>10 DEF IndexInv, FirstInv, PumpedInv, PumpDone
<1>12. FreshInv' /\ ZeroInv'
  BY <1>1, <1>2 DEF IndexInv, FreshInv, ZeroInv, SampleIsFresh, TaredReadsZero, Sampled
<1> QED BY <1>8, <1>9, <1>11, <1>12

\* A packet is taken from the queue.
LEMMA PacketStep ==
  ASSUME DriverInv, SkipPacket \/ HandlePacket \/ PacketRaises
  PROVE  DriverInv'
<1> USE DEF DriverInv
<1>1. /\ fifo # <<>> /\ fifo' = Tail(fifo) /\ place = "pump"
      /\ UNCHANGED <<quiet, reports, enabled, index, offset, zero, since, sample>>
  BY DEF SkipPacket, HandlePacket, PacketRaises, Pumping, driverVars
<1>2. /\ fifo \in Seq(Packets) /\ Len(fifo) \in Nat \ {0} /\ 1 \in 1..Len(fifo)
      /\ Head(fifo) = fifo[1] /\ fifo' \in Seq(Packets) /\ Len(fifo') = Len(fifo) - 1
      /\ \A i \in 1..Len(fifo') : fifo'[i] = fifo[i + 1] /\ i + 1 \in 1..Len(fifo)
  BY <1>1, TailFacts, LenFacts DEF DriverTypeOK
<1>3. \/ Head(fifo).kind # "report" /\ UNCHANGED readings /\ processed' \in {processed, 0}
      \/ /\ IsReport(1) /\ HandlePacket /\ UNCHANGED <<call, place>>
         /\ readings' = [readings EXCEPT ![reports[fifo[1].report].feature] = fifo[1].report]
         /\ processed' = processed + 1
  BY <1>2 DEF SkipPacket, HandlePacket, PacketRaises, Junk, driverVars, IsReport
<1>4. Len(reports) \in Nat /\ \A n \in 1..Len(reports) : reports[n].feature \in FeatureSet
  <2>1. reports \in Seq(Reports)
    BY DEF DriverTypeOK, Reports
  <2>2. \A n \in 1..Len(reports) : reports[n] \in Reports
    BY <2>1, LenFacts
  <2> QED BY <2>1, <2>2, LenFacts DEF Reports
<1>5. IsReport(1) => /\ fifo[1].report \in 1..Len(reports)
                     /\ reports[fifo[1].report].feature \in FeatureSet
  BY <1>2, <1>4 DEF FifoInv
<1> DEFINE f1 == reports[fifo[1].report].feature
<1>6. readings \in [FeatureSet -> 0..Len(reports)]
  BY DEF DriverTypeOK
<1>7. IsReport(1) => f1 \in FeatureSet /\ fifo[1].report \in 0..Len(reports)
  BY <1>4, <1>5
<1>8. ~IsReport(1) => readings' = readings
  BY <1>2, <1>3 DEF IsReport
<1>9. IsReport(1) => readings' = [readings EXCEPT ![f1] = fifo[1].report]
  BY <1>2, <1>3 DEF IsReport
<1> HIDE DEF f1
<1>10. readings' \in [FeatureSet -> 0..Len(reports)]
  BY <1>6, <1>7, <1>8, <1>9
<1>11. IsReport(1) => \A f \in FeatureSet :
                        readings'[f] = IF f = f1 THEN fifo[1].report ELSE readings[f]
  BY <1>6, <1>9
<1>12. \A f \in FeatureSet :
         (readings'[f] = readings[f] \/ (IsReport(1) /\ readings'[f] = fifo[1].report))
  BY <1>8, <1>11
<1>13. \A f \in FeatureSet :
         readings[f] \in Int /\ readings'[f] \in Int /\ readings[f] <= readings'[f]
  <2> SUFFICES ASSUME NEW f \in FeatureSet
               PROVE  readings[f] \in Int /\ readings'[f] \in Int /\ readings[f] <= readings'[f]
    OBVIOUS
  <2>1. readings[f] \in Int /\ readings'[f] \in Int
    BY <1>4, <1>6, <1>10
  <2>2. IsReport(1) => readings[f] < fifo[1].report /\ fifo[1].report \in Int
    BY <1>2, <1>4, <1>7 DEF FifoInv
  <2> QED BY <1>12, <2>1, <2>2
<1>14. IsReport(1) => readings'[f1] = fifo[1].report
  BY <1>7, <1>11
<1>15. \/ UNCHANGED <<call, place>>
       \/ /\ call' \in {"ready", "raised"} /\ place' = "next"
          /\ call' = "ready" => call = "enable"
  BY DEF SkipPacket, HandlePacket, PacketRaises, driverVars
<1>16. DriverTypeOK'
  <2>1. processed' \in Nat
    BY <1>3 DEF DriverTypeOK
  <2> QED BY <1>1, <1>2, <1>10, <1>15, <2>1 DEF DriverTypeOK
<1>17. FifoInv'
  <2> SUFFICES ASSUME NEW i \in 1..Len(fifo'), fifo'[i].kind = "report"
               PROVE  /\ fifo'[i].report \in 1..Len(reports)
                      /\ \A f \in FeatureSet : readings'[f] < fifo'[i].report
                      /\ \A j \in 1..Len(fifo') : i < j /\ fifo'[j].kind = "report"
                                                    => fifo'[i].report < fifo'[j].report
    BY <1>1 DEF FifoInv, IsReport
  <2>1. IsReport(i + 1) /\ fifo'[i] = fifo[i + 1] /\ i + 1 \in 1..Len(fifo)
    BY <1>2 DEF IsReport
  <2>2. fifo'[i].report \in 1..Len(reports)
    BY <2>1 DEF FifoInv
  <2>3. \A f \in FeatureSet : readings'[f] < fifo'[i].report
    <3>1. IsReport(1) => fifo[1].report < fifo[i + 1].report
      BY <1>2, <2>1 DEF FifoInv
    <3>2. \A f \in FeatureSet : readings[f] < fifo[i + 1].report
      BY <2>1 DEF FifoInv
    <3> QED BY <1>12, <1>13, <2>1, <3>1, <3>2
  <2>4. ASSUME NEW j \in 1..Len(fifo'), i < j, fifo'[j].kind = "report"
        PROVE  fifo'[i].report < fifo'[j].report
    <3>1. IsReport(j + 1) /\ fifo'[j] = fifo[j + 1] /\ j + 1 \in 1..Len(fifo) /\ i + 1 < j + 1
      BY <1>2, <2>4 DEF IsReport
    <3> QED BY <2>1, <3>1 DEF FifoInv
  <2> QED BY <2>2, <2>3, <2>4
<1>18. CoverInv'
  <2> SUFFICES ASSUME NEW n \in 1..Len(reports)
               PROVE  \/ \E i \in 1..Len(fifo') : fifo'[i].kind = "report" /\ fifo'[i].report = n
                      \/ n <= readings'[reports[n].feature]
    BY <1>1 DEF CoverInv, IsReport
  <2>1. CASE n <= readings[reports[n].feature]
    <3>1. /\ readings[reports[n].feature] \in Int /\ readings'[reports[n].feature] \in Int
          /\ readings[reports[n].feature] <= readings'[reports[n].feature]
      BY <1>4, <1>13
    <3> QED BY <2>1, <3>1
  <2>2. ASSUME NEW i \in 1..Len(fifo), IsReport(i), fifo[i].report = n
        PROVE  \/ \E k \in 1..Len(fifo') : fifo'[k].kind = "report" /\ fifo'[k].report = n
               \/ n <= readings'[reports[n].feature]
    <3>1. CASE i = 1
      <4>1. readings'[reports[n].feature] = n
        BY <1>14, <2>2, <3>1 DEF f1
      <4> QED BY <1>4, <4>1
    <3>2. CASE i # 1
      <4>1. i - 1 \in 1..Len(fifo') /\ fifo'[i - 1] = fifo[i]
        BY <1>2, <3>2
      <4> QED BY <2>2, <4>1 DEF IsReport
    <3> QED BY <3>1, <3>2
  <2> QED BY <2>1, <2>2 DEF CoverInv
<1>19. IndexInv' /\ FirstInv' /\ PumpedInv'
  BY <1>1, <1>15 DEF IndexInv, FirstInv, PumpedInv, PumpDone
<1>20. FreshInv' /\ ZeroInv'
  BY <1>1, <1>15 DEF IndexInv, FreshInv, ZeroInv, SampleIsFresh, TaredReadsZero, Sampled
<1> QED BY <1>16, <1>17, <1>18, <1>19, <1>20

\* The queue is empty at the end of a read's loop: a report that had been there is in the
\* readings, or a newer one of its feature is.
LEMMA EndPumpStep ==
  ASSUME DriverInv, EndPump
  PROVE  DriverInv'
<1> USE DEF DriverInv
<1>1. /\ place = "pump" /\ place' = "pumped" /\ processed' = 0
      /\ fifo = <<>> \/ call = "enable"
      /\ UNCHANGED <<quiet, fifo, reports, enabled, call, index, readings, offset, zero, since,
                     sample>>
  BY DEF EndPump, EnoughProcessed, sensorVars
<1>2. DriverTypeOK'
  BY <1>1 DEF DriverTypeOK
<1>3. FifoInv' /\ CoverInv'
  BY <1>1 DEF FifoInv, CoverInv, IsReport
<1>4. PumpedInv'
  <2> SUFFICES ASSUME call \in {"read", "tare"}, NEW n \in 1..since
               PROVE  n <= readings[reports[n].feature]
    BY <1>1 DEF PumpedInv, PumpDone
  <2>1. Len(fifo) = 0
    BY <1>1, EmptySeq
  <2>2. n \in 1..Len(reports)
    BY LenFacts DEF DriverTypeOK
  <2> QED BY <2>1, <2>2 DEF CoverInv
<1>5. IndexInv' /\ FirstInv' /\ FreshInv' /\ ZeroInv'
  BY <1>1 DEF IndexInv, FirstInv, FreshInv, ZeroInv, SampleIsFresh, TaredReadsZero, Sampled
<1> QED BY <1>2, <1>3, <1>4, <1>5

\* Between two loops of a read or a tare no report that had been queued is missing.
LEMMA PumpedReads ==
  ASSUME DriverInv, PumpDone, call \in {"read", "tare"}
  PROVE  \A n \in 1..since : /\ reports[n].feature \in FeatureSet
                             /\ n <= readings[reports[n].feature]
<1>1. reports \in Seq(Reports) /\ since \in 0..Len(reports)
  BY DEF DriverInv, DriverTypeOK, Reports
<1>2. \A n \in 1..since : n \in 1..Len(reports) /\ reports[n] \in Reports
  BY <1>1, LenFacts
<1> QED BY <1>2 DEF DriverInv, PumpedInv, Reports

\* The steps that leave the queue and the readings alone keep what is known of them.
LEMMA QueueKept ==
  ASSUME DriverInv, UNCHANGED <<fifo, reports, readings>>
  PROVE  FifoInv' /\ CoverInv'
BY DEF DriverInv, FifoInv, CoverInv, IsReport

LEMMA CaptureStep ==
  ASSUME DriverInv, CaptureTime
  PROVE  DriverInv'
<1> USE DEF DriverInv
<1>1. /\ call = "read" /\ index = 0 /\ index' = 1 /\ place' = "pump"
      /\ UNCHANGED <<quiet, fifo, reports, enabled, call, processed, readings, offset, zero,
                     since, sample>>
  BY DEF CaptureTime, sensorVars
<1>2. DriverTypeOK'
  BY <1>1, FeatureFacts DEF DriverTypeOK
<1>3. FifoInv' /\ CoverInv'
  BY <1>1, QueueKept
<1>4. PumpedInv' /\ IndexInv' /\ FirstInv' /\ FreshInv' /\ ZeroInv'
  BY <1>1 DEF PumpedInv, PumpDone, IndexInv, FirstInv, FreshInv, ZeroInv, SampleIsFresh,
     TaredReadsZero, Sampled
<1> QED BY <1>2, <1>3, <1>4

\* The value of one feature goes into the sample; the last one completes it.
LEMMA PickStep ==
  ASSUME DriverInv, PickValue
  PROVE  DriverInv'
<1> USE DEF DriverInv
<1>1. /\ call = "read" /\ PumpDone /\ index > 0 /\ Reading # 0
      /\ UNCHANGED <<quiet, fifo, reports, enabled, processed, readings, offset, zero, since>>
  BY DEF PickValue, sensorVars
<1>2. /\ index \in 1..Len(Features) /\ Features[index] \in FeatureSet
      /\ Reading = readings[Features[index]] /\ Reading \in 1..Len(reports)
      /\ Len(reports) \in Nat /\ Len(Features) \in Nat
  BY <1>1, ReadingFacts, FeatureFacts
<1> DEFINE yaw1 == IF LastFeature THEN WrapAngle(reports[Reading].yaw - offset) ELSE 0
<1> DEFINE from1 == [sample.from EXCEPT ![Features[index]] = Reading]
<1>3. sample' = [from |-> from1, yaw |-> yaw1]
  BY DEF PickValue
<1>4. reports[Reading].yaw - offset \in Int
  <2>1. reports \in Seq(Reports) /\ offset \in Int
    BY DEF DriverTypeOK, Reports
  <2>2. reports[Reading].yaw \in Int
    BY <1>2, <2>1, YawFacts
  <2> QED BY <2>1, <2>2
<1>5. yaw1 \in -180..179
  BY <1>4, WrapAngleFacts
<1>6. sample.from \in [FeatureSet -> 0..Len(reports)]
  BY DEF DriverTypeOK
<1>7. from1 \in [FeatureSet -> 0..Len(reports)]
  BY <1>2, <1>6
<1>8. from1[Features[index]] = Reading
  BY <1>2, <1>6
<1>9. \A f \in FeatureSet : f # Features[index] => from1[f] = sample.from[f]
  BY <1>6
<1> HIDE DEF yaw1, from1
<1>10. sample'.from = from1 /\ sample'.yaw = yaw1
  BY <1>3
<1>11. \/ LastFeature /\ call' = "ready" /\ place' = "next" /\ index' = index
       \/ ~LastFeature /\ call' = "read" /\ place' = "pump" /\ index' = index + 1
  BY DEF PickValue
<1>12. index' \in 0..Len(Features)
  BY <1>2, <1>11 DEF LastFeature
<1>13. DriverTypeOK'
  <2>1. (sample \in [from : [FeatureSet -> 0..Len(reports)], yaw : Int])'
    BY <1>1, <1>3, <1>5, <1>7
  <2> QED BY <1>1, <1>11, <1>12, <2>1 DEF DriverTypeOK
<1>14. FifoInv' /\ CoverInv'
  BY <1>1, QueueKept
<1>15. IndexInv' /\ FirstInv' /\ PumpedInv'
  BY <1>11 DEF IndexInv, FirstInv, PumpedInv, PumpDone
\* A value picked before was new enough, and the one picked now is.
<1>16. \A n \in 1..since : \A k \in 1..index :
         reports[n].feature = Features[k] => n <= from1[reports[n].feature]
  <2> SUFFICES ASSUME NEW n \in 1..since, NEW k \in 1..index, reports[n].feature = Features[k]
               PROVE  n <= from1[reports[n].feature]
    OBVIOUS
  <2>1. reports[n].feature \in FeatureSet /\ n <= readings[reports[n].feature]
    BY <1>1, PumpedReads
  <2>2. CASE reports[n].feature = Features[index]
    BY <1>2, <1>8, <2>1, <2>2
  <2>3. CASE reports[n].feature # Features[index]
    <3>1. k \in 1..(index - 1)
      BY <1>2, <2>3
    <3>2. n <= sample.from[reports[n].feature]
      BY <1>1, <3>1 DEF FreshInv
    <3> QED BY <1>9, <2>1, <2>3, <3>2
  <2> QED BY <2>2, <2>3
<1>17. FreshInv'
  <2>1. CASE LastFeature
    <3>0. sample' # NoSample
      BY <1>1, <1>2, <1>8, <1>10 DEF NoSample, NoReading
    <3> SUFFICES ASSUME NEW n \in 1..since PROVE n <= from1[reports[n].feature]
      BY <1>1, <1>10, <1>11, <2>1, <3>0 DEF FreshInv, SampleIsFresh, Sampled
    <3>1. reports[n].feature \in FeatureSet
      BY <1>1, PumpedReads
    <3>2. PICK k \in 1..Len(Features) : reports[n].feature = Features[k]
      BY <3>1 DEF FeatureSet
    <3> QED BY <1>16, <2>1, <3>2 DEF LastFeature
  <2>2. CASE ~LastFeature
    <3>1. index' - 1 = index /\ call' = "read"
      BY <1>2, <1>11, <2>2
    <3> QED BY <1>1, <1>10, <1>16, <3>1 DEF FreshInv, SampleIsFresh, Sampled
  <2> QED BY <2>1, <2>2
<1>18. TaredReadsZero'
  <2>1. CASE LastFeature
    <3>1. Features[index] = Rotation
      BY <2>1, SensorAssumption DEF LastFeature
    <3>2. zero # 0 /\ from1[Rotation] = zero => yaw1 = 0
      <4> SUFFICES ASSUME zero # 0, from1[Rotation] = zero PROVE yaw1 = 0
        OBVIOUS
      <4>1. Reading = zero /\ offset = reports[Reading].yaw
        BY <1>8, <3>1 DEF ZeroInv
      <4>2. reports[Reading].yaw - offset = 0
        BY <1>4, <4>1 DEF DriverTypeOK
      <4> QED BY <2>1, <4>2, WrapAngleFacts DEF yaw1
    <3> QED BY <1>1, <1>5, <1>10, <3>2 DEF TaredReadsZero
  <2>2. CASE ~LastFeature
    BY <1>11, <2>2 DEF TaredReadsZero, Sampled
  <2> QED BY <2>1, <2>2
<1>19. ZeroInv'
  BY <1>1, <1>11, <1>18 DEF ZeroInv
<1> QED BY <1>13, <1>14, <1>15, <1>17, <1>19

\* The end of a tare, and a value that is missing: there is no sample.
LEMMA EndStep ==
  ASSUME DriverInv, SetOffset \/ ValueMissing
  PROVE  DriverInv'
<1> USE DEF DriverInv
<1>1. /\ UNCHANGED <<quiet, fifo, reports, enabled, index, processed, readings, since, sample>>
      /\ place' = "next" /\ call # "none" /\ call' \in {"ready", "raised"}
      /\ (call' = "ready" => sample = NoSample) /\ PumpDone
  BY DEF SetOffset, ValueMissing, sensorVars, ZeroInv
<1>2. FifoInv' /\ CoverInv'
  BY <1>1, QueueKept
<1>3. IndexInv' /\ FirstInv' /\ PumpedInv'
  BY <1>1 DEF IndexInv, FirstInv, PumpedInv, PumpDone
<1>4. TaredReadsZero' /\ ~Sampled'
  BY <1>1 DEF TaredReadsZero, Sampled
<1>5. CASE SetOffset
  <2>1. /\ call = "tare" /\ offset' = reports[Reading].yaw /\ zero' = Reading /\ Reading # 0
    BY <1>5 DEF SetOffset
  <2>2. Reading \in 0..Len(reports) /\ Len(reports) \in Nat
    BY <2>1, ReadingFacts, FeatureFacts DEF IndexInv
  <2>3. offset' \in Int
    <3>1. reports \in Seq(Reports)
      BY DEF DriverTypeOK, Reports
    <3>2. Reading \in 1..Len(reports)
      BY <2>1, <2>2
    <3> QED BY <2>1, <3>1, <3>2, YawFacts
  <2>4. DriverTypeOK'
    BY <1>1, <2>1, <2>2, <2>3 DEF DriverTypeOK
  <2>5. ZeroInv'
    BY <1>1, <1>4, <2>1 DEF ZeroInv
  <2>6. FreshInv'
    <3>1. Reading = readings[Rotation]
      BY <2>1, SensorAssumption DEF IndexInv, Reading
    <3>2. \A n \in 1..since : reports[n].feature = Rotation => n <= Reading
      BY <1>1, <2>1, <3>1, PumpedReads
    <3> QED BY <1>1, <1>4, <2>1, <3>2 DEF FreshInv, SampleIsFresh
  <2> QED BY <1>2, <1>3, <2>4, <2>5, <2>6
<1>6. CASE ValueMissing
  <2>1. UNCHANGED <<offset, zero>> /\ call' = "raised"
    BY <1>6 DEF ValueMissing
  <2>2. DriverTypeOK'
    BY <1>1, <2>1 DEF DriverTypeOK
  <2>3. ZeroInv' /\ FreshInv'
    BY <1>1, <1>4, <2>1 DEF ZeroInv, FreshInv, SampleIsFresh
  <2> QED BY <1>2, <1>3, <2>2, <2>3
<1> QED BY <1>5, <1>6

-----------------------------------------------------------------------------
(* What a caller relies on *)

\* A call in progress makes no reading older.
LEMMA ReadingsGrow ==
  ASSUME DriverInv, DriverStep
  PROVE  readings[Rotation] <= readings'[Rotation]
<1>1. /\ reports \in Seq(Reports) /\ readings \in [FeatureSet -> 0..Len(reports)]
      /\ Rotation \in FeatureSet
  BY FeatureFacts DEF DriverInv, DriverTypeOK, Reports
<1>2. readings[Rotation] \in Int
  BY <1>1, LenFacts
<1>3. CASE UNCHANGED readings
  BY <1>2, <1>3
<1>4. CASE HandlePacket
  <2>1. place = "pump" /\ fifo # <<>> /\ Head(fifo).kind = "report"
    BY <1>4 DEF HandlePacket, Pumping
  <2>2. 1 \in 1..Len(fifo) /\ Head(fifo) = fifo[1] /\ fifo \in Seq(Packets)
    BY <2>1, TailFacts, LenFacts DEF DriverInv, DriverTypeOK
  <2>3. fifo[1].report \in 1..Len(reports) /\ readings[Rotation] < fifo[1].report
    BY <1>1, <2>1, <2>2 DEF DriverInv, FifoInv, IsReport
  <2>4. readings' = [readings EXCEPT ![reports[fifo[1].report].feature] = fifo[1].report]
    BY <1>4, <2>2 DEF HandlePacket
  <2>5. readings'[Rotation] \in {readings[Rotation], fifo[1].report}
    BY <1>1, <2>4
  <2>6. fifo[1].report \in Int
    BY <1>1, <2>3, LenFacts
  <2> QED BY <1>2, <2>3, <2>5, <2>6
<1> QED BY <1>3, <1>4 DEF DriverStep, SendFeature, FeatureEnabled, FeatureMissing, SkipPacket,
      PacketRaises, EndPump, CaptureTime, PickValue, SetOffset, ValueMissing, driverVars

\* A read goes on, fails, or returns the newest orientation there is; when no call is in
\* progress the driver does nothing.
LEMMA ReadReturns ==
  ASSUME DriverInv, DriverStep
  PROVE  /\ call \in {"enable", "read", "tare"}
         /\ call = "read" => \/ call' \in {"read", "raised"}
                             \/ call' = "ready" /\ sample'.from[Rotation] = readings'[Rotation]
<1>1. call \in {"enable", "read", "tare"}
  BY DEF DriverInv, IndexInv, DriverStep, SendFeature, FeatureEnabled, FeatureMissing, SkipPacket,
      HandlePacket, PacketRaises, EndPump, CaptureTime, PickValue, SetOffset, ValueMissing,
      PumpDone, Pumping
<1>2. CASE call = "read" /\ PickValue
  <2>1. /\ index \in 1..Len(Features) /\ Features[index] \in FeatureSet
        /\ Reading = readings[Features[index]]
    BY <1>2, ReadingFacts DEF DriverInv, PickValue
  <2>2. CASE ~LastFeature
    BY <1>2, <2>2 DEF PickValue
  <2>3. CASE LastFeature
    <3>1. Features[index] = Rotation
      BY <2>3, SensorAssumption DEF LastFeature
    <3>2. sample.from \in [FeatureSet -> 0..Len(reports)]
      BY DEF DriverInv, DriverTypeOK
    <3>3. sample'.from = [sample.from EXCEPT ![Rotation] = Reading] /\ UNCHANGED readings
      BY <1>2, <3>1 DEF PickValue
    <3>4. sample'.from[Rotation] = readings'[Rotation]
      BY <2>1, <3>1, <3>2, <3>3
    <3>5. call' = "ready"
      BY <1>2, <2>3 DEF PickValue
    <3> QED BY <1>1, <3>4, <3>5
  <2> QED BY <1>1, <2>2, <2>3
<1>3. CASE call = "read" /\ ~PickValue
  <2>1. call' \in {"read", "raised"}
    BY <1>3 DEF DriverStep, SendFeature, FeatureEnabled, FeatureMissing, SkipPacket,
      HandlePacket, PacketRaises, EndPump, CaptureTime, SetOffset, ValueMissing, driverVars
  <2> QED BY <1>1, <1>3, <2>1
<1> QED BY <1>1, <1>2, <1>3

-----------------------------------------------------------------------------
\* Every step of a call in progress keeps the invariant.
LEMMA DriverStepInv == DriverInv /\ DriverStep => DriverInv'
BY EnableStep, PacketStep, EndPumpStep, CaptureStep, PickStep, EndStep DEF DriverStep

LEMMA DriverUnchanged ==
  ASSUME DriverInv, UNCHANGED <<sensorVars, driverVars>>
  PROVE  DriverInv'
BY DEF sensorVars, driverVars, DriverInv, DriverTypeOK, FifoInv, IsReport, CoverInv, PumpedInv,
   PumpDone, IndexInv, FreshInv, SampleIsFresh, ZeroInv, TaredReadsZero, Sampled, FirstInv
=============================================================================
