-------------------------------- MODULE BNO08X --------------------------------
(***************************************************************************)
(* The driver of the sensor (imu/RealIMU.py), as one thread uses it: the   *)
(* service holds _imu_lock, the direct mode has no other thread.           *)
(*                                                                         *)
(* The sensor queues packets of its own accord.  Every call of the driver  *)
(* begins by processing all there are, and the library's properties (its   *)
(* linear_acceleration, gyro, magnetic and quaternion) do so once more     *)
(* before each value, so a sample is put together from several moments.    *)
(* Report n is the n-th intact report of the sensor, of any feature.       *)
(***************************************************************************)
EXTENDS Integers, Sequences

CONSTANTS
  Features,    \* the features in the order in which they are enabled and read
  Rotation,    \* the rotation vector, which is the last of them
  Yaws,        \* the orientations of the sensor that the model tells apart, in degrees
  MaxPackets,  \* what enable_feature passes as max_packets
  MaxFifo,     \* bound of the model: packets the sensor holds
  MaxReports   \* bound of the model: reports of the sensor

ASSUME SensorAssumption ==
  /\ Features \in Seq(STRING) /\ Len(Features) > 0 /\ Features[Len(Features)] = Rotation
  /\ Yaws \subseteq -180..180 /\ Yaws # {}
  /\ MaxPackets \in Nat \ {0} /\ MaxFifo \in Nat /\ MaxReports \in Nat

VARIABLES
  quiet,      \* environment: the sensor sends nothing any more
  fifo,       \* the packets the sensor holds
  reports,    \* all intact reports so far
  enabled,    \* the features it reports
  call,       \* "none" (no object), "ready", "raised", or the call in progress
  place,      \* where that call is: "next", in the packet loop ("pump") or behind it ("pumped")
  index,      \* the feature it is at
  processed,  \* processed_count
  readings,   \* self._readings: the number of each feature's last report, or 0
  offset,     \* self._yaw_offset
  zero,       \* the report that was tared, or 0
  since,      \* how many reports there were when read_data or tare was called
  sample      \* the reports the last sample was made of, and its yaw

sensorVars == <<quiet, fifo, reports, enabled>>
driverVars == <<call, place, index, processed, readings, offset, zero, since, sample>>

FeatureSet == {Features[i] : i \in 1..Len(Features)}

NoReading == [f \in FeatureSet |-> 0]
NoSample  == [from |-> NoReading, yaw |-> 0]

\* Packets that are not a report: "junk" is what _read_packet rejects, what comes on a
\* command channel and a batch that is too short; "broken" is what the library cannot
\* handle for another reason.
Junk == {"junk", "broken"}

Packet(kind, n) == [kind |-> kind, report |-> n]
Packets == [kind : Junk \union {"report"}, report : Nat]

\* Mutant: the remainder is not moved back.
WrapHalf(deg) == (deg % 360) - 180

\* (deg + 180) % 360 - 180
WrapAngle(deg) == ((deg + 180) % 360) - 180

-----------------------------------------------------------------------------
(* The sensor *)

Send(packet) == Len(fifo) < MaxFifo /\ fifo' = Append(fifo, packet)

EmitReport ==
  /\ ~quiet /\ Len(reports) < MaxReports
  /\ \E f \in enabled, yaw \in Yaws :
       /\ f # Rotation => yaw = CHOOSE y \in Yaws : TRUE
       /\ reports' = Append(reports, [feature |-> f, yaw |-> yaw])
  /\ Send(Packet("report", Len(reports')))
  /\ UNCHANGED <<quiet, enabled, driverVars>>

EmitJunk ==
  /\ ~quiet
  /\ \E kind \in Junk : Send(Packet(kind, 0))
  /\ UNCHANGED <<quiet, reports, enabled, driverVars>>

FallQuiet == ~quiet /\ quiet' = TRUE /\ UNCHANGED <<fifo, reports, enabled, driverVars>>

Sensor == EmitReport \/ EmitJunk \/ FallQuiet

-----------------------------------------------------------------------------
(* The constructor *)

\* A new object at one of the two addresses.  With no sensor at either of them, what
\* follows in the constructor fails on an object that was never initialised.
Connect ==
  /\ call = "none"
  /\ call' = "enable" /\ place' = "next" /\ index' = 1 /\ processed' = 0
  /\ readings' = NoReading /\ offset' = 0 /\ zero' = 0 /\ since' = 0 /\ sample' = NoSample
  /\ UNCHANGED sensorVars

\* enable_feature: the command is sent, and the sensor may not have understood it.
SendFeature ==
  /\ call = "enable" /\ place = "next"
  /\ enabled' \in {enabled, enabled \union {Features[index]}}
  /\ place' = "pump"
  /\ UNCHANGED <<quiet, fifo, reports, call, index, processed, readings, offset, zero, since, sample>>

-----------------------------------------------------------------------------
(* _process_available_packets *)

\* max_packets is None but for enable_feature, and a packet more than it is processed.
EnoughProcessed == call = "enable" /\ processed > MaxPackets

Pumping  == place = "pump" /\ fifo # <<>> /\ ~EnoughProcessed
PumpDone == place = "pumped"

\* The loop ends: the sensor holds no more packets, or there were enough.
EndPump ==
  /\ place = "pump" /\ (fifo = <<>> \/ EnoughProcessed)
  /\ place' = "pumped" /\ processed' = 0
  /\ UNCHANGED <<sensorVars, call, index, readings, offset, zero, since, sample>>

\* Mutant: a packet on a command channel ends the loop.
SkipAndReturn ==
  /\ Pumping /\ Head(fifo).kind = "junk"
  /\ fifo' = Tail(fifo) /\ place' = "pumped" /\ processed' = 0
  /\ UNCHANGED <<quiet, reports, enabled, call, index, readings, offset, zero, since, sample>>

\* Mutant: a packet that is rejected stays the next one.
SkipNothing ==
  /\ Pumping /\ Head(fifo).kind = "junk"
  /\ UNCHANGED <<sensorVars, driverVars>>

\* continue
SkipPacket ==
  /\ Pumping /\ Head(fifo).kind = "junk"
  /\ fifo' = Tail(fifo)
  /\ UNCHANGED <<quiet, reports, enabled, driverVars>>

\* _handle_packet stores the report.
HandlePacket ==
  /\ Pumping /\ Head(fifo).kind = "report"
  /\ fifo' = Tail(fifo)
  /\ LET n == Head(fifo).report
     IN  readings' = [readings EXCEPT ![reports[n].feature] = n]
  /\ processed' = processed + 1
  /\ UNCHANGED <<quiet, reports, enabled, call, place, index, offset, zero, since, sample>>

\* Another RuntimeError is raised: the call fails, but the constructor's except clause
\* keeps the object unless the error has too few arguments for its message.
PacketRaises ==
  /\ Pumping /\ Head(fifo).kind = "broken"
  /\ fifo' = Tail(fifo)
  /\ call' \in IF call = "enable" THEN {"ready", "raised"} ELSE {"raised"}
  /\ place' = "next" /\ processed' = 0
  /\ UNCHANGED <<quiet, reports, enabled, index, readings, offset, zero, since, sample>>

-----------------------------------------------------------------------------
(* What the calls do between two pumps *)

LastFeature == index = Len(Features)
Reading     == readings[Features[index]]

\* The feature has reported: the next one, or the object is complete.
FeatureEnabled ==
  /\ call = "enable" /\ PumpDone /\ Reading # 0
  /\ place' = "next"
  /\ IF LastFeature THEN call' = "ready" /\ UNCHANGED index
                    ELSE index' = index + 1 /\ UNCHANGED call
  /\ UNCHANGED <<sensorVars, processed, readings, offset, zero, since, sample>>

\* It has not: once more, or too late.  The RuntimeError is printed and the object stays,
\* without the features that were still to be enabled.
FeatureMissing ==
  /\ call = "enable" /\ PumpDone /\ Reading = 0
  /\ \/ fifo # <<>> /\ place' = "pump" /\ UNCHANGED call
     \/ call' = "ready" /\ place' = "next"
  /\ UNCHANGED <<sensorVars, index, processed, readings, offset, zero, since, sample>>

\* read_data pumps once before it looks at the clock and once more for each value.
ReadData ==
  /\ call = "ready"
  /\ call' = "read" /\ place' = "pump" /\ index' = 0
  /\ since' = Len(reports) /\ sample' = NoSample
  /\ UNCHANGED <<sensorVars, processed, readings, offset, zero>>

CaptureTime ==
  /\ call = "read" /\ PumpDone /\ index = 0
  /\ index' = 1 /\ place' = "pump"
  /\ UNCHANGED <<sensorVars, call, processed, readings, offset, zero, since, sample>>

PickValue ==
  /\ call = "read" /\ PumpDone /\ index > 0 /\ Reading # 0
  /\ sample' = [from |-> [sample.from EXCEPT ![Features[index]] = Reading],
                yaw  |-> IF LastFeature THEN WrapAngle(reports[Reading].yaw - offset) ELSE 0]
  /\ IF LastFeature THEN call' = "ready" /\ place' = "next" /\ UNCHANGED index
                    ELSE index' = index + 1 /\ place' = "pump" /\ UNCHANGED call
  /\ UNCHANGED <<sensorVars, processed, readings, offset, zero, since>>

Tare ==
  /\ call = "ready"
  /\ call' = "tare" /\ place' = "pump" /\ index' = Len(Features)
  /\ since' = Len(reports) /\ sample' = NoSample
  /\ UNCHANGED <<sensorVars, processed, readings, offset, zero>>

SetOffset ==
  /\ call = "tare" /\ PumpDone /\ Reading # 0
  /\ offset' = reports[Reading].yaw /\ zero' = Reading
  /\ call' = "ready" /\ place' = "next"
  /\ UNCHANGED <<sensorVars, index, processed, readings, since, sample>>

\* No report found, is it enabled?
ValueMissing ==
  /\ call \in {"read", "tare"} /\ PumpDone /\ index > 0 /\ Reading = 0
  /\ call' = "raised" /\ place' = "next"
  /\ UNCHANGED <<sensorVars, index, processed, readings, offset, zero, since, sample>>

\* The step a call in progress takes.
DriverStep ==
  \/ SendFeature \/ FeatureEnabled \/ FeatureMissing
  \/ SkipPacket \/ HandlePacket \/ PacketRaises \/ EndPump
  \/ CaptureTime \/ PickValue \/ SetOffset \/ ValueMissing

DriverInit ==
  /\ quiet = FALSE /\ fifo = <<>> /\ reports = <<>> /\ enabled = {}
  /\ call = "none" /\ place = "next" /\ index = 1 /\ processed = 0
  /\ readings = NoReading /\ offset = 0 /\ zero = 0 /\ since = 0 /\ sample = NoSample

-----------------------------------------------------------------------------
Sampled == call = "ready" /\ sample # NoSample

DriverTypeOK ==
  /\ quiet \in BOOLEAN /\ enabled \subseteq FeatureSet
  /\ fifo \in Seq(Packets)
  /\ reports \in Seq([feature : FeatureSet, yaw : Yaws])
  /\ call \in {"none", "ready", "raised", "enable", "read", "tare"}
  /\ place \in {"next", "pump", "pumped"} /\ index \in 0..Len(Features) /\ processed \in Nat
  /\ readings \in [FeatureSet -> 0..Len(reports)]
  /\ offset \in Int /\ zero \in 0..Len(reports) /\ since \in 0..Len(reports)
  /\ sample \in [from : [FeatureSet -> 0..Len(reports)], yaw : Int]

\* Every value of a sample is from the newest report of its feature that the sensor had
\* queued when read_data was called, or from a newer one, and so is the orientation that
\* tare has just zeroed: junk among the packets hides no report from the values behind it.
SampleIsFresh ==
  /\ Sampled => \A n \in 1..since : n <= sample.from[reports[n].feature]
  /\ call = "ready" /\ ~Sampled /\ zero # 0
       => \A n \in 1..since : reports[n].feature = Rotation => n <= zero

\* A sample made from the report that was tared has yaw 0, and every yaw is in range.
TaredReadsZero ==
  Sampled =>
    /\ sample.yaw \in -180..179
    /\ zero # 0 /\ sample.from[Rotation] = zero => sample.yaw = 0
=============================================================================
