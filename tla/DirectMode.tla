------------------------------ MODULE DirectMode ------------------------------
(***************************************************************************)
(* python -m imu: one process that reads the sensor itself, or the file of *)
(* recorded samples with -t, and records what it reads; -u shows it on the *)
(* screen and --tare or AUTO_TARE zeroes the orientation first.  Nothing   *)
(* is caught here: whatever fails ends the process, through the writer's   *)
(* with statement.                                                         *)
(***************************************************************************)
EXTENDS BNO08X, DataWriter

CONSTANTS
  FileLines,  \* the lines of the file of recorded samples
  MaxRows     \* bound of the model: rows that are recorded

ASSUME FileAssumption == FileLines \in Nat \ {0} /\ MaxRows \in Nat

VARIABLES
  mode,     \* the options -t, -u and --tare
  step,     \* where the process is
  line,     \* the line of the file that was read last, 0 at its beginning
  counter,  \* the driver's sample counter
  data      \* the sample in hand: its counter and what it was made from

vars == <<sensorVars, driverVars, writerVars, broker, mode, step, line, counter, data>>

Goto(s) == step' = s /\ UNCHANGED mode

\* The driver's call has returned.
Returned == mode.test \/ call = "ready"

-----------------------------------------------------------------------------
(* Start *)

GetConn ==
  /\ step = "connect"
  /\ IF mode.test THEN UNCHANGED <<sensorVars, driverVars>> ELSE Connect
  /\ Goto("connected")
  /\ UNCHANGED <<writerVars, broker, line, counter, data>>

\* The fake driver has no tare.
MaybeTare ==
  /\ step = "connected" /\ Returned
  /\ IF mode.tare /\ ~mode.test THEN Tare ELSE UNCHANGED <<sensorVars, driverVars>>
  /\ Goto(IF mode.ui THEN "key" ELSE "open")
  /\ UNCHANGED <<writerVars, broker, line, counter, data>>

\* Press any key to start capturing data
PressKey ==
  /\ step = "key" /\ Returned /\ Goto("open")
  /\ UNCHANGED <<sensorVars, driverVars, writerVars, broker, line, counter, data>>

OpenWriter ==
  /\ step = "open" /\ Returned
  /\ Enter /\ Goto("read")
  /\ UNCHANGED <<sensorVars, driverVars, broker, line, counter, data>>

-----------------------------------------------------------------------------
(* The loops of readings.py *)

NextCounter == counter' = counter + 1

\* Where a sample goes first.
Recorded == IF mode.ui THEN "show" ELSE "write"

\* Mutant: the first line is taken for a header.
ReadFakeAfterHeader ==
  /\ step = "read" /\ mode.test /\ Len(rows) < MaxRows
  /\ line' = IF line = FileLines THEN 2 ELSE line + 1
  /\ NextCounter /\ data' = [counter |-> counter, source |-> line']
  /\ Goto(Recorded)
  /\ UNCHANGED <<sensorVars, driverVars, writerVars, broker>>

\* Mutant: the end of the file is not looked for.
ReadFakePastEnd ==
  /\ step = "read" /\ mode.test /\ Len(rows) < MaxRows
  /\ line' = line + 1
  /\ NextCounter /\ data' = [counter |-> counter, source |-> line']
  /\ Goto(Recorded)
  /\ UNCHANGED <<sensorVars, driverVars, writerVars, broker>>

\* At the end of the file reading starts again at its first line.
ReadFake ==
  /\ step = "read" /\ mode.test /\ Len(rows) < MaxRows
  /\ line' = IF line = FileLines THEN 1 ELSE line + 1
  /\ NextCounter /\ data' = [counter |-> counter, source |-> line']
  /\ Goto(Recorded)
  /\ UNCHANGED <<sensorVars, driverVars, writerVars, broker>>

ReadReal ==
  /\ step = "read" /\ ~mode.test /\ Len(rows) < MaxRows
  /\ ReadData /\ Goto("reading")
  /\ UNCHANGED <<writerVars, broker, line, counter, data>>

GotReal ==
  /\ step = "reading" /\ Returned
  /\ NextCounter /\ data' = [counter |-> counter, source |-> sample.from[Rotation]]
  /\ Goto(Recorded)
  /\ UNCHANGED <<sensorVars, driverVars, writerVars, broker, line>>

Show ==
  /\ step = "show" /\ Goto("write")
  /\ UNCHANGED <<sensorVars, driverVars, writerVars, broker, line, counter, data>>

Write ==
  /\ step = "write" /\ OutputToCsv(data) /\ Goto("mqtt")
  /\ UNCHANGED <<sensorVars, driverVars, broker, line, counter, data>>

\* After it the loop spins until the next tick of its timer.
Publish ==
  /\ step = "mqtt" /\ (OutputMqtt(data) \/ SkipMqtt)
  /\ Goto("read")
  /\ UNCHANGED <<sensorVars, driverVars, broker, line, counter, data>>

\* Mutant: a publication that fails is ignored.
PublishIgnored ==
  /\ step = "mqtt" /\ PublishRaises /\ Goto("read")
  /\ UNCHANGED <<sensorVars, driverVars, broker, line, counter, data>>

\* The exception ends the loop.
PublishFails ==
  /\ step = "mqtt" /\ PublishRaises /\ Goto("raised")
  /\ UNCHANGED <<sensorVars, driverVars, broker, line, counter, data>>

\* The driver has raised, curses has (on a screen that is too small), or Ctrl-C was
\* pressed, at any place.  Before the writer is entered there is nothing to leave.
Raise ==
  /\ step \notin {"raised", "ended"}
  /\ Goto(IF step \in {"connect", "connected", "key", "open"} THEN "ended" ELSE "raised")
  /\ UNCHANGED <<sensorVars, driverVars, writerVars, broker, line, counter, data>>

\* Mutant: the file is closed on the way out of the loop only.
LeaveWriterOpen ==
  /\ step = "raised" /\ Goto("ended")
  /\ UNCHANGED <<writerVars, sensorVars, driverVars, broker, line, counter, data>>

LeaveWriter ==
  /\ step = "raised" /\ Exit /\ Goto("ended")
  /\ UNCHANGED <<sensorVars, driverVars, broker, line, counter, data>>

Main ==
  \/ GetConn \/ MaybeTare \/ PressKey \/ OpenWriter
  \/ ReadFake \/ ReadReal \/ GotReal
  \/ Show \/ Write \/ Publish \/ PublishFails \/ Raise \/ LeaveWriter

-----------------------------------------------------------------------------
Driver ==
  /\ step \in {"connected", "key", "open", "reading"} /\ DriverStep
  /\ UNCHANGED <<writerVars, broker, mode, step, line, counter, data>>

Environment ==
  \/ /\ ~mode.test /\ step # "ended" /\ Sensor
     /\ UNCHANGED <<writerVars, broker, mode, step, line, counter, data>>
  \/ /\ step # "ended" /\ FlushBuffer
     /\ UNCHANGED <<sensorVars, driverVars, broker, mode, step, line, counter, data>>
  \/ /\ broker' = ~broker
     /\ UNCHANGED <<sensorVars, driverVars, writerVars, mode, step, line, counter, data>>

Init ==
  /\ DriverInit /\ WriterInit
  /\ mode \in [test : BOOLEAN, ui : BOOLEAN, tare : BOOLEAN]
  /\ step = "connect" /\ line = 0 /\ counter = 0 /\ data = [counter |-> 0, source |-> 0]

Next == Main \/ Driver \/ Environment

Spec == Init /\ [][Next]_vars /\ WF_vars(Driver)

-----------------------------------------------------------------------------
TypeOK ==
  /\ DriverTypeOK
  /\ mode \in [test : BOOLEAN, ui : BOOLEAN, tare : BOOLEAN]
  /\ step \in {"connect", "connected", "key", "open", "read", "reading", "show", "write",
               "mqtt", "raised", "ended"}
  /\ line \in 0..FileLines /\ counter \in Nat /\ data \in [counter : Nat, source : Nat]
  /\ rows \in Seq([counter : Nat, source : Nat])
  /\ published \in Seq([counter : Nat, source : Nat])
  /\ saved \in 0..Len(rows) /\ {mqttClient, broker} \subseteq BOOLEAN

\* The rows are numbered from 0 with no gap, and each holds the sample that was read for
\* it: of the file the lines in turn, over and over; of the sensor never an older one.
RowsFollowDriver ==
  \A i \in 1..Len(rows) :
    /\ rows[i].counter = i - 1
    /\ IF mode.test THEN rows[i].source = ((i - 1) % FileLines) + 1
       ELSE i > 1 => rows[i].source >= rows[i - 1].source

\* The MQTT client, if there is one, has been given what is in the file, but for the last
\* row at most.
OutputsAgree ==
  mqttClient =>
    /\ Len(published) \in {Len(rows), Len(rows) - 1}
    /\ published = SubSeq(rows, 1, Len(published))

\* Whatever exception ends the process, its rows are on disk.
EndedMeansSaved == step = "ended" => saved = Len(rows)

\* Once the sensor has nothing more to say, the driver's call in progress ends; in the
\* service it holds _imu_lock.  While packets come as fast as they are read it need not.
QuietEndsCall == quiet ~> Returned \/ call \in {"none", "raised"} \/ step \in {"raised", "ended"}
=============================================================================
