--------------------------- MODULE DirectMode_proofs ---------------------------
(***************************************************************************)
(* Proofs of the invariants of DirectMode, for any features and            *)
(* orientations of the sensor and a file of any length.                    *)
(***************************************************************************)
EXTENDS DirectMode, BNO08X_proofs

Samples == [counter : Nat, source : Nat]

Before == step \in {"connect", "connected", "key", "open"}
InHand == step \in {"show", "write"}

(***************************************************************************)
(* The inductive invariant, part by part.                                  *)
(***************************************************************************)

MainOK ==
  /\ mode \in [test : BOOLEAN, ui : BOOLEAN, tare : BOOLEAN]
  /\ step \in {"connect", "connected", "key", "open", "read", "reading", "show", "write",
               "mqtt", "raised", "ended"}
  /\ line \in 0..FileLines /\ counter \in Nat /\ data \in Samples

WriterOK ==
  /\ rows \in Seq(Samples) /\ published \in Seq(Samples)
  /\ saved \in 0..Len(rows)
  /\ mqttClient \in BOOLEAN /\ broker \in BOOLEAN

\* Up to the publication of a row, the last one, the two outputs are equal.
PublishedInv ==
  /\ Before => rows = <<>> /\ saved = 0 /\ ~mqttClient
  /\ step = "mqtt" => rows # <<>> /\ rows[Len(rows)] = data
  /\ mqttClient =>
       /\ \/ Len(published) = Len(rows) /\ step # "mqtt"
          \/ Len(published) = Len(rows) - 1 /\ step \in {"mqtt", "raised", "ended"}
       /\ \A i \in 1..Len(published) : published[i] = rows[i]

\* The counter is the number of rows and of the sample in hand.
CounterInv ==
  /\ \A i \in 1..Len(rows) : rows[i].counter = i - 1
  /\ InHand => data.counter = Len(rows) /\ counter = Len(rows) + 1
  /\ Before \/ step \in {"read", "reading", "mqtt"} => counter = Len(rows)

\* The lines of the file in turn, and the last one read.
LineOf(n) == ((n - 1) % FileLines) + 1

FileInv ==
  mode.test =>
    /\ \A i \in 1..Len(rows) : rows[i].source = LineOf(i)
    /\ line = IF counter = 0 THEN 0 ELSE LineOf(counter)
    /\ InHand => data.source = line
    /\ step # "reading"

\* The sensor's reports: a row is never newer than the driver's reading, and the sample in
\* hand was made from just that reading.
SensorInv ==
  ~mode.test =>
    /\ \A i \in 1..Len(rows) : i > 1 => rows[i].source >= rows[i - 1].source
    /\ rows # <<>> => rows[Len(rows)].source <= readings[Rotation]
    /\ step = "reading" => call \in {"read", "ready", "raised"}
    /\ step = "reading" /\ call = "ready" => sample.from[Rotation] = readings[Rotation]
    /\ InHand => data.source = readings[Rotation]

IInv ==
  /\ DriverInv /\ MainOK /\ WriterOK
  /\ PublishedInv /\ EndedMeansSaved /\ CounterInv /\ FileInv /\ SensorInv

-----------------------------------------------------------------------------
(* Counting modulo the length of the file *)

LEMMA DivisionBy ==
  ASSUME NEW m \in Nat \ {0}, NEW n \in Nat
  PROVE  n % m \in 0..(m - 1) /\ n \div m \in Int /\ n = m * (n \div m) + (n % m)
<1>1. n % m \in 0..(m - 1)
  OBVIOUS
<1>2. n \div m \in Int
  OBVIOUS
<1>3. n = m * (n \div m) + (n % m)
  BY SMTT(20)
<1> QED BY <1>1, <1>2, <1>3

LEMMA RemainderIsOne ==
  ASSUME NEW m \in Nat \ {0}, NEW q \in Int, NEW p \in Int,
         NEW r \in 0..(m - 1), NEW s \in 0..(m - 1),
         m * q + r = m * p + s
  PROVE  r = s
<1>1. q = p \/ q >= p + 1 \/ p >= q + 1
  OBVIOUS
<1>2. CASE q = p
  BY <1>2
<1>3. CASE q >= p + 1
  <2>1. m * (q - p - 1) \in Nat
    BY <1>3
  <2>2. m * (q - p) >= m
    BY <1>3, <2>1
  <2> QED BY <2>2, <1>3
<1>4. CASE p >= q + 1
  <2>1. m * (p - q - 1) \in Nat
    BY <1>4
  <2>2. m * (p - q) >= m
    BY <1>4, <2>1
  <2> QED BY <2>2, <1>4
<1> QED BY <1>1, <1>2, <1>3, <1>4

LEMMA NextRemainder ==
  ASSUME NEW m \in Nat \ {0}, NEW n \in Nat
  PROVE  (n + 1) % m = IF (n % m) = m - 1 THEN 0 ELSE (n % m) + 1
<1> DEFINE q == n \div m
<1> DEFINE r == n % m
<1> DEFINE p == (n + 1) \div m
<1> DEFINE s == (n + 1) % m
<1>1. r \in 0..(m - 1) /\ q \in Int /\ n = m * q + r
  BY DivisionBy
<1>2. s \in 0..(m - 1) /\ p \in Int /\ n + 1 = m * p + s
  BY DivisionBy
<1> HIDE DEF q, r, p, s
<1>3. CASE r = m - 1
  <2>1. m * (q + 1) + 0 = m * p + s
    BY <1>1, <1>2, <1>3
  <2>2. 0 = s
    BY <1>2, <1>1, <2>1, RemainderIsOne
  <2> QED BY <1>3, <2>2 DEF r, s
<1>4. CASE r # m - 1
  <2>1. r + 1 \in 0..(m - 1) /\ m * q + (r + 1) = m * p + s
    BY <1>1, <1>2, <1>4
  <2>2. r + 1 = s
    BY <1>2, <1>1, <2>1, RemainderIsOne
  <2> QED BY <1>4, <2>2 DEF r, s
<1> QED BY <1>3, <1>4

-----------------------------------------------------------------------------
LEMMA RowFacts ==
  ASSUME WriterOK
  PROVE  /\ Len(rows) \in Nat /\ Len(published) \in Nat
         /\ (rows = <<>> <=> Len(rows) = 0)
BY LenFacts DEF WriterOK

\* The two outputs only ever grow at their end.
LEMMA OutputFacts ==
  ASSUME WriterOK, NEW s \in Samples
  PROVE  /\ Append(rows, s) \in Seq(Samples) /\ Len(Append(rows, s)) = Len(rows) + 1
         /\ \A i \in 1..Len(rows) : Append(rows, s)[i] = rows[i]
         /\ Append(rows, s)[Len(rows) + 1] = s
         /\ Append(published, s) \in Seq(Samples)
         /\ Len(Append(published, s)) = Len(published) + 1
         /\ \A i \in 1..Len(published) : Append(published, s)[i] = published[i]
         /\ Append(published, s)[Len(published) + 1] = s
BY AppendFacts DEF WriterOK

-----------------------------------------------------------------------------
(* The driver under this process *)

LEMMA DriverPart == IInv /\ [Next]_vars => DriverInv'
<1> SUFFICES ASSUME IInv, [Next]_vars PROVE DriverInv'
  OBVIOUS
<1>1. DriverInv
  BY DEF IInv
<1>2. \/ Connect \/ ReadData \/ Tare \/ DriverStep \/ Sensor
      \/ UNCHANGED <<sensorVars, driverVars>>
  BY DEF Next, vars, Main, Driver, Environment, GetConn, MaybeTare, PressKey, OpenWriter,
     ReadFake, ReadReal, GotReal, Show, Write, Publish, PublishFails, Raise, LeaveWriter
<1> QED BY <1>1, <1>2, BeginStep, DriverStepInv, SensorStep, DriverUnchanged

-----------------------------------------------------------------------------
(* Types *)

LEMMA MainPart == IInv /\ [Next]_vars => MainOK'
<1> SUFFICES ASSUME IInv, [Next]_vars PROVE MainOK'
  OBVIOUS
<1>1. MainOK /\ DriverTypeOK
  BY DEF IInv, DriverInv
<1>2. CASE ReadFake
  <2>1. line' \in 1..FileLines /\ line' \in Nat
    BY <1>1, <1>2, FileAssumption DEF ReadFake, MainOK
  <2>2. counter' \in Nat /\ data' \in Samples
    BY <1>1, <1>2, <2>1 DEF ReadFake, NextCounter, MainOK, Samples
  <2> QED BY <1>1, <1>2, <2>1, <2>2 DEF ReadFake, Goto, Recorded, MainOK
<1>3. CASE GotReal
  <2>1. sample.from[Rotation] \in 0..Len(reports) /\ Len(reports) \in Nat
    BY <1>1, FeatureFacts, LenFacts DEF DriverTypeOK
  <2>2. counter' \in Nat /\ data' \in Samples
    BY <1>1, <1>3, <2>1 DEF GotReal, NextCounter, MainOK, Samples
  <2> QED BY <1>1, <1>3, <2>2 DEF GotReal, Goto, Recorded, MainOK
<1>4. CASE ~ReadFake /\ ~GotReal
  <2>1. UNCHANGED <<mode, line, counter, data>>
    BY <1>4 DEF Next, vars, Main, Driver, Environment, GetConn, MaybeTare, PressKey,
       OpenWriter, ReadReal, Show, Write, Publish, PublishFails, Raise, LeaveWriter, Goto
  <2>2. step' = step \/ step' \in {"connected", "key", "open", "read", "reading", "write",
                                   "mqtt", "raised", "ended"}
    BY <1>4 DEF Next, vars, Main, Driver, Environment, GetConn, MaybeTare, PressKey,
       OpenWriter, ReadReal, Show, Write, Publish, PublishFails, Raise, LeaveWriter, Goto
  <2> QED BY <1>1, <2>1, <2>2 DEF MainOK
<1> QED BY <1>2, <1>3, <1>4

\* Which steps change what the writer holds.
LEMMA WriterMoves ==
  ASSUME [Next]_vars
  PROVE  \/ UNCHANGED writerVars
         \/ OpenWriter
         \/ Write
         \/ Publish
         \/ LeaveWriter
         \/ FlushBuffer /\ step # "ended" /\ UNCHANGED <<step, data, counter>>
BY DEF Next, vars, Main, Driver, Environment, GetConn, MaybeTare, PressKey, ReadFake, ReadReal,
   GotReal, Show, PublishFails, PublishRaises, Raise

LEMMA WriterPart == IInv /\ [Next]_vars => WriterOK'
<1> SUFFICES ASSUME IInv, [Next]_vars PROVE WriterOK'
  OBVIOUS
<1>1. WriterOK /\ data \in Samples /\ Len(rows) \in Nat
  BY RowFacts DEF IInv, MainOK
<1>2. broker' \in BOOLEAN
  BY <1>1 DEF WriterOK, Next, vars, Main, Driver, Environment, GetConn, MaybeTare, PressKey,
     OpenWriter, ReadFake, ReadReal, GotReal, Show, Write, Publish, PublishFails, Raise,
     LeaveWriter, PublishRaises, writerVars, OutputMqtt, SkipMqtt, Enter, OutputToCsv, Exit,
     FlushBuffer
<1>3. CASE UNCHANGED writerVars
  BY <1>1, <1>2, <1>3 DEF WriterOK, writerVars
<1>4. CASE OpenWriter
  <2>1. rows' = <<>> /\ published' = <<>> /\ saved' = 0 /\ mqttClient' = broker
    BY <1>4 DEF OpenWriter, Enter, ConnectMqtt
  <2>2. <<>> \in Seq(Samples) /\ Len(<<>>) = 0
    BY EmptySeq
  <2> QED BY <1>1, <1>2, <2>1, <2>2 DEF WriterOK
<1>5. CASE Write
  BY <1>1, <1>2, <1>5, OutputFacts DEF WriterOK, Write, OutputToCsv
<1>6. CASE Publish
  BY <1>1, <1>2, <1>6, OutputFacts DEF WriterOK, Publish, OutputMqtt, SkipMqtt, writerVars
<1>7. CASE LeaveWriter
  <2>1. /\ UNCHANGED <<rows, published>> /\ mqttClient' = FALSE
        /\ saved' = Len(rows) /\ saved' \in 0..Len(rows)
    BY <1>1, <1>7 DEF LeaveWriter, Exit
  <2> QED BY <1>1, <1>2, <2>1 DEF WriterOK
<1>8. CASE FlushBuffer
  BY <1>1, <1>2, <1>8 DEF WriterOK, FlushBuffer
<1> QED BY <1>3, <1>4, <1>5, <1>6, <1>7, <1>8, WriterMoves

-----------------------------------------------------------------------------
(* The two outputs *)

\* The steps that leave the writer alone.
LEMMA CalmPart ==
  ASSUME IInv, [Next]_vars, UNCHANGED writerVars
  PROVE  PublishedInv' /\ EndedMeansSaved'
<1> USE DEF IInv, writerVars
<1>1. UNCHANGED <<rows, saved, published, mqttClient>>
  OBVIOUS
<1>2. \A s \in Samples : Append(rows, s) # rows /\ Append(published, s) # published
  <2> SUFFICES ASSUME NEW s \in Samples
               PROVE  Append(rows, s) # rows /\ Append(published, s) # published
    OBVIOUS
  <2> QED BY OutputFacts, RowFacts
<1>3. data \in Samples
  BY DEF MainOK
<1>4. ~Write /\ ~(\E s \in Samples : OutputMqtt(s))
  BY <1>1, <1>2, <1>3 DEF Write, OutputToCsv, OutputMqtt
<1>5. Before' => Before
  BY DEF Before, Next, vars, Main, Driver, Environment, GetConn, MaybeTare, PressKey, OpenWriter,
     ReadFake, ReadReal, GotReal, Show, Write, Publish, PublishFails, Raise, LeaveWriter, Goto,
     Recorded
<1>6. step' = "mqtt" => step = "mqtt" /\ UNCHANGED data
  BY <1>4 DEF Next, vars, Main, Driver, Environment, GetConn, MaybeTare, PressKey, OpenWriter,
     ReadFake, ReadReal, GotReal, Show, Publish, PublishFails, Raise, LeaveWriter, Goto, Recorded
<1>7. step = "mqtt" /\ mqttClient => step' \in {"mqtt", "raised"}
  BY <1>3, <1>4 DEF Next, vars, Main, Driver, Environment, GetConn, MaybeTare, PressKey,
     OpenWriter, ReadFake, ReadReal, GotReal, Show, Publish, SkipMqtt, PublishFails, Raise,
     LeaveWriter, Goto
<1>8. step \in {"raised", "ended"} => step' \in {"raised", "ended"}
  BY <1>4 DEF Next, vars, Main, Driver, Environment, GetConn, MaybeTare, PressKey, OpenWriter,
     ReadFake, ReadReal, GotReal, Show, Publish, PublishFails, Raise, LeaveWriter, Goto
<1>9. step' = "ended" => step = "ended" \/ Before \/ saved' = Len(rows)
  BY <1>4 DEF Before, Next, vars, Main, Driver, Environment, GetConn, MaybeTare, PressKey,
     OpenWriter, ReadFake, ReadReal, GotReal, Show, Publish, PublishFails, Raise, LeaveWriter,
     Goto, Recorded, Exit
<1>10. EndedMeansSaved'
  BY <1>1, <1>9, RowFacts DEF EndedMeansSaved, PublishedInv
<1>11. PublishedInv'
  <2>1. (Before => rows = <<>> /\ saved = 0 /\ ~mqttClient)'
    BY <1>1, <1>5 DEF PublishedInv
  <2>2. (step = "mqtt" => rows # <<>> /\ rows[Len(rows)] = data)'
    BY <1>1, <1>6 DEF PublishedInv
  <2>3. mqttClient' => \/ Len(published') = Len(rows') /\ step' # "mqtt"
                       \/ /\ Len(published') = Len(rows') - 1
                          /\ step' \in {"mqtt", "raised", "ended"}
    BY <1>1, <1>6, <1>7, <1>8 DEF PublishedInv
  <2>4. mqttClient' => \A i \in 1..Len(published') : published'[i] = rows'[i]
    BY <1>1 DEF PublishedInv
  <2> QED BY <2>1, <2>2, <2>3, <2>4 DEF PublishedInv
<1> QED BY <1>10, <1>11

LEMMA OutputPart == IInv /\ [Next]_vars => PublishedInv' /\ EndedMeansSaved'
<1> SUFFICES ASSUME IInv, [Next]_vars PROVE PublishedInv' /\ EndedMeansSaved'
  OBVIOUS
<1> USE DEF IInv
<1>1. data \in Samples /\ Len(rows) \in Nat /\ Len(published) \in Nat
  BY RowFacts DEF MainOK
<1>2. CASE UNCHANGED writerVars
  BY <1>2, CalmPart
<1>3. CASE OpenWriter
  <2>1. rows' = <<>> /\ published' = <<>> /\ step' = "read"
    BY <1>3 DEF OpenWriter, Enter, Goto
  <2>2. Len(<<>>) = 0
    BY EmptySeq
  <2> QED BY <2>1, <2>2 DEF PublishedInv, EndedMeansSaved, Before
<1>4. CASE Write
  <2>1. /\ step = "write" /\ step' = "mqtt" /\ rows' = Append(rows, data)
        /\ UNCHANGED <<published, mqttClient, data>>
    BY <1>4 DEF Write, OutputToCsv, Goto
  <2>2. /\ Len(rows') = Len(rows) + 1 /\ rows'[Len(rows) + 1] = data
        /\ \A i \in 1..Len(rows) : rows'[i] = rows[i]
    BY <1>1, <2>1, OutputFacts
  <2>3. rows' # <<>> /\ rows'[Len(rows')] = data'
    BY <1>1, <2>1, <2>2, EmptySeq
  <2>4. mqttClient => Len(published) = Len(rows)
    BY <2>1 DEF PublishedInv
  <2>5. mqttClient => \A i \in 1..Len(published) : published[i] = rows[i]
    BY DEF PublishedInv
  <2> QED BY <1>1, <2>1, <2>2, <2>3, <2>4, <2>5 DEF PublishedInv, EndedMeansSaved, Before
<1>5. CASE Publish
  <2>1. CASE SkipMqtt
    BY <1>2, <2>1 DEF SkipMqtt
  <2>2. CASE OutputMqtt(data)
    <3>1. /\ step = "mqtt" /\ step' = "read" /\ published' = Append(published, data)
          /\ UNCHANGED <<rows, mqttClient>> /\ mqttClient
      BY <1>5, <2>2 DEF Publish, OutputMqtt, Goto
    <3>2. /\ Len(published') = Len(published) + 1 /\ published'[Len(published) + 1] = data
          /\ \A i \in 1..Len(published) : published'[i] = published[i]
      BY <1>1, <3>1, OutputFacts
    <3>3. Len(published) = Len(rows) - 1 /\ rows[Len(rows)] = data
      BY <3>1 DEF PublishedInv
    <3>4. \A i \in 1..Len(published) : published[i] = rows[i]
      BY <3>1 DEF PublishedInv
    <3>5. \A i \in 1..Len(published') : published'[i] = rows'[i]
      BY <1>1, <3>1, <3>2, <3>3, <3>4
    <3> QED BY <1>1, <3>1, <3>2, <3>3, <3>5 DEF PublishedInv, EndedMeansSaved, Before
  <2> QED BY <1>5, <2>1, <2>2 DEF Publish
<1>6. CASE LeaveWriter
  BY <1>6 DEF LeaveWriter, Exit, Goto, PublishedInv, EndedMeansSaved, Before
<1>7. CASE FlushBuffer /\ step # "ended" /\ UNCHANGED <<step, data, counter>>
  <2>1. saved' \in (saved + 1)..Len(rows) /\ UNCHANGED <<rows, published, mqttClient>>
    BY <1>7 DEF FlushBuffer
  <2>2. ~Before
    BY <1>1, <2>1, RowFacts DEF PublishedInv
  <2> QED BY <1>7, <2>1, <2>2 DEF PublishedInv, EndedMeansSaved, Before
<1> QED BY <1>2, <1>3, <1>4, <1>5, <1>6, <1>7, WriterMoves

-----------------------------------------------------------------------------
(* The numbers of the rows *)

\* Whatever a step does, it leaves the rows alone or appends the sample in hand.
LEMMA RowsMove ==
  ASSUME IInv, [Next]_vars
  PROVE  \/ UNCHANGED rows
         \/ /\ step = "write" /\ step' = "mqtt" /\ UNCHANGED <<data, counter, line, mode>>
            /\ Len(rows') = Len(rows) + 1 /\ rows'[Len(rows) + 1] = data
            /\ \A i \in 1..Len(rows) : rows'[i] = rows[i]
<1>1. CASE OpenWriter
  BY <1>1 DEF IInv, PublishedInv, Before, OpenWriter, Enter
<1>2. CASE Write
  <2>1. data \in Samples /\ WriterOK
    BY DEF IInv, MainOK
  <2>2. /\ step = "write" /\ step' = "mqtt" /\ UNCHANGED <<data, counter, line, mode>>
        /\ rows' = Append(rows, data)
    BY <1>2 DEF Write, OutputToCsv, Goto
  <2> QED BY <2>1, <2>2, OutputFacts
<1>3. CASE ~OpenWriter /\ ~Write
  BY <1>3, WriterMoves DEF writerVars, Publish, OutputMqtt, SkipMqtt, LeaveWriter, Exit,
     FlushBuffer
<1> QED BY <1>1, <1>2, <1>3

\* How the counter and the sample in hand follow the steps of the loop.
LEMMA CounterMoves ==
  ASSUME [Next]_vars
  PROVE  \/ /\ step \in {"read", "reading"} /\ step' \in {"show", "write"}
            /\ counter' = counter + 1 /\ data'.counter = counter
         \/ /\ UNCHANGED <<counter, data>>
            /\ \/ step' = step \/ step' \in {"raised", "ended"}
               \/ Before /\ step' \in {"connected", "key", "open", "read"}
               \/ step = "read" /\ step' = "reading"
               \/ step = "show" /\ step' = "write"
               \/ step = "write" /\ step' = "mqtt" /\ Write
               \/ step = "mqtt" /\ step' = "read"
BY DEF Before, Next, vars, Main, Driver, Environment, GetConn, MaybeTare, PressKey, OpenWriter,
   ReadFake, ReadReal, GotReal, NextCounter, Show, Write, Publish, PublishFails, Raise,
   LeaveWriter, Goto, Recorded

LEMMA CounterPart == IInv /\ [Next]_vars => CounterInv'
<1> SUFFICES ASSUME IInv, [Next]_vars PROVE CounterInv'
  OBVIOUS
<1>1. Len(rows) \in Nat /\ counter \in Nat
  BY RowFacts DEF IInv, MainOK
<1>2. CASE Write
  <2>1. /\ step = "write" /\ step' = "mqtt" /\ UNCHANGED <<data, counter>>
        /\ rows' = Append(rows, data)
    BY <1>2 DEF Write, OutputToCsv, Goto
  <2>2. /\ Len(rows') = Len(rows) + 1 /\ rows'[Len(rows) + 1] = data
        /\ \A i \in 1..Len(rows) : rows'[i] = rows[i]
    BY <2>1, OutputFacts DEF IInv, MainOK
  <2>3. data.counter = Len(rows) /\ counter = Len(rows) + 1
    BY <2>1 DEF IInv, CounterInv, InHand
  <2> QED BY <1>1, <2>1, <2>2, <2>3 DEF IInv, CounterInv, InHand, Before
<1>3. CASE ~Write
  <2>1. UNCHANGED rows
    <3>1. CASE OpenWriter
      BY <3>1 DEF IInv, PublishedInv, Before, OpenWriter, Enter
    <3>2. CASE ~OpenWriter
      BY <1>3, <3>2, WriterMoves DEF writerVars, Publish, OutputMqtt, SkipMqtt, LeaveWriter,
         Exit, FlushBuffer
    <3> QED BY <3>1, <3>2
  <2>2. (\A i \in 1..Len(rows) : rows[i].counter = i - 1)'
    BY <2>1 DEF IInv, CounterInv
  <2>3. (InHand => data.counter = Len(rows) /\ counter = Len(rows) + 1)'
    BY <1>1, <1>3, <2>1, CounterMoves DEF IInv, CounterInv, InHand, Before
  <2>4. (Before \/ step \in {"read", "reading", "mqtt"} => counter = Len(rows))'
    BY <1>1, <1>3, <2>1, CounterMoves DEF IInv, CounterInv, InHand, Before
  <2> QED BY <2>2, <2>3, <2>4 DEF CounterInv
<1> QED BY <1>2, <1>3

-----------------------------------------------------------------------------
(* What the rows hold *)

LEMMA LineFacts ==
  /\ LineOf(1) = 1
  /\ \A n \in Nat \ {0} :
       /\ LineOf(n) \in 1..FileLines
       /\ LineOf(n + 1) = IF LineOf(n) = FileLines THEN 1 ELSE LineOf(n) + 1
<1>1. FileLines \in Nat \ {0}
  BY FileAssumption
<1>2. LineOf(1) = 1
  <2>1. (1 - 1) % FileLines \in 0..(FileLines - 1) /\ FileLines * 0 + 0 = 0
    BY <1>1, DivisionBy
  <2>2. 0 % FileLines \in 0..(FileLines - 1) /\ 0 \div FileLines \in Int
        /\ FileLines * 0 + 0 = FileLines * (0 \div FileLines) + (0 % FileLines)
    BY <1>1, DivisionBy
  <2>3. 0 = 0 % FileLines
    BY <1>1, <2>2, RemainderIsOne
  <2> QED BY <2>3 DEF LineOf
<1>3. ASSUME NEW n \in Nat \ {0}
      PROVE  /\ LineOf(n) \in 1..FileLines
             /\ LineOf(n + 1) = IF LineOf(n) = FileLines THEN 1 ELSE LineOf(n) + 1
  <2>1. n - 1 \in Nat /\ (n - 1) + 1 = n /\ (n + 1) - 1 = n
    OBVIOUS
  <2>2. (n - 1) % FileLines \in 0..(FileLines - 1)
    BY <1>1, <2>1, DivisionBy
  <2>3. n % FileLines = IF (n - 1) % FileLines = FileLines - 1 THEN 0
                        ELSE ((n - 1) % FileLines) + 1
    BY <1>1, <2>1, NextRemainder
  <2> QED BY <1>1, <2>1, <2>2, <2>3 DEF LineOf
<1> QED BY <1>2, <1>3

LEMMA ModeStays == [Next]_vars => UNCHANGED mode
BY DEF Next, vars, Main, Driver, Environment, GetConn, MaybeTare, PressKey, OpenWriter, ReadFake,
   ReadReal, GotReal, Show, Write, Publish, PublishFails, Raise, LeaveWriter, Goto

LEMMA FilePart == IInv /\ [Next]_vars => FileInv'
<1> SUFFICES ASSUME IInv, [Next]_vars, mode.test
             PROVE  FileInv'
  BY ModeStays DEF FileInv
<1>1. Len(rows) \in Nat /\ counter \in Nat /\ UNCHANGED mode
  BY RowFacts, ModeStays DEF IInv, MainOK
<1>2. /\ \A i \in 1..Len(rows) : rows[i].source = LineOf(i)
      /\ line = IF counter = 0 THEN 0 ELSE LineOf(counter)
      /\ InHand => data.source = line
      /\ step # "reading"
  BY DEF IInv, FileInv
<1>3. CASE ReadFake
  <2>1. /\ line' = (IF line = FileLines THEN 1 ELSE line + 1) /\ counter' = counter + 1
        /\ data'.source = line' /\ UNCHANGED rows /\ step' # "reading"
    BY <1>3 DEF ReadFake, NextCounter, writerVars, Goto, Recorded
  <2>2. line' = LineOf(counter + 1)
    <3>1. CASE counter = 0
      <4>1. line = 0 /\ LineOf(counter + 1) = 1 /\ FileLines # 0
        BY <1>2, <3>1, LineFacts, FileAssumption
      <4> QED BY <2>1, <4>1
    <3>2. CASE counter # 0
      <4>1. line = LineOf(counter) /\ counter \in Nat \ {0}
        BY <1>1, <1>2, <3>2
      <4> QED BY <2>1, <4>1, LineFacts
    <3> QED BY <3>1, <3>2
  <2> QED BY <1>1, <1>2, <2>1, <2>2 DEF FileInv
<1>4. CASE ~ReadFake
  <2>1. UNCHANGED <<line, counter, data>>
    BY <1>2, <1>4 DEF Next, vars, Main, Driver, Environment, GetConn, MaybeTare, PressKey,
       OpenWriter, ReadReal, GotReal, Show, Write, Publish, PublishFails, Raise,
       LeaveWriter
  <2>2. InHand' => InHand
    BY <1>1, <2>1, CounterMoves DEF InHand, Before
  <2>3. step' # "reading"
    BY <1>2, <1>4 DEF Next, vars, Main, Driver, Environment, GetConn, MaybeTare, PressKey,
       OpenWriter, ReadReal, GotReal, Show, Write, Publish, PublishFails, Raise,
       LeaveWriter, Goto, Recorded
  <2>4. CASE UNCHANGED rows
    BY <1>1, <1>2, <2>1, <2>2, <2>4, <2>3 DEF FileInv
  <2>5. CASE /\ step = "write" /\ step' = "mqtt" /\ UNCHANGED <<data, counter, line, mode>>
             /\ Len(rows') = Len(rows) + 1 /\ rows'[Len(rows) + 1] = data
             /\ \A i \in 1..Len(rows) : rows'[i] = rows[i]
    <3>1. counter = Len(rows) + 1 /\ data.source = LineOf(Len(rows) + 1)
      BY <1>1, <1>2, <2>5 DEF IInv, CounterInv, InHand
    <3> QED BY <1>1, <1>2, <2>1, <2>2, <2>5, <2>3, <3>1 DEF FileInv
  <2> QED BY <2>4, <2>5, RowsMove
<1> QED BY <1>3, <1>4

\* What the driver has read is kept while a sample is in hand, and otherwise only grows.
LEMMA ReadingMoves ==
  ASSUME IInv, [Next]_vars, ~mode.test
  PROVE  \/ UNCHANGED <<readings, call, sample>>
         \/ Before /\ rows = <<>> /\ step' \notin {"reading", "show", "write"} /\ UNCHANGED rows
         \/ ReadReal /\ call' = "read" /\ UNCHANGED readings
         \/ step = "reading" /\ DriverStep /\ UNCHANGED <<step, rows, data>>
<1>1. CASE Driver
  BY <1>1 DEF Driver, writerVars, Before, IInv, PublishedInv
<1>2. CASE GetConn \/ MaybeTare
  BY <1>2 DEF GetConn, MaybeTare, Goto, writerVars, Before, IInv, PublishedInv
<1>3. CASE ReadReal
  BY <1>3 DEF ReadReal, ReadData
<1>4. CASE ~Driver /\ ~GetConn /\ ~MaybeTare /\ ~ReadReal
  BY <1>4 DEF Next, vars, Main, Environment, PressKey, OpenWriter, ReadFake, GotReal, Show,
     Write, Publish, PublishFails, Raise, LeaveWriter, Sensor, EmitReport, EmitJunk, FallQuiet,
     driverVars
<1> QED BY <1>1, <1>2, <1>3, <1>4

LEMMA SensorPart == IInv /\ [Next]_vars => SensorInv'
<1> SUFFICES ASSUME IInv, [Next]_vars, ~mode.test
             PROVE  SensorInv'
  BY ModeStays DEF SensorInv
<1>1. /\ Len(rows) \in Nat /\ (rows = <<>> <=> Len(rows) = 0) /\ UNCHANGED mode
      /\ readings[Rotation] \in Int
  <2>1. readings \in [FeatureSet -> 0..Len(reports)] /\ Len(reports) \in Nat
    BY LenFacts DEF IInv, DriverInv, DriverTypeOK
  <2>2. readings[Rotation] \in Int
    BY <2>1, FeatureFacts
  <2> QED BY <2>2, RowFacts, ModeStays DEF IInv
<1>2. /\ \A i \in 1..Len(rows) : i > 1 => rows[i].source >= rows[i - 1].source
      /\ rows # <<>> => rows[Len(rows)].source <= readings[Rotation]
      /\ step = "reading" => call \in {"read", "ready", "raised"}
      /\ step = "reading" /\ call = "ready" => sample.from[Rotation] = readings[Rotation]
      /\ InHand => data.source = readings[Rotation]
  BY DEF IInv, SensorInv
<1>3. rows # <<>> => rows[Len(rows)].source \in Int
  <2>1. rows # <<>> => Len(rows) \in 1..Len(rows)
    BY <1>1
  <2>2. rows # <<>> => rows[Len(rows)] \in Samples
    BY <2>1, LenFacts DEF IInv, WriterOK
  <2> QED BY <2>2 DEF Samples
<1>4. CASE Write
  <2>1. /\ step' = "mqtt" /\ step = "write"
        /\ Len(rows') = Len(rows) + 1 /\ rows'[Len(rows) + 1] = data
        /\ \A i \in 1..Len(rows) : rows'[i] = rows[i]
    <3>1. rows' = Append(rows, data) /\ step = "write" /\ step' = "mqtt"
      BY <1>4 DEF Write, OutputToCsv, Goto
    <3> QED BY <3>1, OutputFacts DEF IInv, MainOK
  <2>2. UNCHANGED readings /\ data.source = readings[Rotation]
    BY <1>2, <1>4, <2>1 DEF Write, InHand, driverVars
  <2>3. \A i \in 1..Len(rows') : i > 1 => rows'[i].source >= rows'[i - 1].source
    <3> SUFFICES ASSUME NEW i \in 1..Len(rows'), i > 1
                 PROVE  rows'[i].source >= rows'[i - 1].source
      OBVIOUS
    <3>1. i - 1 \in 1..Len(rows) /\ (i \in 1..Len(rows) \/ i = Len(rows) + 1)
      BY <1>1, <2>1
    <3>2. CASE i \in 1..Len(rows)
      BY <1>2, <2>1, <3>1, <3>2
    <3>3. CASE i = Len(rows) + 1
      <4>1. rows # <<>> /\ i - 1 = Len(rows)
        BY <1>1, <3>1, <3>3
      <4> QED BY <1>1, <1>2, <1>3, <2>1, <2>2, <3>1, <3>3, <4>1
    <3> QED BY <3>1, <3>2, <3>3
  <2>4. rows'[Len(rows')].source <= readings'[Rotation]
    BY <1>1, <2>1, <2>2
  <2> QED BY <2>1, <2>3, <2>4 DEF SensorInv, InHand
<1>5. CASE ~Write
  <2>1. UNCHANGED rows
    BY <1>5, RowsMove, WriterMoves DEF IInv, PublishedInv, Before, OpenWriter, Enter,
       writerVars, Publish, OutputMqtt, SkipMqtt, LeaveWriter, Exit, FlushBuffer
  <2>2. CASE Before /\ rows = <<>> /\ step' \notin {"reading", "show", "write"}
    <3>1. Len(rows') = 0 /\ rows' = <<>>
      BY <1>1, <2>1, <2>2
    <3> QED BY <2>2, <3>1 DEF SensorInv, InHand
  <2>3. CASE ReadReal /\ call' = "read" /\ UNCHANGED readings
    <3>1. step' = "reading"
      BY <2>3 DEF ReadReal, Goto
    <3> QED BY <1>2, <2>1, <2>3, <3>1 DEF SensorInv, InHand
  <2>4. CASE step = "reading" /\ DriverStep /\ UNCHANGED <<step, rows, data>>
    <3>1. readings[Rotation] <= readings'[Rotation] /\ readings'[Rotation] \in Int
      <4>1. (readings \in [FeatureSet -> 0..Len(reports)] /\ Len(reports) \in Nat)'
        BY DriverPart, LenFacts DEF DriverInv, DriverTypeOK
      <4> QED BY <2>4, <4>1, ReadingsGrow, FeatureFacts DEF IInv
    <3>2. /\ call' \in {"read", "ready", "raised"}
          /\ call' = "ready" => sample'.from[Rotation] = readings'[Rotation]
      BY <1>2, <2>4, ReadReturns DEF IInv
    <3>3. rows # <<>> => rows[Len(rows)].source <= readings'[Rotation]
      BY <1>1, <1>2, <1>3, <3>1
    <3> QED BY <1>2, <2>1, <2>4, <3>2, <3>3 DEF SensorInv, InHand
  <2>5. CASE UNCHANGED <<readings, call, sample>>
    <3>1. CASE GotReal
      <4>1. /\ step = "reading" /\ call = "ready" /\ step' \in {"show", "write"}
            /\ data'.source = sample.from[Rotation]
        BY <3>1 DEF GotReal, Returned, Goto, Recorded
      <4> QED BY <1>2, <2>1, <2>5, <4>1 DEF SensorInv, InHand
    <3>2. CASE ~GotReal
      <4>1. step' = "reading" => step = "reading" \/ ReadReal
        BY <3>2 DEF Next, vars, Main, Driver, Environment, GetConn, MaybeTare, PressKey,
           OpenWriter, ReadFake, GotReal, Show, Write, Publish, PublishFails, Raise,
           LeaveWriter, Goto, Recorded
      <4>2. InHand' => InHand /\ UNCHANGED data
        BY <3>2 DEF InHand, Next, vars, Main, Driver, Environment, GetConn, MaybeTare,
           PressKey, OpenWriter, ReadFake, ReadReal, Show, Write, Publish, PublishFails,
           Raise, LeaveWriter, Goto, Recorded
      <4>3. CASE ReadReal
        <5>1. step' = "reading" /\ call' = "read"
          BY <4>3 DEF ReadReal, ReadData, Goto
        <5> QED BY <1>2, <2>1, <2>5, <5>1 DEF SensorInv, InHand
      <4>4. CASE ~ReadReal
        BY <1>2, <2>1, <2>5, <4>1, <4>2, <4>4 DEF SensorInv
      <4> QED BY <4>3, <4>4
    <3> QED BY <3>1, <3>2
  <2> QED BY <2>2, <2>3, <2>4, <2>5, ReadingMoves
<1> QED BY <1>4, <1>5

-----------------------------------------------------------------------------
(* The theorems *)

LEMMA InitHolds == Init => IInv
<1> SUFFICES ASSUME Init PROVE IInv
  OBVIOUS
<1>1. /\ rows = <<>> /\ published = <<>> /\ saved = 0 /\ mqttClient = FALSE /\ broker = TRUE
      /\ step = "connect" /\ line = 0 /\ counter = 0 /\ data = [counter |-> 0, source |-> 0]
      /\ mode \in [test : BOOLEAN, ui : BOOLEAN, tare : BOOLEAN]
  BY DEF Init, WriterInit
<1>2. Len(<<>>) = 0 /\ <<>> \in Seq(Samples)
  BY EmptySeq
<1>3. DriverInv
  BY DriverInitInv DEF Init
<1>4. MainOK
  BY <1>1, FileAssumption DEF MainOK, Samples
<1>5. WriterOK
  <2>1. rows \in Seq(Samples) /\ published \in Seq(Samples)
    BY <1>1, <1>2
  <2>2. saved \in 0..Len(rows)
    BY <1>1, <1>2
  <2>3. mqttClient \in BOOLEAN /\ broker \in BOOLEAN
    BY <1>1
  <2> QED BY <2>1, <2>2, <2>3 DEF WriterOK
<1>6. PublishedInv /\ EndedMeansSaved /\ CounterInv
  BY <1>1, <1>2 DEF PublishedInv, EndedMeansSaved, CounterInv, Before, InHand
<1>7. FileInv /\ SensorInv
  BY <1>1, <1>2 DEF FileInv, SensorInv, InHand
<1> QED BY <1>3, <1>4, <1>5, <1>6, <1>7 DEF IInv

LEMMA NextHolds == IInv /\ [Next]_vars => IInv'
BY DriverPart, MainPart, WriterPart, OutputPart, CounterPart, FilePart, SensorPart DEF IInv

LEMMA Invariance == Spec => []IInv
<1>1. Init => IInv
  BY InitHolds
<1>2. IInv /\ [Next]_vars => IInv'
  BY NextHolds
<1> QED BY <1>1, <1>2, PTL DEF Spec

\* Type correctness (TypeOK).
THEOREM DirectTypeCorrect == Spec => []TypeOK
<1>1. IInv => TypeOK
  <2> SUFFICES ASSUME IInv PROVE TypeOK
    OBVIOUS
  <2>1. DriverTypeOK /\ MainOK /\ WriterOK
    BY DEF IInv, DriverInv
  <2>2. mqttClient \in BOOLEAN /\ broker \in BOOLEAN
    BY <2>1 DEF WriterOK
  <2>3. {mqttClient, broker} \subseteq BOOLEAN
    BY <2>2
  <2> QED BY <2>1, <2>3 DEF MainOK, WriterOK, Samples, TypeOK
<1> QED BY <1>1, Invariance, PTL

\* A sample of read_data holds no value older than what the sensor had queued when it was
\* called (RealIMU.py, read_data).
THEOREM SamplesAreFresh == Spec => []SampleIsFresh
<1>1. IInv => SampleIsFresh
  BY DEF IInv, DriverInv, FreshInv
<1> QED BY <1>1, Invariance, PTL

\* The orientation that was tared reads as 0, and every yaw is an angle (RealIMU.py, tare
\* and _wrap_angle).
THEOREM TareIsZero == Spec => []TaredReadsZero
<1>1. IInv => TaredReadsZero
  BY DEF IInv, DriverInv, ZeroInv
<1> QED BY <1>1, Invariance, PTL

\* The rows are numbered from 0 and follow the driver (readings.py, BaseIMU.next_counter).
THEOREM RowsFollow == Spec => []RowsFollowDriver
<1>1. IInv => RowsFollowDriver
  <2> SUFFICES ASSUME IInv, NEW i \in 1..Len(rows)
               PROVE  /\ rows[i].counter = i - 1
                      /\ mode.test => rows[i].source = ((i - 1) % FileLines) + 1
                      /\ ~mode.test => (i > 1 => rows[i].source >= rows[i - 1].source)
    BY DEF RowsFollowDriver
  <2> QED BY DEF IInv, CounterInv, FileInv, SensorInv, LineOf
<1> QED BY <1>1, Invariance, PTL

\* The MQTT client has been given what is in the file, but for the last row at most
\* (DataWriter.write_data).
THEOREM OutputsStayTogether == Spec => []OutputsAgree
<1>1. IInv => OutputsAgree
  <2> SUFFICES ASSUME IInv, mqttClient
               PROVE  /\ Len(published) \in {Len(rows), Len(rows) - 1}
                      /\ published = SubSeq(rows, 1, Len(published))
    BY DEF OutputsAgree
  <2>1. /\ Len(published) \in {Len(rows), Len(rows) - 1}
        /\ \A j \in 1..Len(published) : published[j] = rows[j]
    BY DEF IInv, PublishedInv
  <2>2. /\ Len(rows) \in Nat /\ Len(published) \in Nat
        /\ rows \in Seq(Samples) /\ published \in Seq(Samples)
    BY RowFacts DEF IInv, WriterOK
  <2>3. Len(published) \in 0..Len(rows)
    BY <2>1, <2>2
  <2>4. /\ SubSeq(rows, 1, Len(published)) \in Seq(Samples)
        /\ Len(SubSeq(rows, 1, Len(published))) = Len(published)
        /\ \A j \in 1..Len(published) : SubSeq(rows, 1, Len(published))[j] = rows[j]
    BY <2>2, <2>3, SubSeqProperties
  <2>5. published = SubSeq(rows, 1, Len(published))
    BY <2>1, <2>2, <2>4, SeqEqual
  <2> QED BY <2>1, <2>5
<1> QED BY <1>1, Invariance, PTL

\* An exception anywhere ends the process with its rows on disk (DataWriter.__exit__).
THEOREM RowsAreSaved == Spec => []EndedMeansSaved
<1>1. IInv => EndedMeansSaved
  BY DEF IInv
<1> QED BY <1>1, Invariance, PTL
=============================================================================
