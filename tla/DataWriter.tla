------------------------------ MODULE DataWriter ------------------------------
(***************************************************************************)
(* The two outputs of a process that records samples: a CSV file and an    *)
(* MQTT client.  write_data puts a sample in the file first and publishes  *)
(* it second; a publication that fails raises, with the row already in the *)
(* file.  The file object buffers its rows: they are sure to be on disk    *)
(* once the file is closed, and a process that is killed leaves behind     *)
(* whatever prefix the buffer had let through.                             *)
(***************************************************************************)
EXTENDS Naturals, Sequences

VARIABLES
  rows,        \* the samples written to csv_file by this process
  saved,       \* how many of them are on disk
  published,   \* the samples its MQTT client has accepted
  mqttClient,  \* self.mqtt_client is not None
  broker       \* environment: the MQTT broker can be reached

writerVars == <<rows, saved, published, mqttClient>>

WriterInit ==
  /\ rows = <<>> /\ saved = 0 /\ published = <<>>
  /\ mqttClient = FALSE /\ broker = TRUE

\* The MQTT client, if it can be had.
ConnectMqtt == mqttClient' = broker

\* Mutant: the count of the earlier process is kept.
EnterKeepsCount ==
  /\ rows' = <<>> /\ published' = <<>> /\ ConnectMqtt
  /\ UNCHANGED saved

\* Opening with "w+" empties the file an earlier process has left; an MQTT connection
\* that fails leaves this process without a client for good.
Enter ==
  /\ rows' = <<>> /\ saved' = 0 /\ published' = <<>>
  /\ ConnectMqtt

OutputToCsv(s) ==
  /\ rows' = Append(rows, s)
  /\ UNCHANGED <<saved, published, mqttClient>>

\* The client takes the message.  It may do so for a while after the broker is gone.
OutputMqtt(s) ==
  /\ mqttClient
  /\ published' = Append(published, s)
  /\ UNCHANGED <<rows, saved, mqttClient>>

\* info.rc != MQTT_ERR_SUCCESS
PublishRaises == mqttClient /\ ~broker /\ UNCHANGED writerVars

SkipMqtt == ~mqttClient /\ UNCHANGED writerVars

\* Closing writes the buffer out; a disconnect that fails is ignored.
Exit ==
  /\ saved' = Len(rows)
  /\ mqttClient' = FALSE
  /\ UNCHANGED <<rows, published>>

\* The file object's buffer is full.
FlushBuffer ==
  /\ saved' \in (saved + 1)..Len(rows)
  /\ UNCHANGED <<rows, published, mqttClient>>
=============================================================================
