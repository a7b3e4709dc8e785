------------------------------ MODULE EdgeHealth ------------------------------
(***************************************************************************)
(* How old the agent's health file can get, and what the container's       *)
(* health check makes of it.                                               *)
(*                                                                         *)
(* Of the agent (see EdgeAgent) this module keeps what takes time: its     *)
(* sleeps, its requests and its reads of the stream, each with its limit.  *)
(* Time passes in ticks and only while the agent is blocked; a limit is an *)
(* urgent event.  The socket of a service that has died refuses at once.   *)
(*                                                                         *)
(* The file is written in two steps, emptied and then filled, and a check  *)
(* can read it between them.                                               *)
(***************************************************************************)
EXTENDS Integers

CONSTANTS
  Delay,         \* IMU_RECONNECT_DELAY_S
  RequestLimit,  \* the longest a request can take: 10 s for each blocking socket call
  ReadLimit,     \* the longest a read of the stream can take: 10 s
  StaleAfter,    \* IMU_EDGE_STALE_AFTER_S
  MaxAge         \* bound of the model: ages are not told apart beyond it

\* The longest time between two updates of a running agent: the sleep after an error,
\* three requests that are answered at the last moment, and a read that times out.
LongestSilence == Delay + 3 * RequestLimit + ReadLimit

ASSUME HealthAssumption ==
  /\ Delay \in Nat /\ RequestLimit \in Nat /\ ReadLimit \in Nat
  /\ StaleAfter \in Nat
  /\ MaxAge \in Nat /\ MaxAge > LongestSilence /\ MaxAge > StaleAfter

VARIABLES
  phase,    \* what the agent does: "sleep", a request, "read" or one half of an update
  busy,     \* for how long
  state,    \* the state it is about to report
  file,     \* the health file: "missing", "empty" or the state in it
  age,      \* the age of the newest updated_at_ms the agent has taken
  silence,  \* since when the agent is dead, or 0
  up,       \* the service runs
  verdict   \* what the last check of this tick found

vars == <<phase, busy, state, file, age, silence, up, verdict>>

Requests == {"ready", "start", "open"}
Blocked  == {"sleep", "read"} \union Requests
Alive    == phase # "dead"

Limit ==
  [p \in Blocked |-> IF p = "sleep" THEN Delay
                     ELSE IF p = "read" THEN ReadLimit ELSE RequestLimit]

Goto(p) == phase' = p /\ busy' = 0

Later(t) == IF t < MaxAge THEN t + 1 ELSE t

-----------------------------------------------------------------------------
(* The agent *)

\* EdgeHealthTracker.update takes the time first and empties the file ...
Stamp(s) ==
  /\ Goto("fill") /\ state' = s
  /\ file' = "empty" /\ age' = 0
  /\ UNCHANGED <<silence, up, verdict>>

\* ... and writes it.  An error is followed by a sleep, a sample by the next read.
Fill ==
  /\ phase = "fill"
  /\ file' = state
  /\ Goto(IF state = "streaming" THEN "read" ELSE "sleep")
  /\ UNCHANGED <<state, age, silence, up, verdict>>

WakeUp ==
  /\ phase = "sleep" /\ busy = Delay
  /\ Goto("ready")
  /\ UNCHANGED <<state, file, age, silence, up, verdict>>

\* A session is not started if the agent is not configured to.
Follows ==
  [p \in Requests |-> IF p = "ready" THEN {"start", "open"}
                      ELSE IF p = "start" THEN {"open"} ELSE {"read"}]

\* Mutant: a service that is not ready answers 200 with ready false: a sleep, no update.
AnsweredNotReady ==
  /\ phase \in Requests /\ up
  /\ Goto(IF phase = "ready" THEN "sleep" ELSE "read")
  /\ UNCHANGED <<state, file, age, silence, up, verdict>>

Answered ==
  /\ phase \in Requests /\ up
  /\ \E p \in Follows[phase] : Goto(p)
  /\ UNCHANGED <<state, file, age, silence, up, verdict>>

\* An error answer, no service, or the socket timeout: waiting if it was the readiness
\* request, degraded otherwise, and if the answer was cut off.
RequestFails ==
  \/ phase = "ready" /\ Stamp("waiting")
  \/ phase \in Requests /\ Stamp("degraded")

\* A sample has come, been written and published, or its publication has failed.
ReadSample ==
  /\ phase = "read"
  /\ \E s \in {"streaming", "degraded"} : Stamp(s)

\* Mutant: a stream that times out is opened again with no update.
ReadTimesOutQuietly ==
  /\ phase = "read" /\ busy = ReadLimit
  /\ Goto("ready")
  /\ UNCHANGED <<state, file, age, silence, up, verdict>>

ReadTimesOut ==
  /\ phase = "read" /\ busy = ReadLimit
  /\ Stamp("degraded")

\* The service has died: straight to the next readiness request, with no update.
EndOfStream ==
  /\ phase = "read" /\ ~up
  /\ Goto("ready")
  /\ UNCHANGED <<state, file, age, silence, up, verdict>>

Agent ==
  \/ Fill \/ WakeUp \/ Answered \/ RequestFails
  \/ ReadSample \/ ReadTimesOut \/ EndOfStream

Dies ==
  /\ Alive /\ Goto("dead")
  /\ UNCHANGED <<state, file, age, silence, up, verdict>>

-----------------------------------------------------------------------------
(* Time, the service and the health check *)

\* Mutant: a sleep has no end.
MayWaitLonger ==
  \/ phase \in {"dead", "sleep"}
  \/ phase = "read" /\ busy < ReadLimit /\ up
  \/ phase \in Requests /\ busy < RequestLimit /\ up

\* Time passes while the agent is blocked: not beyond a limit, and not while it waits for
\* a service that has gone.
MayWait ==
  \/ ~Alive
  \/ phase = "sleep" /\ busy < Delay
  \/ phase = "read" /\ busy < ReadLimit /\ up
  \/ phase \in Requests /\ busy < RequestLimit /\ up

Tick ==
  /\ MayWait
  /\ busy' = IF Alive THEN busy + 1 ELSE 0
  /\ age' = Later(age)
  /\ silence' = IF Alive THEN 0 ELSE Later(silence)
  /\ verdict' = "none"
  /\ UNCHANGED <<phase, state, file, up>>

\* systemd waits before it starts the service again, which is long enough for the agent
\* to notice: it is asleep, or dead, by then.
ServiceChanges ==
  /\ up \/ phase \in {"sleep", "dead"}
  /\ up' = ~up
  /\ UNCHANGED <<phase, busy, state, file, age, silence, verdict>>

\* Mutant: the age is not looked at.
JudgeByState ==
  IF file = "missing" THEN "missing"
  ELSE IF file = "empty" THEN "traceback"
  ELSE IF file \in {"streaming", "waiting"} THEN "healthy" ELSE "unhealthy"

\* What the check makes of the file: a missing file and an old one are failures, an empty
\* one is a JSON error.
Judge ==
  IF file = "missing" THEN "missing"
  ELSE IF file = "empty" THEN "traceback"
  ELSE IF age > StaleAfter THEN "stale"
  ELSE IF file \in {"streaming", "waiting"} THEN "healthy" ELSE "unhealthy"

Healthcheck ==
  /\ verdict' = Judge
  /\ UNCHANGED <<phase, busy, state, file, age, silence, up>>

Init ==
  /\ phase = "ready" /\ busy = 0 /\ state = "waiting"
  /\ file = "missing" /\ age = 0 /\ silence = 0
  /\ up \in BOOLEAN /\ verdict = "none"

Next == Agent \/ Dies \/ Tick \/ ServiceChanges \/ Healthcheck

Spec == Init /\ [][Next]_vars

-----------------------------------------------------------------------------
States == {"waiting", "streaming", "degraded"}

TypeOK ==
  /\ phase \in Blocked \union {"fill", "dead"} /\ busy \in Nat
  /\ phase \in Blocked => busy <= Limit[phase]
  /\ state \in States /\ file \in States \union {"missing", "empty"}
  /\ age \in 0..MaxAge /\ silence \in 0..MaxAge
  /\ up \in BOOLEAN
  /\ verdict \in {"none", "missing", "traceback", "stale", "healthy", "unhealthy"}

\* EDGE_REDESIGN.md has the container "keep health state updated": a running agent takes
\* a new time at least every LongestSilence, on every path through its loop.
AgeBounded == Alive => age <= LongestSilence

\* A health file of a running agent that says "streaming" is no older than the read of
\* the stream that goes on: neither a lost stream nor a lost service leaves it there.
StreamingIsCurrent == Alive /\ file = "streaming" => age <= ReadLimit

\* Once an agent has been dead for StaleAfter no check finds it healthy, whatever it wrote
\* last.
DeadIsNoticed == verdict = "healthy" => silence <= StaleAfter

\* A check finds the file of a running agent too old only if StaleAfter is shorter than
\* the longest silence, as it is with the default settings.
StaleMeansDead == verdict = "stale" => ~Alive \/ StaleAfter < LongestSilence
=============================================================================
