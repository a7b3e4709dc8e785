-------------------------- MODULE SessionContract --------------------------
(***************************************************************************)
(* What the hardware service promises to clients that start and stop       *)
(* sessions in turn: at any time there is no session or exactly one, whose *)
(* id and rate both come from the same request and never change until it   *)
(* is stopped; what goes out during a session carries its id. The one      *)
(* exception is a single sample that was in flight when a session stopped: *)
(* it may still go out, with no id or with another, even after the next    *)
(* session has begun.                                                      *)
(***************************************************************************)
CONSTANTS SessionIds, None

VARIABLES
  active,   \* there is a session
  id, hz,   \* its id, and the session whose rate is used
  line,     \* the id on the last sample that went out
  debt      \* a sample that belongs to no session may still go out

vars == <<active, id, hz, line, debt>>

TypeOK ==
  /\ active \in BOOLEAN /\ debt \in BOOLEAN
  /\ {id, hz, line} \subseteq SessionIds \union {None}

Init == ~active /\ id = None /\ hz = None /\ line = None /\ ~debt

\* The sample in flight may turn into one of the new session.
Start(s) ==
  /\ ~active
  /\ active' = TRUE /\ id' = s /\ hz' = s
  /\ debt' \in {debt, FALSE}
  /\ UNCHANGED line

Stop ==
  /\ active
  /\ active' = FALSE /\ id' = None /\ hz' = None
  /\ debt' \in BOOLEAN
  /\ UNCHANGED line

Publish ==
  /\ active
  /\ line' = id
  /\ UNCHANGED <<active, id, hz, debt>>

\* The sample that was in flight goes out ...
PublishStray ==
  /\ debt /\ ~debt'
  /\ line' \in SessionIds \union {None}
  /\ UNCHANGED <<active, id, hz>>

\* ... or is never read.
LoseStray ==
  /\ debt /\ ~debt'
  /\ UNCHANGED <<active, id, hz, line>>

Next ==
  \/ \E s \in SessionIds : Start(s)
  \/ Stop \/ Publish \/ PublishStray \/ LoseStray

Spec == Init /\ [][Next]_vars
=============================================================================
