----------------------------- MODULE DropOldest -----------------------------
(***************************************************************************)
(* What one telemetry stream promises its client: from the moment it is    *)
(* opened every sample is offered to it, in order and once.  A client that *)
(* lags behind loses the oldest samples it has not taken yet, one for each *)
(* new sample, and never the newest.                                       *)
(***************************************************************************)
EXTENDS Naturals, Sequences

CONSTANT QueueSize

VARIABLES
  open,     \* the stream is subscribed
  offered,  \* the number of the last sample offered to it
  buffer,   \* the samples it may still take
  taken     \* the number of the last sample it took

vars == <<open, offered, buffer, taken>>

Init == open = FALSE /\ offered = 0 /\ buffer = <<>> /\ taken = 0

Open ==
  /\ ~open /\ open'
  /\ offered' \in Nat /\ offered' >= taken
  /\ buffer' = <<>>
  /\ UNCHANGED taken

Offer ==
  /\ open
  /\ offered' = offered + 1
  /\ \/ buffer' = Append(buffer, offered')
     \/ buffer # <<>> /\ buffer' = Append(Tail(buffer), offered')
  /\ Len(buffer') <= QueueSize
  /\ UNCHANGED <<open, taken>>

Take ==
  /\ open /\ buffer # <<>>
  /\ taken' = Head(buffer)
  /\ buffer' = Tail(buffer)
  /\ UNCHANGED <<open, offered>>

Close ==
  /\ open /\ ~open'
  /\ offered' = 0 /\ buffer' = <<>>
  /\ UNCHANGED taken

Next == Open \/ Offer \/ Take \/ Close

Spec == Init /\ [][Next]_vars
=============================================================================
