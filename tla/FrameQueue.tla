----------------------------- MODULE FrameQueue -----------------------------
(***************************************************************************)
(* What the rings between two capture threads promise: the producer offers *)
(* blocks of frames, each taken whole or dropped whole and counted, and    *)
(* the consumer takes the oldest ones, BatchSize at a time, each once.     *)
(* Frames are numbered as they are offered.                                *)
(***************************************************************************)
EXTENDS Naturals

CONSTANT BatchSize

VARIABLES
  queue,    \* the frames accepted and not taken yet
  taken,    \* the frames taken last, oldest first
  offered,  \* frames offered so far
  dropped   \* how many of them were refused

vars == <<queue, taken, offered, dropped>>

Batch == 1..BatchSize

Init == queue = {} /\ taken = [i \in Batch |-> 0] /\ offered = 0 /\ dropped = 0

Accept ==
  /\ offered' > offered
  /\ queue' = queue \cup ((offered + 1)..offered')
  /\ UNCHANGED <<taken, dropped>>

Refuse ==
  /\ offered' > offered
  /\ dropped' = dropped + (offered' - offered)
  /\ UNCHANGED <<queue, taken>>

Take ==
  /\ taken' \in [Batch -> queue]
  /\ \A i, j \in Batch : i < j => taken'[i] < taken'[j]
  /\ queue' = queue \ {taken'[i] : i \in Batch}
  /\ \A i \in Batch, f \in queue' : taken'[i] < f
  /\ UNCHANGED <<offered, dropped>>

Next == Accept \/ Refuse \/ Take

Spec == Init /\ [][Next]_vars
=============================================================================
