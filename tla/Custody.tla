------------------------------- MODULE Custody -------------------------------
(***************************************************************************)
(* What the hand-over promises: a recording is on the phones that hold it  *)
(* until the computer admitted its bytes as a meeting, so that it is never *)
(* on neither.  Only the user deletes a meeting.                           *)
(***************************************************************************)
CONSTANTS Contents, Uploads

VARIABLES
  holds,   \* the <<device, content>> copies on phones
  meeting  \* what became of each content on the computer

vars == <<holds, meeting>>

Init == holds \in SUBSET Uploads /\ meeting = [b \in Contents |-> "none"]

\* The computer takes the bytes of an upload, once more when the user deleted
\* their meeting.
Admit(b) ==
  /\ \E u \in Uploads : u[2] = b
  /\ meeting[b] # "kept"
  /\ meeting' = [meeting EXCEPT ![b] = "kept"]
  /\ UNCHANGED holds

\* A phone drops bytes the computer took.
Drop(u) ==
  /\ u \in holds
  /\ meeting[u[2]] # "none"
  /\ holds' = holds \ {u}
  /\ UNCHANGED meeting

Delete(b) ==
  /\ meeting[b] = "kept"
  /\ meeting' = [meeting EXCEPT ![b] = "deleted"]
  /\ UNCHANGED holds

Next == (\E b \in Contents : Admit(b) \/ Delete(b)) \/ (\E u \in Uploads : Drop(u))

Spec == Init /\ [][Next]_vars
=============================================================================
