--------------------------- MODULE MCPhoneHandover ---------------------------
(***************************************************************************)
(* Two phones, two contents and two requests.  One phone meets every kind  *)
(* of fault; two phones, of the same bytes or of two recordings under one  *)
(* id, meet an intake that refuses.                                        *)
(***************************************************************************)
EXTENDS PhoneHandover, TLC
CONSTANTS d1, d2, A, B

OnePhone == [phones |-> {<<d1, A>>}, faults |-> FaultKinds]
SameRecording == [phones |-> {<<d1, A>>, <<d2, A>>}, faults |-> {"intake"}]
OtherRecording == [phones |-> {<<d1, A>>, <<d2, B>>}, faults |-> {"intake"}]

AllStarts == {OnePhone, SameRecording, OtherRecording}
TwoRecordings == {[OtherRecording EXCEPT !.faults = {}]}

RequestSymmetry == Permutations(Requests)
=============================================================================
