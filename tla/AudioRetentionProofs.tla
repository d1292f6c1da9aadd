------------------------ MODULE AudioRetentionProofs ------------------------
(***************************************************************************)
(* Proofs about AudioRetention, for every set of meetings, files, rules    *)
(* and events: type correctness; that the sweep never removes the master   *)
(* of a row that is kept or still needed; that the audio of a meeting      *)
(* still to be processed or whose run failed has no stamp; and that an     *)
(* automatic stamp is saved only when it is earned.                        *)
(*                                                                         *)
(* The third rests on Safe, which says of each writer of the row where it  *)
(* stands when the meeting may still need its audio: a run works on an     *)
(* unstamped row, a stamper on a ready meeting, and the launch's resume,   *)
(* which may go on while the app is in use, writes over what is not ready. *)
(* The fourth rests on AllEarned: what a stamper asked for is changed by   *)
(* nobody else until it saves.                                             *)
(***************************************************************************)
EXTENDS AudioRetention, TLAPS

-----------------------------------------------------------------------------
(* Type correctness.                                                        *)

\* Nobody's values have the types of the records they stand for.
LEMMA Idle ==
  /\ NoRow \in AssetRow
  /\ AnyMeeting \in Meetings
  /\ IdleRun \in RunType
  /\ IdleStamp \in StampType
  /\ IdleUser \in UserType
  /\ \A late \in Latenesses : LaunchBegins(late) \in LaunchType
<1>1. NoRow \in AssetRow
  BY DEF NoRow, AssetRow, AllRules, Expiries
<1>2. AnyMeeting \in Meetings
  BY RetentionAssumption DEF AnyMeeting
<1> QED
  BY <1>1, <1>2 DEF IdleRun, IdleStamp, IdleUser, LaunchBegins, RunType, StampType, UserType,
                    LaunchType, RunPcs, StampPcs, UserPcs, LaunchPcs

\* What is saved in a row is a row.
LEMMA RowTypes ==
  /\ Kept \in AssetRow
  /\ \A r \in AssetRow : /\ Unstamped(r) \in AssetRow
                         /\ Expiry(r.retention) \in Expiries
                         /\ [r EXCEPT !.expires = Expiry(r.retention)] \in AssetRow
                         /\ [r EXCEPT !.expires = "due"] \in AssetRow
  BY DEF Kept, AssetRow, AllRules, Expiries, Unstamped, Expiry

\* A run that goes on keeps the type of the runs.
LEMMA RunGoesTypes ==
  ASSUME NEW m \in Meetings, TypeOK, NEW pc \in RunPcs, RunGoes(m, pc)
  PROVE  run' \in [Meetings -> RunType]
  BY DEF TypeOK, RunGoes, RunType

\* A run that rereads its row keeps the type of the runs.
LEMMA RunReadsTypes ==
  ASSUME NEW m \in Meetings, TypeOK, NEW pc \in RunPcs, RunReads(m, pc)
  PROVE  run' \in [Meetings -> RunType]
  BY DEF TypeOK, RunReads, RunType

\* A run that ends keeps the type of the runs.
LEMMA RunLeavesTypes ==
  ASSUME NEW m \in Meetings, TypeOK, RunLeaves(m)
  PROVE  run' \in [Meetings -> RunType]
  BY Idle DEF TypeOK, RunLeaves

\* A stamping that goes on keeps the type of the stampers.
LEMMA StampGoesTypes ==
  ASSUME NEW s \in Stampers, TypeOK, NEW pc \in StampPcs,
         stamp' = [stamp EXCEPT ![s].pc = pc]
  PROVE  stamp' \in [Stampers -> StampType]
  BY DEF TypeOK, StampType

\* A stamping that ends keeps the type of the stampers.
LEMMA StampLeavesTypes ==
  ASSUME NEW s \in Stampers, TypeOK, StampLeaves(s)
  PROVE  stamp' \in [Stampers -> StampType]
  BY Idle DEF TypeOK, StampLeaves

\* An operation that goes on keeps the type of the operations.
LEMMA OpGoesTypes ==
  ASSUME NEW m \in Meetings, TypeOK, NEW pc \in OpPcs, OpGoes(m, pc)
  PROVE  op' \in [Meetings -> OpPcs]
  BY DEF TypeOK, OpGoes

\* A saved row has the type of the rows.
LEMMA SaveRowTypes ==
  ASSUME NEW m \in Meetings, TypeOK, NEW r \in AssetRow, SaveRow(m, r)
  PROVE  row' \in [Meetings -> AssetRow]
  BY DEF TypeOK, SaveRow

\* What a stamper reads is typed.
LEMMA StamperTypes ==
  ASSUME NEW s \in Stampers, TypeOK
  PROVE  /\ s[2] \in Meetings
         /\ row[s[2]] \in AssetRow
         /\ stamp[s] \in StampType
         /\ stamp[s].row \in AssetRow
<1>1. s[2] \in Meetings
  BY DEF Stampers
<1> QED
  BY <1>1 DEF TypeOK, StampType

\* Events are counted within their bound.
LEMMA EventTypes ==
  ASSUME TypeOK, NEW kind, Event(kind)
  PROVE  events' \in 0..MaxEvents
  BY RetentionAssumption DEF TypeOK, Event

\* Every step of a stamping keeps the types.
LEMMA StampTypes ==
  ASSUME NEW s \in Stampers, TypeOK, Stamp(s)
  PROVE  TypeOK'
<1>1. CASE StampDeferred(s)
  <2>1. stamp' \in [Stampers -> StampType]
    BY <1>1, StampGoesTypes, StampLeavesTypes DEF StampDeferred, StampPcs, StampGoes
  <2> QED
    BY <1>1, <2>1 DEF TypeOK, StampDeferred, StampOthers, rows, history
<1>2. CASE StampDeliveries(s)
  <2>1. stamp' \in [Stampers -> StampType]
    BY <1>2, StampGoesTypes, StampLeavesTypes DEF StampDeliveries, StampPcs, StampGoes
  <2> QED
    BY <1>2, <2>1 DEF TypeOK, StampDeliveries, StampOthers, rows, history
<1>3. CASE StampNeeds(s)
  <2>1. stamp' \in [Stampers -> StampType]
    BY <1>3, StampGoesTypes, StampLeavesTypes DEF StampNeeds, StampPcs, StampGoes
  <2> QED
    BY <1>3, <2>1 DEF TypeOK, StampNeeds, StampOthers, rows, history
<1>4. CASE StampReads(s)
  <2>1. [pc |-> "save", row |-> row[s[2]]] \in StampType
    BY StamperTypes DEF StampType, StampPcs
  <2>2. stamp' \in [Stampers -> StampType]
    BY <1>4, <2>1 DEF StampReads, TypeOK
  <2> QED
    BY <1>4, <2>2 DEF TypeOK, StampReads, StampOthers, rows, history
<1>5. CASE StampSaves(s)
  <2>1. stamp' \in [Stampers -> StampType]
    BY <1>5, StampLeavesTypes DEF StampSaves
  <2>2. row' \in [Meetings -> AssetRow]
    BY <1>5, StamperTypes, RowTypes, SaveRowTypes DEF StampSaves
  <2>3. events' \in 0..MaxEvents
    BY <1>5, EventTypes DEF StampSaves, TypeOK
  <2>4. /\ sweepDue' \in BOOLEAN
        /\ unswept' \in BOOLEAN
    BY <1>5 DEF StampSaves, TypeOK
  <2> QED
    BY <1>5, <2>1, <2>2, <2>3, <2>4 DEF TypeOK, StampSaves
<1> QED
  BY <1>1, <1>2, <1>3, <1>4, <1>5 DEF Stamp

\* Every step of a run keeps the types.
LEMMA RunTypes ==
  ASSUME NEW m \in Meetings, TypeOK, Run(m)
  PROVE  TypeOK'
<1>1. CASE RunFinds(m)
  <2>1. run' \in [Meetings -> RunType]
    BY <1>1, RunGoesTypes, RunReadsTypes, RunLeavesTypes DEF RunFinds, RunPcs
  <2> QED
    BY <1>1, <2>1 DEF TypeOK, RunFinds, RunOthers, rows, history
<1>2. CASE RunAdmit(m)
  <2>1. run' \in [Meetings -> RunType]
    BY <1>2, RunGoesTypes, RunReadsTypes, RunLeavesTypes DEF RunAdmit, RunPcs
  <2> QED
    BY <1>2, <2>1 DEF TypeOK, RunAdmit, RunOthers, rows, history
<1>3. CASE RunBegins(m)
  <2>1. run' \in [Meetings -> RunType]
    BY <1>3, RunGoesTypes, RunReadsTypes, RunLeavesTypes DEF RunBegins, RunPcs
  <2>2. state' \in [Meetings -> MeetingStates]
    BY <1>3 DEF RunBegins, TypeOK, MeetingStates
  <2> QED
    BY <1>3, <2>1, <2>2 DEF TypeOK, RunBegins, RunOthers, rows, history
<1>4. CASE RunDecodes(m)
  <2>1. run' \in [Meetings -> RunType]
    BY <1>4, RunGoesTypes, RunReadsTypes, RunLeavesTypes DEF RunDecodes, RunPcs
  <2> QED
    BY <1>4, <2>1 DEF TypeOK, RunDecodes, RunOthers, rows, history
<1>5. CASE RunSalvages(m)
  <2>1. run' \in [Meetings -> RunType]
    BY <1>5, RunGoesTypes, RunReadsTypes, RunLeavesTypes DEF RunSalvages, RunPcs
  <2> QED
    BY <1>5, <2>1 DEF TypeOK, RunSalvages, RunOthers, rows, history
<1>6. CASE RunKeeps(m)
  <2>1. run' \in [Meetings -> RunType]
    BY <1>6, RunGoesTypes, RunReadsTypes, RunLeavesTypes DEF RunKeeps, RunPcs
  <2>2. row' \in [Meetings -> AssetRow]
    BY <1>6, RowTypes, SaveRowTypes DEF RunKeeps
  <2> QED
    BY <1>6, <2>1, <2>2 DEF TypeOK, RunKeeps, RunOthers, rows, history
<1>7. CASE RunSavesResults(m)
  <2>1. run' \in [Meetings -> RunType]
    BY <1>7, RunGoesTypes, RunReadsTypes, RunLeavesTypes DEF RunSavesResults, RunPcs
  <2>2. complete' \in [Meetings -> BOOLEAN]
    BY <1>7 DEF RunSavesResults, TypeOK
  <2> QED
    BY <1>7, <2>1, <2>2 DEF TypeOK, RunSavesResults, RunOthers, rows, history
<1>8. CASE PersistReads(m)
  <2>1. run' \in [Meetings -> RunType]
    BY <1>8, RunGoesTypes, RunReadsTypes, RunLeavesTypes DEF PersistReads, RunPcs
  <2> QED
    BY <1>8, <2>1 DEF TypeOK, PersistReads, RunOthers, rows, history
<1>9. CASE PersistSaves(m)
  <2>1. run' \in [Meetings -> RunType]
    BY <1>9, RunGoesTypes, RunReadsTypes, RunLeavesTypes DEF PersistSaves, RunPcs
  <2>2. run[m].row \in AssetRow
    BY DEF TypeOK, RunType
  <2>3. row' \in [Meetings -> AssetRow]
    BY <1>9, <2>2, SaveRowTypes DEF PersistSaves
  <2> QED
    BY <1>9, <2>1, <2>2, <2>3 DEF TypeOK, PersistSaves, RunOthers, rows, history
<1>10. CASE PersistOwes(m)
  <2>1. run' \in [Meetings -> RunType]
    BY <1>10, RunGoesTypes, RunReadsTypes, RunLeavesTypes DEF PersistOwes, RunPcs
  <2>2. delivered' \in [Meetings -> BOOLEAN]
    BY <1>10 DEF PersistOwes, TypeOK
  <2> QED
    BY <1>10, <2>1, <2>2 DEF TypeOK, PersistOwes, RunOthers, rows, history
<1>11. CASE PersistReady(m)
  <2>1. run' \in [Meetings -> RunType]
    BY <1>11, RunGoesTypes, RunReadsTypes, RunLeavesTypes DEF PersistReady, RunPcs
  <2>2. state' \in [Meetings -> MeetingStates]
    BY <1>11 DEF PersistReady, TypeOK, MeetingStates
  <2> QED
    BY <1>11, <2>1, <2>2 DEF TypeOK, PersistReady, RunOthers, rows, history
<1>12. CASE RunDelivers(m)
  <2>1. run' \in [Meetings -> RunType]
    BY <1>12, RunGoesTypes, RunReadsTypes, RunLeavesTypes DEF RunDelivers, RunPcs
  <2>2. delivered' \in [Meetings -> BOOLEAN]
    BY <1>12 DEF RunDelivers, TypeOK
  <2>3. <<"run", m>> \in Stampers
    BY DEF Stampers
  <2>4. stamp' \in [Stampers -> StampType]
    BY <1>12, <2>3, StampGoesTypes DEF RunDelivers, StampPcs
  <2> QED
    BY <1>12, <2>1, <2>2, <2>3, <2>4 DEF TypeOK, RunDelivers, RunOthers, rows, history
<1>13. CASE RunEnds(m)
  <2>1. run' \in [Meetings -> RunType]
    BY <1>13, RunGoesTypes, RunReadsTypes, RunLeavesTypes DEF RunEnds, RunPcs
  <2> QED
    BY <1>13, <2>1 DEF TypeOK, RunEnds, RunOthers, rows, history
<1>14. CASE RunFails(m)
  <2>1. run' \in [Meetings -> RunType]
    BY <1>14, RunGoesTypes, RunReadsTypes, RunLeavesTypes DEF RunFails, RunPcs
  <2>2. state' \in [Meetings -> MeetingStates]
    BY <1>14 DEF RunFails, TypeOK, MeetingStates
  <2> QED
    BY <1>14, <2>1, <2>2 DEF TypeOK, RunFails, RunOthers, rows, history
<1> QED
  BY <1>1, <1>2, <1>3, <1>4, <1>5, <1>6, <1>7, <1>8, <1>9, <1>10, <1>11, <1>12, <1>13, <1>14 DEF Run

\* Every step of an operation keeps the types.
LEMMA OpTypes ==
  ASSUME NEW m \in Meetings, TypeOK, OpWorks(m)
  PROVE  TypeOK'
<1>1. CASE StillOwed(m)
  <2>1. op' \in [Meetings -> OpPcs]
    BY <1>1, OpGoesTypes DEF StillOwed, OpPcs
  <2> QED
    BY <1>1, <2>1 DEF TypeOK, StillOwed, OpOthers, rows, history
<1>2. CASE Resummarize(m)
  <2>1. op' \in [Meetings -> OpPcs]
    BY <1>2, OpGoesTypes DEF Resummarize, OpPcs
  <2>2. state' \in [Meetings -> MeetingStates]
    BY <1>2 DEF Resummarize, TypeOK, MeetingStates
  <2> QED
    BY <1>2, <2>1, <2>2 DEF TypeOK, Resummarize, OpOthers, history
<1>3. CASE OpOwes(m)
  <2>1. op' \in [Meetings -> OpPcs]
    BY <1>3, OpGoesTypes DEF OpOwes, OpPcs
  <2>2. delivered' \in [Meetings -> BOOLEAN]
    BY <1>3 DEF OpOwes, TypeOK
  <2> QED
    BY <1>3, <2>1, <2>2 DEF TypeOK, OpOwes, OpOthers, history
<1>4. CASE OpDelivers(m)
  <2>1. op' \in [Meetings -> OpPcs]
    BY <1>4, OpGoesTypes DEF OpDelivers, OpPcs
  <2>2. delivered' \in [Meetings -> BOOLEAN]
    BY <1>4 DEF OpDelivers, TypeOK
  <2>3. <<"op", m>> \in Stampers
    BY DEF Stampers
  <2>4. stamp' \in [Stampers -> StampType]
    BY <1>4, <2>3, StampGoesTypes DEF OpDelivers, StampPcs
  <2> QED
    BY <1>4, <2>1, <2>2, <2>4 DEF TypeOK, OpDelivers, OpOthers, history
<1>5. CASE OpEnds(m)
  <2>1. op' \in [Meetings -> OpPcs]
    BY <1>5, OpGoesTypes DEF OpEnds, OpPcs
  <2> QED
    BY <1>5, <2>1 DEF TypeOK, OpEnds, OpOthers, rows, history
<1> QED
  BY <1>1, <1>2, <1>3, <1>4, <1>5 DEF OpWorks

\* Admitting a run keeps the types.
LEMMA AdmitTypes ==
  ASSUME NEW m \in Meetings, TypeOK, Reexport(m) \/ LaunchReexport(m) \/ Rerun(m)
  PROVE  TypeOK'
<1>1. events' \in 0..MaxEvents
  BY EventTypes DEF Reexport, LaunchReexport, Rerun
<1>2. PICK pc \in OpPcs : OpAdmit(m, pc)
  BY DEF Reexport, LaunchReexport, Rerun, OpPcs
<1>3. op' \in [Meetings -> OpPcs]
  BY <1>2, OpGoesTypes DEF OpAdmit
<1> QED
  BY <1>1, <1>2, <1>3 DEF TypeOK, OpAdmit, OpOthers, rows

\* What the user chooses keeps the types.
LEMMA UserTypes ==
  ASSUME TypeOK, UserWorks
  PROVE  TypeOK'
<1> DEFINE u == user.meeting
<1>1. /\ u \in Meetings
      /\ user.row \in AssetRow
      /\ user.ids \in SUBSET Meetings
  BY DEF TypeOK, UserType
<1>2. \A pc \in UserPcs : [user EXCEPT !.pc = pc] \in UserType
  BY DEF TypeOK, UserType
<1>3. <<"user", u>> \in Stampers
  BY <1>1 DEF Stampers
<1>4. CASE ApplySaves
  <2>1. user' \in UserType
    BY <1>2, <1>4 DEF ApplySaves, UserGoes, UserPcs
  <2>2. row' \in [Meetings -> AssetRow]
    BY <1>1, <1>4, SaveRowTypes DEF ApplySaves
  <2>3. stamp' \in [Stampers -> StampType]
    BY <1>3, <1>4, StampGoesTypes DEF ApplySaves, StampPcs
  <2>4. keeps' \in SUBSET Meetings
    BY <1>1, <1>4 DEF ApplySaves, TypeOK
  <2> QED
    BY <1>4, <2>1, <2>2, <2>3, <2>4 DEF TypeOK, ApplySaves, UserOthers
<1>5. CASE ApplyEnds
  BY <1>5, Idle DEF TypeOK, ApplyEnds, UserOthers, rows, history
<1>6. CASE KeepSaves
  <2>1. row' \in [Meetings -> AssetRow]
    BY <1>6, RowTypes DEF KeepSaves, TypeOK
  <2>2. keeps' \in SUBSET Meetings
    BY <1>1, <1>6 DEF KeepSaves, TypeOK
  <2> QED
    BY <1>6, <2>1, <2>2, Idle DEF TypeOK, KeepSaves, UserOthers
<1>7. CASE AgainClaims
  <2>1. run' \in [Meetings -> RunType]
    BY <1>1, <1>7, RunGoesTypes DEF AgainClaims, RunPcs, TypeOK
  <2>2. user' \in UserType
    BY <1>2, <1>7, Idle DEF AgainClaims, UserGoes, UserPcs
  <2> QED
    BY <1>7, <2>1, <2>2 DEF TypeOK, AgainClaims, UserOthers, rows, history
<1>8. CASE AgainChecks
  <2>1. run' \in [Meetings -> RunType]
    BY <1>1, <1>8, RunLeavesTypes DEF AgainChecks, TypeOK
  <2>2. user' \in UserType
    BY <1>2, <1>8, Idle DEF AgainChecks, UserGoes, UserPcs
  <2> QED
    BY <1>8, <2>1, <2>2 DEF TypeOK, AgainChecks, UserOthers, rows, history
<1>9. CASE AgainSaves
  <2>1. run' \in [Meetings -> RunType]
    BY <1>1, <1>9, RunGoesTypes DEF AgainSaves, RunPcs
  <2>2. row' \in [Meetings -> AssetRow]
    BY <1>1, <1>9, RowTypes, SaveRowTypes DEF AgainSaves
  <2>3. state' \in [Meetings -> MeetingStates]
    BY <1>9 DEF AgainSaves, TypeOK, MeetingStates
  <2> QED
    BY <1>9, <2>1, <2>2, <2>3, Idle DEF TypeOK, AgainSaves, UserOthers, history
<1> QED
  BY <1>4, <1>5, <1>6, <1>7, <1>8, <1>9 DEF UserWorks

\* Every step of a call keeps the types.
LEMMA CallTypes ==
  ASSUME TypeOK,
         \/ \E m \in Meetings, rule \in Rules : Apply(m, rule)
         \/ KeepAll
         \/ \E m \in Meetings : Again(m)
  PROVE  TypeOK'
<1>1. events' \in 0..MaxEvents
  BY EventTypes DEF Apply, KeepAll, Again
<1>2. CASE \E m \in Meetings, rule \in Rules : Apply(m, rule)
  <2>1. PICK m \in Meetings, rule \in Rules : Apply(m, rule)
    BY <1>2
  <2>2. [retention |-> rule, expires |-> "none"] \in AssetRow
    BY RetentionAssumption DEF AssetRow, Expiries
  <2>3. user' \in UserType
    BY <2>1, <2>2 DEF Apply, UserType, UserPcs
  <2> QED
    BY <1>1, <2>1, <2>3 DEF TypeOK, Apply, UserOthers, rows, history
<1>3. CASE KeepAll
  <2>1. user' = [pc |-> "keep", meeting |-> AnyMeeting, row |-> NoRow,
                 ids |-> {m \in Meetings : master[MasterOf[m]]}]
    BY <1>3 DEF KeepAll, IdleUser
  <2>2. user' \in UserType
    BY <2>1, Idle DEF UserType, UserPcs
  <2> QED
    BY <1>1, <1>3, <2>2 DEF TypeOK, KeepAll, UserOthers, rows, history
<1>4. CASE \E m \in Meetings : Again(m)
  <2>1. PICK m \in Meetings : Again(m)
    BY <1>4
  <2>2. row[m] \in AssetRow
    BY DEF TypeOK
  <2>3. user' \in UserType
    BY <2>1, <2>2 DEF Again, UserType, UserPcs
  <2> QED
    BY <1>1, <2>1, <2>3 DEF TypeOK, Again, UserOthers, rows, history
<1> QED
  BY <1>2, <1>3, <1>4

\* What a step of the launch leaves alone.
LEMMA LaunchLeaves ==
  ASSUME Launch \/ LaunchStops
  PROVE  /\ UNCHANGED <<delivered, complete, master, op, stamp, user>>
         /\ run' = run \/ LaunchStarts
         /\ row' = row \/ LaunchClears
         /\ state' = state \/ LaunchFails
         /\ overtaken' = overtaken \/ LaunchStarts \/ LaunchFails
<1> USE DEF LaunchOthers
<1>1. CASE LaunchLists
  BY <1>1 DEF LaunchLists
<1>2. ASSUME NEW m \in Meetings, LaunchLooks(m)
      PROVE  UNCHANGED <<delivered, complete, master, op, stamp, user, run, row, state, overtaken>>
  BY <1>2 DEF LaunchLooks
<1>3. CASE LaunchReads
  BY <1>3 DEF LaunchReads
<1>4. CASE LaunchStarts
  BY <1>4 DEF LaunchStarts
<1>5. CASE LaunchClears
  BY <1>5 DEF LaunchClears
<1>6. CASE LaunchFails
  BY <1>6 DEF LaunchFails
<1>7. CASE LaunchStops
  BY <1>7 DEF LaunchStops
<1>8. CASE LaunchRetries
  BY <1>8 DEF LaunchRetries
<1> QED
  BY <1>1, <1>2, <1>3, <1>4, <1>5, <1>6, <1>7, <1>8 DEF Launch

\* What the launch's loop carries is typed.
LEMMA LaunchParts ==
  ASSUME TypeOK
  PROVE  /\ launch = [pc |-> launch.pc, late |-> launch.late, queued |-> launch.queued,
                      processing |-> launch.processing, meeting |-> launch.meeting,
                      row |-> launch.row]
         /\ launch.pc \in LaunchPcs
         /\ launch.late \in Latenesses
         /\ launch.queued \in SUBSET Meetings
         /\ launch.processing \in SUBSET Meetings
         /\ launch.meeting \in Meetings
         /\ launch.row \in AssetRow
  BY DEF TypeOK, LaunchType

\* Passing a meeting keeps the type of the loop and drops the meeting.
LEMMA PassTypes ==
  ASSUME TypeOK, NEW m \in Meetings, LaunchPasses(m)
  PROVE  /\ launch' \in LaunchType
         /\ launch'.pc = "next"
         /\ launch'.queued = launch.queued \ {m}
  BY LaunchParts, Idle DEF LaunchPasses, LaunchType, LaunchPcs

\* Every step of a launch keeps the types.
LEMMA LaunchTypes ==
  ASSUME TypeOK, Launch \/ LaunchStops
  PROVE  TypeOK'
<1> USE DEF LaunchOthers
<1>1. /\ launch.meeting \in Meetings
      /\ launch.row \in AssetRow
      /\ row[launch.meeting] \in AssetRow
  BY LaunchParts DEF TypeOK
<1>2. \A m \in Meetings : Overtakes(m) => overtaken' \in SUBSET Meetings
  BY DEF Overtakes, TypeOK
<1>3. CASE LaunchLists
  <2>1. launch' \in LaunchType
    <3> DEFINE q == {m \in Meetings : state[m] = "queued"}
               p == {m \in Meetings : state[m] = "processing"}
    <3>1. q \in SUBSET Meetings /\ p \in SUBSET Meetings
      OBVIOUS
    <3>2. launch' = [launch EXCEPT !.pc = "next", !.queued = q, !.processing = p]
      BY <1>3 DEF LaunchLists
    <3> HIDE DEF q, p
    <3> QED
      BY <3>1, <3>2, LaunchParts DEF LaunchType, LaunchPcs
  <2> QED
    BY <1>3, <2>1 DEF TypeOK, LaunchLists
<1>4. CASE LaunchClears
  <2>1. launch' \in LaunchType
    BY <1>4, LaunchParts DEF LaunchClears, LaunchType, LaunchPcs
  <2>2. row' \in [Meetings -> AssetRow]
    BY <1>1, <1>4, RowTypes, SaveRowTypes DEF LaunchClears
  <2> QED
    BY <1>4, <2>1, <2>2 DEF TypeOK, LaunchClears
<1>5. CASE LaunchFails
  <2>1. launch' \in LaunchType
    BY <1>1, <1>5, PassTypes DEF LaunchFails
  <2>2. state' \in [Meetings -> MeetingStates]
    BY <1>1, <1>5 DEF LaunchFails, TypeOK, MeetingStates
  <2>3. overtaken' \in SUBSET Meetings
    BY <1>1, <1>2, <1>5 DEF LaunchFails
  <2> QED
    BY <1>5, <2>1, <2>2, <2>3 DEF TypeOK, LaunchFails
<1>6. CASE LaunchStarts
  <2>1. launch' \in LaunchType
    BY <1>1, <1>6, PassTypes DEF LaunchStarts
  <2>2. run' \in [Meetings -> RunType]
    BY <1>1, <1>6, RunGoesTypes DEF LaunchStarts, RunPcs, TypeOK
  <2>3. overtaken' \in SUBSET Meetings
    BY <1>1, <1>2, <1>6 DEF LaunchStarts, TypeOK
  <2> QED
    BY <1>6, <2>1, <2>2, <2>3 DEF TypeOK, LaunchStarts
<1>7. ASSUME NEW m \in Meetings, LaunchLooks(m)
      PROVE  TypeOK'
  <2>1. launch' \in LaunchType
    <3>1. CASE LaunchPasses(m)
      BY <3>1, PassTypes
    <3>2. CASE launch' = [launch EXCEPT !.pc = "read", !.meeting = m]
      BY <3>2, LaunchParts DEF LaunchType, LaunchPcs
    <3> QED
      BY <1>7, <3>1, <3>2 DEF LaunchLooks
  <2> QED
    BY <1>7, <2>1 DEF TypeOK, LaunchLooks
<1>8. CASE LaunchReads
  <2>1. PICK pc \in {"start", "clear", "fail"} :
          launch' = [launch EXCEPT !.pc = pc, !.row = row[launch.meeting]]
    BY <1>8 DEF LaunchReads
  <2>2. launch' \in LaunchType
    BY <1>1, <2>1, LaunchParts DEF LaunchType, LaunchPcs
  <2> QED
    BY <1>8, <2>2 DEF TypeOK, LaunchReads
<1>9. CASE LaunchRetries
  <2>1. launch' \in LaunchType
    BY <1>9, LaunchParts DEF LaunchRetries, LaunchType, LaunchPcs
  <2> QED
    BY <1>9, <2>1 DEF TypeOK, LaunchRetries
<1>10. CASE LaunchStops
  <2>1. events' \in 0..MaxEvents
    BY <1>10, EventTypes DEF LaunchStops
  <2>2. \A late \in Latenesses, pc \in LaunchPcs :
          [LaunchBegins(late) EXCEPT !.pc = pc] \in LaunchType
    BY Idle DEF LaunchType
  <2>3. launch' \in LaunchType
    BY <1>10, <2>2, LaunchParts DEF LaunchStops, LaunchPcs, Latenesses
  <2> QED
    BY <1>10, <2>1, <2>3 DEF TypeOK, LaunchStops
<1> QED
  BY <1>3, <1>4, <1>5, <1>6, <1>7, <1>8, <1>9, <1>10 DEF Launch

\* Every step of a sweep keeps the types.
LEMMA SweepTypes ==
  ASSUME TypeOK, SweepWorks \/ \E m \in Meetings : SweepResisted(m)
  PROVE  TypeOK'
<1>1. ASSUME NEW m \in Meetings
      PROVE  [master EXCEPT ![MasterOf[m]] = FALSE] \in [Files -> BOOLEAN]
  BY DEF TypeOK
<1>2. CASE SweepLists
  BY <1>2 DEF TypeOK, SweepLists, SweepOthers, history
<1>3. ASSUME NEW m \in Meetings, SweepSkips(m)
      PROVE  TypeOK'
  BY <1>3 DEF TypeOK, SweepSkips, SweepOthers, history
<1>4. ASSUME NEW m \in Meetings, SweepRemoves(m)
      PROVE  TypeOK'
  <2>1. row[m] \in AssetRow
    BY DEF TypeOK
  <2>2. row' \in [Meetings -> AssetRow]
    BY <1>4, <2>1, RowTypes, SaveRowTypes DEF SweepRemoves
  <2> QED
    BY <1>1, <1>4, <2>2 DEF TypeOK, SweepRemoves, SweepOthers, history
<1>5. ASSUME NEW m \in Meetings, SweepResisted(m)
      PROVE  TypeOK'
  <2>1. events' \in 0..MaxEvents
    BY <1>5, EventTypes DEF SweepResisted
  <2>2. master' \in [Files -> BOOLEAN]
    BY <1>1, <1>5 DEF SweepResisted, TypeOK
  <2> QED
    BY <1>5, <2>1, <2>2 DEF TypeOK, SweepResisted, SweepOthers, history
<1> QED
  BY <1>2, <1>3, <1>4, <1>5 DEF SweepWorks

\* A crash, and time that passes, keep the types.
LEMMA OutsideTypes ==
  ASSUME TypeOK, Crash \/ \E m \in Meetings : TimePasses(m)
  PROVE  TypeOK'
<1>1. CASE Crash
  <2>1. /\ run' \in [Meetings -> RunType]
        /\ op' \in [Meetings -> OpPcs]
        /\ stamp' \in [Stampers -> StampType]
        /\ user' \in UserType
    BY <1>1, Idle DEF Crash, OpPcs
  <2>2. launch' \in LaunchType
    BY <1>1, Idle DEF Crash, Latenesses
  <2>3. events' \in 0..MaxEvents
    BY <1>1, EventTypes DEF Crash
  <2> QED
    BY <1>1, <2>1, <2>2, <2>3 DEF TypeOK, Crash, rows
<1>2. ASSUME NEW m \in Meetings, TimePasses(m)
      PROVE  TypeOK'
  <2>1. row[m] \in AssetRow
    BY DEF TypeOK
  <2>2. row' \in [Meetings -> AssetRow]
    BY <1>2, <2>1, RowTypes, SaveRowTypes DEF TimePasses
  <2> QED
    BY <1>2, <2>2 DEF TypeOK, TimePasses, actors, history
<1> QED
  BY <1>1, <1>2

\* Every step keeps the types.
LEMMA NextTypes == TypeOK /\ [Next]_vars => TypeOK'
<1> SUFFICES ASSUME TypeOK, [Next]_vars
             PROVE  TypeOK'
  OBVIOUS
<1>1. CASE UNCHANGED vars
  BY <1>1 DEF TypeOK, vars, rows, actors, history
<1>2. CASE Next
  BY <1>2, StampTypes, RunTypes, OpTypes, AdmitTypes, UserTypes, CallTypes, LaunchTypes,
     SweepTypes, OutsideTypes DEF Next
<1> QED
  BY <1>1, <1>2

\* Every variable of the retention model keeps its type, whatever the
\* meetings, the masters they share, the rows found and the events.
THEOREM TypeCorrect == Spec => []TypeOK
<1>1. Init => TypeOK
  <2> SUFFICES ASSUME Init
               PROVE  TypeOK
    OBVIOUS
  <2>1. PICK found \in [Meetings -> InitialRows] :
          /\ state = [m \in Meetings |-> found[m].state]
          /\ row = [m \in Meetings |-> found[m].asset]
          /\ delivered = [m \in Meetings |-> found[m].delivered]
          /\ complete = [m \in Meetings |-> found[m].complete]
    BY DEF Init
  <2>2. \A m \in Meetings : found[m] \in MeetingRow
    BY RetentionAssumption
  <2>3. /\ state \in [Meetings -> MeetingStates]
        /\ row \in [Meetings -> AssetRow]
        /\ delivered \in [Meetings -> BOOLEAN]
        /\ complete \in [Meetings -> BOOLEAN]
    BY <2>1, <2>2 DEF MeetingRow
  <2>4. launch \in LaunchType
    BY Idle DEF Init, Latenesses
  <2>5. run \in [Meetings -> RunType] /\ op \in [Meetings -> OpPcs]
    BY Idle DEF Init, OpPcs
  <2>7. stamp \in [Stampers -> StampType] /\ user \in UserType
    BY Idle DEF Init
  <2>6. /\ master = [f \in Files |-> TRUE]
        /\ sweep = {} /\ keeps = {} /\ overtaken = {}
        /\ events = 0 /\ sweepDue = TRUE /\ unswept = FALSE
    BY DEF Init
  <2>8. events \in 0..MaxEvents
    BY <2>6, RetentionAssumption
  <2> QED
    BY <2>3, <2>4, <2>5, <2>6, <2>7, <2>8 DEF TypeOK
<1> QED
  BY <1>1, NextTypes, PTL DEF Spec

-----------------------------------------------------------------------------
(* A kept master stays.                                                     *)

\* A row kept forever has no stamp.
Sound(r) == r.retention = "keepForever" => r.expires = "none"

\* Every row is sound, in the database and as whoever will save it read it.
KeptUnstamped ==
  /\ \A m \in Meetings : Sound(row[m]) /\ Sound(run[m].row)
  /\ user.pc = "apply" => Sound(user.row)

\* The rows a step makes are sound: none, a kept one, one without a stamp or
\* one stamped by its rule.
LEMMA SoundRows ==
  /\ Sound(NoRow)
  /\ Sound(Kept)
  /\ \A r \in AssetRow : /\ Sound(Unstamped(r))
                         /\ Sound([r EXCEPT !.expires = Expiry(r.retention)])
  BY DEF Sound, NoRow, Kept, AssetRow, AllRules, Unstamped, Expiry

\* A sound row that replaces a meeting's leaves every row sound.
LEMMA SaveIsSound ==
  ASSUME TypeOK, KeptUnstamped, NEW m \in Meetings, NEW r \in AssetRow, Sound(r), SaveRow(m, r)
  PROVE  \A k \in Meetings : Sound(row'[k])
  BY DEF TypeOK, KeptUnstamped, SaveRow

\* A run that goes on carries a sound row still.
LEMMA RunGoesSound ==
  ASSUME TypeOK, KeptUnstamped, NEW m \in Meetings, NEW pc, RunGoes(m, pc)
  PROVE  \A k \in Meetings : Sound(run'[k].row)
  BY DEF TypeOK, RunType, KeptUnstamped, RunGoes

\* A run that rereads its row carries a sound one: the row is.
LEMMA RunReadsSound ==
  ASSUME TypeOK, KeptUnstamped, NEW m \in Meetings, NEW pc, RunReads(m, pc)
  PROVE  \A k \in Meetings : Sound(run'[k].row)
<1>1. \A k \in Meetings : run'[k].row = IF k = m THEN row[m] ELSE run[k].row
  BY DEF TypeOK, RunType, RunReads
<1> QED
  BY <1>1 DEF KeptUnstamped

\* Once a run has left, what the others carry is sound still.
LEMMA RunLeavesSound ==
  ASSUME TypeOK, KeptUnstamped, NEW m \in Meetings, RunLeaves(m)
  PROVE  \A k \in Meetings : Sound(run'[k].row)
<1>1. \A k \in Meetings : run'[k].row = IF k = m THEN NoRow ELSE run[k].row
  BY DEF TypeOK, RunType, RunLeaves, IdleRun
<1> QED
  BY <1>1, SoundRows DEF KeptUnstamped

\* A stamping saves a sound row: what its rule says.
LEMMA StampKeepsSound ==
  ASSUME TypeOK, KeptUnstamped, NEW s \in Stampers, Stamp(s)
  PROVE  KeptUnstamped'
<1>1. CASE StampSaves(s)
  <2>1. \A k \in Meetings : Sound(row'[k])
    BY <1>1, StamperTypes, RowTypes, SoundRows, SaveIsSound DEF StampSaves
  <2> QED
    BY <1>1, <2>1 DEF KeptUnstamped, StampSaves
<1>2. CASE ~StampSaves(s)
  BY <1>2 DEF Stamp, StampDeferred, StampDeliveries, StampNeeds, StampReads, StampOthers, rows,
              KeptUnstamped
<1> QED
  BY <1>1, <1>2

\* A run saves the row it reread, or a kept one: sound both.
LEMMA RunKeepsSound ==
  ASSUME TypeOK, KeptUnstamped, NEW m \in Meetings, Run(m)
  PROVE  KeptUnstamped'
<1>1. user' = user
  BY DEF Run, RunFinds, RunAdmit, RunBegins, RunDecodes, RunSalvages, RunKeeps, RunSavesResults,
         PersistReads, PersistSaves, PersistOwes, PersistReady, RunDelivers, RunEnds, RunFails,
         RunOthers
<1>2. \A k \in Meetings : Sound(run'[k].row)
  BY RunGoesSound, RunReadsSound, RunLeavesSound
     DEF Run, RunFinds, RunAdmit, RunBegins, RunDecodes, RunSalvages, RunKeeps, RunSavesResults,
         PersistReads, PersistSaves, PersistOwes, PersistReady, RunDelivers, RunEnds, RunFails
<1>3. \A k \in Meetings : Sound(row'[k])
  <2>1. CASE RunKeeps(m)
    BY <2>1, RowTypes, SoundRows, SaveIsSound DEF RunKeeps
  <2>2. CASE PersistSaves(m)
    <3>1. run[m].row \in AssetRow /\ Sound(run[m].row)
      BY DEF TypeOK, RunType, KeptUnstamped
    <3> QED
      BY <2>2, <3>1, SaveIsSound DEF PersistSaves
  <2>3. CASE ~RunKeeps(m) /\ ~PersistSaves(m)
    <3>1. row' = row
      BY <2>3 DEF Run, RunFinds, RunAdmit, RunBegins, RunDecodes, RunSalvages, RunSavesResults,
                  PersistReads, PersistOwes, PersistReady, RunDelivers, RunEnds, RunFails, rows
    <3> QED
      BY <3>1 DEF KeptUnstamped
  <2> QED
    BY <2>1, <2>2, <2>3
<1> QED
  BY <1>1, <1>2, <1>3 DEF KeptUnstamped

\* What the user chooses is saved as a sound row.
LEMMA UserKeepsSound ==
  ASSUME TypeOK, KeptUnstamped, UserWorks
  PROVE  KeptUnstamped'
<1>1. /\ user.meeting \in Meetings
      /\ user.row \in AssetRow
  BY DEF TypeOK, UserType
<1>2. user'.pc # "apply"
  BY DEF UserWorks, ApplySaves, ApplyEnds, KeepSaves, AgainClaims, AgainChecks, AgainSaves,
         UserGoes, IdleUser, TypeOK, UserType
<1>3. \A k \in Meetings : Sound(run'[k].row)
  BY <1>1, RunGoesSound, RunLeavesSound
     DEF UserWorks, ApplySaves, ApplyEnds, KeepSaves, AgainClaims, AgainChecks, AgainSaves,
         KeptUnstamped
<1>4. \A k \in Meetings : Sound(row'[k])
  <2>1. CASE ApplySaves
    <3>1. Sound(user.row)
      BY <2>1 DEF ApplySaves, KeptUnstamped
    <3> QED
      BY <1>1, <2>1, <3>1, SaveIsSound DEF ApplySaves
  <2>2. CASE KeepSaves
    BY <2>2, SoundRows DEF KeepSaves, KeptUnstamped
  <2>3. CASE AgainSaves
    BY <1>1, <2>3, RowTypes, SoundRows, SaveIsSound DEF AgainSaves
  <2>4. CASE ApplyEnds \/ AgainClaims \/ AgainChecks
    BY <2>4 DEF ApplyEnds, AgainClaims, AgainChecks, rows, KeptUnstamped
  <2> QED
    BY <2>1, <2>2, <2>3, <2>4 DEF UserWorks
<1> QED
  BY <1>2, <1>3, <1>4 DEF KeptUnstamped

\* A launch keeps every row sound.
LEMMA LaunchKeepsSound ==
  ASSUME TypeOK, KeptUnstamped, Launch \/ LaunchStops
  PROVE  KeptUnstamped'
<1>1. /\ launch.meeting \in Meetings
      /\ launch.row \in AssetRow
  BY LaunchParts
<1>2. user' = user
  BY LaunchLeaves
<1>3. \A k \in Meetings : Sound(run'[k].row)
  <2>1. CASE LaunchStarts
    BY <1>1, <2>1, RunGoesSound DEF LaunchStarts, KeptUnstamped
  <2>2. CASE ~LaunchStarts
    BY <2>2, LaunchLeaves DEF KeptUnstamped
  <2> QED
    BY <2>1, <2>2
<1>4. \A k \in Meetings : Sound(row'[k])
  <2>1. CASE LaunchClears
    BY <1>1, <2>1, RowTypes, SoundRows, SaveIsSound DEF LaunchClears
  <2>2. CASE ~LaunchClears
    BY <2>2, LaunchLeaves DEF KeptUnstamped
  <2> QED
    BY <2>1, <2>2
<1> QED
  BY <1>2, <1>3, <1>4 DEF KeptUnstamped

\* A sweep keeps every row sound.
LEMMA SweepKeepsSound ==
  ASSUME TypeOK, KeptUnstamped,
         SweepWorks \/ \E m \in Meetings : SweepResisted(m) \/ TimePasses(m)
  PROVE  KeptUnstamped'
<1>1. ASSUME NEW m \in Meetings, SweepRemoves(m)
      PROVE  KeptUnstamped'
  <2>1. row[m] \in AssetRow
    BY DEF TypeOK
  <2>2. \A k \in Meetings : Sound(row'[k])
    BY <1>1, <2>1, RowTypes, SoundRows, SaveIsSound DEF SweepRemoves
  <2> QED
    BY <1>1, <2>2 DEF KeptUnstamped, SweepRemoves, SweepOthers
<1>2. ASSUME NEW m \in Meetings, TimePasses(m)
      PROVE  KeptUnstamped'
  <2>1. row[m] \in AssetRow /\ row[m].retention # "keepForever"
    BY <1>2 DEF TypeOK, TimePasses, KeptUnstamped, Sound
  <2>2. Sound([row[m] EXCEPT !.expires = "due"])
    BY <2>1 DEF Sound, AssetRow
  <2>3. \A k \in Meetings : Sound(row'[k])
    BY <1>2, <2>1, <2>2, RowTypes, SaveIsSound DEF TimePasses
  <2> QED
    BY <1>2, <2>3 DEF KeptUnstamped, TimePasses, actors
<1>3. ASSUME NEW m \in Meetings, SweepSkips(m) \/ SweepResisted(m)
      PROVE  KeptUnstamped'
  BY <1>3 DEF SweepSkips, SweepResisted, SweepOthers, KeptUnstamped
<1>4. CASE SweepLists
  BY <1>4 DEF SweepLists, SweepOthers, KeptUnstamped
<1> QED
  BY <1>1, <1>2, <1>3, <1>4 DEF SweepWorks

\* A call keeps every row sound.
LEMMA CallKeepsSound ==
  ASSUME TypeOK, KeptUnstamped,
         \/ \E m \in Meetings, rule \in Rules : Apply(m, rule)
         \/ KeepAll
         \/ Crash
         \/ \E m \in Meetings : \/ Again(m) \/ OpWorks(m)
                               \/ Reexport(m) \/ LaunchReexport(m) \/ Rerun(m)
  PROVE  KeptUnstamped'
<1>1. CASE \E m \in Meetings, rule \in Rules : Apply(m, rule)
  BY <1>1 DEF Apply, UserOthers, rows, KeptUnstamped, Sound
<1>2. CASE KeepAll
  BY <1>2 DEF KeepAll, IdleUser, UserOthers, rows, KeptUnstamped
<1>3. CASE Crash
  BY <1>3, SoundRows DEF Crash, IdleRun, IdleUser, rows, KeptUnstamped
<1>4. CASE \E m \in Meetings : Again(m)
  BY <1>4 DEF Again, UserOthers, rows, KeptUnstamped
<1>5. CASE \E m \in Meetings : OpWorks(m)
  BY <1>5 DEF OpWorks, StillOwed, Resummarize, OpOwes, OpDelivers, OpEnds, OpOthers, rows,
              KeptUnstamped
<1>6. CASE \E m \in Meetings : Reexport(m) \/ LaunchReexport(m) \/ Rerun(m)
  BY <1>6 DEF Reexport, LaunchReexport, Rerun, OpAdmit, OpOthers, rows, KeptUnstamped
<1> QED
  BY <1>1, <1>2, <1>3, <1>4, <1>5, <1>6

\* Every step keeps every row sound.
LEMMA NextKeepsSound == TypeOK /\ KeptUnstamped /\ [Next]_vars => KeptUnstamped'
<1> SUFFICES ASSUME TypeOK, KeptUnstamped, [Next]_vars
             PROVE  KeptUnstamped'
  OBVIOUS
<1>1. CASE UNCHANGED vars
  BY <1>1 DEF KeptUnstamped, vars, rows, actors
<1>2. CASE Next
  BY <1>2, StampKeepsSound, RunKeepsSound, UserKeepsSound, LaunchKeepsSound, SweepKeepsSound,
     CallKeepsSound DEF Next
<1> QED
  BY <1>1, <1>2

\* A master goes only in the sweep, whose check in the removing write asks
\* for every row that names the file.
LEMMA OnlySweepsRemove ==
  ASSUME TypeOK, KeptUnstamped, [Next]_vars, NEW f \in Files, master[f], ~master'[f],
         NEW m \in Meetings, MasterOf[m] = f
  PROVE  row[m].retention # "keepForever" /\ state[m] \notin Unfinished
<1>1. PICK k \in Meetings : SweepRemoves(k) \/ SweepResisted(k)
  BY LaunchLeaves
     DEF Next, vars, rows, Stamp, StampDeferred, StampDeliveries, StampNeeds, StampReads,
         StampSaves, StampOthers, Run, RunFinds, RunAdmit, RunBegins, RunDecodes, RunSalvages,
         RunKeeps, RunSavesResults, PersistReads, PersistSaves, PersistOwes, PersistReady,
         RunDelivers, RunEnds, RunFails, RunOthers, OpWorks, StillOwed, Resummarize, OpOwes,
         OpDelivers, OpEnds, Reexport, LaunchReexport, Rerun, OpAdmit, OpOthers, Apply, Again,
         KeepAll, UserWorks, ApplySaves, ApplyEnds, KeepSaves, AgainClaims, AgainChecks,
         AgainSaves, UserOthers, SweepWorks, SweepLists, SweepSkips, SweepOthers, TimePasses,
         Crash
<1>2. MasterOf[k] = f
  BY <1>1 DEF SweepRemoves, SweepResisted, TypeOK
<1>3. Due(k) /\ ~HasKeeper(k)
  BY <1>1, <1>2 DEF SweepRemoves, SweepResisted, Sweepable
<1>4. Due(m)
  BY <1>2, <1>3 DEF HasKeeper
<1> QED
  BY <1>4 DEF Due, KeptUnstamped, Sound

\* The sweep never removes a master that some row keeps forever or some
\* unfinished meeting needs, however many rows share it and whatever changed
\* since the sweep made its list (sweep_expired_asset, keeper_of_master).
THEOREM KeptMastersStay == Spec => KeptMasterStays
<1>1. Init => KeptUnstamped
  <2> SUFFICES ASSUME Init
               PROVE  KeptUnstamped
    OBVIOUS
  <2>1. PICK found \in [Meetings -> InitialRows] : row = [m \in Meetings |-> found[m].asset]
    BY DEF Init
  <2>2. \A m \in Meetings : Sound(row[m])
    BY <2>1, RetentionAssumption DEF Sound
  <2> QED
    BY <2>2, SoundRows DEF Init, KeptUnstamped, IdleRun, IdleUser
<1>2. TypeOK /\ KeptUnstamped /\ [Next]_vars =>
        [\A f \in Files : master[f] /\ ~master'[f] =>
           \A m \in Meetings : MasterOf[m] = f =>
             row[m].retention # "keepForever" /\ state[m] \notin Unfinished]_vars
  BY OnlySweepsRemove
<1> QED
  BY <1>1, <1>2, NextKeepsSound, TypeCorrect, PTL DEF Spec, KeptMasterStays

-----------------------------------------------------------------------------
(* Unfinished and failed meetings' audio is unstamped.                      *)

\* The places of a run that is to process the meeting or does so.
Working == {"queued", "found", "admitted", "decode", "salvage", "keep", "results",
            "persist", "saveRow", "owe", "ready"}

\* Only a ready meeting has a stamp.
Clean(m) == state[m] # "ready" => row[m].expires = "none"

\* What the launch is to start or to fail has no stamp unless it is ready.
LaunchTodo(m) ==
  /\ m \in launch.queued => Clean(m)
  /\ launch.pc \in {"start", "fail"} /\ launch.meeting = m => Clean(m)

\* A run up to `persist` works on an unstamped row of a meeting that is not
\* ready, and what it read of it is unstamped; after `persist` it is ready.
RunIsSafe(m) ==
  /\ run[m].pc \in Working => row[m].expires = "none" /\ state[m] # "ready"
  /\ run[m].pc = "saveRow" => run[m].row.expires = "none"
  /\ run[m].pc \in {"deliver", "retention"} => state[m] = "ready"
  /\ stamp[<<"run", m>>].pc # "idle" => run[m].pc = "retention"

\* An operation works on a finished meeting without a run, and stamps a
\* ready one.
OpIsSafe(m) ==
  /\ op[m] # "idle" => run[m].pc = "idle" /\ state[m] \notin Unfinished
  /\ stamp[<<"op", m>>].pc # "idle" => op[m] = "retention"
  /\ stamp[<<"op", m>>].pc \notin {"idle", "deferred"} => state[m] = "ready"

\* "Process again" holds the claim it writes under; the user's rule clears
\* the stamp, and stamps a ready meeting.
UserIsSafe(m) ==
  /\ user.pc \in {"check", "requeue"} /\ user.meeting = m => run[m].pc = "claimed"
  /\ run[m].pc = "claimed" => user.pc \in {"check", "requeue"} /\ user.meeting = m
  /\ user.pc = "apply" => user.row.expires = "none"
  /\ stamp[<<"user", m>>].pc # "idle" => user.pc = "retention" /\ user.meeting = m
  /\ stamp[<<"user", m>>].pc \notin {"idle", "deferred"} => state[m] = "ready"

Unfit(m) == state[m] \in {"queued", "failed"} => row[m].expires = "none"

MeetingSafe(m) == LaunchTodo(m) /\ RunIsSafe(m) /\ OpIsSafe(m) /\ UserIsSafe(m) /\ Unfit(m)

Safe == \A m \in Meetings \ overtaken : MeetingSafe(m)

-----------------------------------------------------------------------------
(* What the steps' parts change.                                            *)

\* A run that goes on moves alone and carries the row it read.
LEMMA RunGoesIs ==
  ASSUME TypeOK, NEW k \in Meetings, NEW pc, RunGoes(k, pc)
  PROVE  /\ run'[k].pc = pc
         /\ run'[k].row = run[k].row
         /\ \A m \in Meetings \ {k} : run'[m] = run[m]
  BY DEF TypeOK, RunGoes, RunType

\* A run that rereads its row moves alone and carries it.
LEMMA RunReadsIs ==
  ASSUME TypeOK, NEW k \in Meetings, NEW pc, RunReads(k, pc)
  PROVE  /\ run'[k].pc = pc
         /\ run'[k].row = row[k]
         /\ \A m \in Meetings \ {k} : run'[m] = run[m]
  BY DEF TypeOK, RunReads, RunType

\* A run that ends moves alone.
LEMMA RunLeavesIs ==
  ASSUME TypeOK, NEW k \in Meetings, RunLeaves(k)
  PROVE  /\ run'[k].pc = "idle"
         /\ \A m \in Meetings \ {k} : run'[m] = run[m]
  BY DEF TypeOK, RunLeaves, IdleRun, RunType

\* An operation that goes on moves alone.
LEMMA OpGoesIs ==
  ASSUME TypeOK, NEW k \in Meetings, NEW pc, OpGoes(k, pc)
  PROVE  op'[k] = pc /\ \A m \in Meetings \ {k} : op'[m] = op[m]
  BY DEF TypeOK, OpGoes

\* A save writes one row.
LEMMA SaveRowIs ==
  ASSUME TypeOK, NEW k \in Meetings, NEW r, SaveRow(k, r)
  PROVE  row'[k] = r /\ \A m \in Meetings \ {k} : row'[m] = row[m]
  BY DEF TypeOK, SaveRow

\* A row whose stamp is taken off never expires.
LEMMA UnstampedIs == \A r \in AssetRow : Unstamped(r).expires = "none"
  BY DEF Unstamped, AssetRow

\* A stamping that goes on moves alone.
LEMMA StampGoesIs ==
  ASSUME TypeOK, NEW s \in Stampers, NEW pc, stamp' = [stamp EXCEPT ![s].pc = pc]
  PROVE  stamp'[s].pc = pc /\ \A t \in Stampers \ {s} : stamp'[t] = stamp[t]
  BY DEF TypeOK, StampType

\* A stamping that ends moves alone.
LEMMA StampLeavesIs ==
  ASSUME TypeOK, NEW s \in Stampers, StampLeaves(s)
  PROVE  stamp'[s].pc = "idle" /\ \A t \in Stampers \ {s} : stamp'[t] = stamp[t]
  BY DEF TypeOK, StampLeaves, IdleStamp, StampType

\* The stamper of one kind and one meeting.
LEMMA StampersAre ==
  /\ \A w \in {"run", "op", "user"}, m \in Meetings : <<w, m>> \in Stampers
  /\ \A s \in Stampers : s[1] \in {"run", "op", "user"} /\ s[2] \in Meetings /\ s = <<s[1], s[2]>>
  BY DEF Stampers

\* A step that touches nothing of a meeting leaves it safe.
LEMMA Untouched ==
  ASSUME NEW m \in Meetings, MeetingSafe(m),
         state'[m] = state[m], row'[m] = row[m], run'[m] = run[m], op'[m] = op[m],
         \A w \in {"run", "op", "user"} : stamp'[<<w, m>>] = stamp[<<w, m>>],
         UNCHANGED <<user, launch>>
  PROVE  MeetingSafe(m)'
  BY DEF MeetingSafe, LaunchTodo, Clean, RunIsSafe, OpIsSafe, UserIsSafe, Unfit

\* A stamping keeps unfinished meetings safe.
LEMMA StampSafe ==
  ASSUME TypeOK, Safe, NEW s \in Stampers, Stamp(s)
  PROVE  Safe'
<1> DEFINE k == s[2]
<1>1. k \in Meetings /\ s[1] \in {"run", "op", "user"} /\ s = <<s[1], k>>
  BY StampersAre
<1>2. UNCHANGED <<state, run, op, user, launch, overtaken>>
  BY DEF Stamp, StampDeferred, StampDeliveries, StampNeeds, StampReads, StampSaves, StampOthers,
         rows, history
<1>3. stamp[s].pc # "idle"
  BY DEF Stamp, StampDeferred, StampDeliveries, StampNeeds, StampReads, StampSaves, StampAt
<1>4. \A t \in Stampers \ {s} : stamp'[t] = stamp[t]
  <2>1. stamp \in [Stampers -> StampType]
    BY DEF TypeOK
  <2> QED
    BY <2>1 DEF Stamp, StampDeferred, StampDeliveries, StampNeeds, StampReads, StampSaves,
                StampGoes, StampLeaves
<1>5. \A m \in Meetings \ {k}, w \in {"run", "op", "user"} : stamp'[<<w, m>>] = stamp[<<w, m>>]
  BY <1>1, <1>4, StampersAre
<1>6. \A m \in Meetings \ {k} : row'[m] = row[m]
  BY <1>1, SaveRowIs DEF Stamp, StampDeferred, StampDeliveries, StampNeeds, StampReads, StampSaves,
         StampOthers, rows
<1>7. stamp'[s].pc \notin {"idle", "deferred"} => stamp[s].pc # "deferred" \/ state[k] = "ready"
  BY StampLeavesIs
     DEF Stamp, StampDeferred, StampDeliveries, StampNeeds, StampReads, StampSaves, StampAt
<1>8. row'[k] = row[k] \/ stamp[s].pc = "save"
  BY DEF Stamp, StampDeferred, StampDeliveries, StampNeeds, StampReads, StampSaves,
         StampOthers, rows, StampAt
<1>10. ASSUME NEW m \in Meetings \ overtaken'
       PROVE  MeetingSafe(m)'
  <2>1. MeetingSafe(m)
    BY <1>2, <1>10 DEF Safe
  <2>2. CASE m # k
    BY <1>2, <1>5, <1>6, <2>1, <2>2, Untouched
  <2>3. CASE m = k
    <3> HIDE DEF k
    <3>1. CASE s[1] = "run"
      <4>1. /\ \A w \in {"op", "user"} : stamp'[<<w, k>>] = stamp[<<w, k>>]
            /\ s = <<"run", k>>
        BY <1>1, <1>4, <3>1, StampersAre
      <4>2. run[k].pc = "retention"
        BY <1>3, <2>1, <2>3, <4>1 DEF MeetingSafe, RunIsSafe
      <4> QED
        BY <1>2, <1>8, <2>1, <2>3, <4>1, <4>2
           DEF MeetingSafe, LaunchTodo, Clean, RunIsSafe, OpIsSafe, UserIsSafe, Unfit, Working
    <3>2. CASE s[1] = "op"
      <4>1. /\ \A w \in {"run", "user"} : stamp'[<<w, k>>] = stamp[<<w, k>>]
            /\ s = <<"op", k>>
        BY <1>1, <1>4, <3>2, StampersAre
      <4>2. op[k] = "retention" /\ run[k].pc = "idle"
        BY <1>3, <2>1, <2>3, <4>1 DEF MeetingSafe, OpIsSafe
      <4>3. stamp[s].pc = "save" => state[k] = "ready"
        BY <2>1, <2>3, <4>1 DEF MeetingSafe, OpIsSafe
      <4>4. stamp'[s].pc \notin {"idle", "deferred"} => state[k] = "ready"
        BY <1>3, <1>7, <2>1, <2>3, <4>1 DEF MeetingSafe, OpIsSafe
      <4> QED
        BY <1>2, <1>8, <2>1, <2>3, <4>1, <4>2, <4>3, <4>4
           DEF MeetingSafe, LaunchTodo, Clean, RunIsSafe, OpIsSafe, UserIsSafe, Unfit, Working
    <3>3. CASE s[1] = "user"
      <4>1. /\ \A w \in {"run", "op"} : stamp'[<<w, k>>] = stamp[<<w, k>>]
            /\ s = <<"user", k>>
        BY <1>1, <1>4, <3>3, StampersAre
      <4>2. user.pc = "retention" /\ user.meeting = k
        BY <1>3, <2>1, <2>3, <4>1 DEF MeetingSafe, UserIsSafe
      <4>3. stamp[s].pc = "save" => state[k] = "ready"
        BY <2>1, <2>3, <4>1 DEF MeetingSafe, UserIsSafe
      <4>4. stamp'[s].pc \notin {"idle", "deferred"} => state[k] = "ready"
        BY <1>3, <1>7, <2>1, <2>3, <4>1 DEF MeetingSafe, UserIsSafe
      <4> QED
        BY <1>2, <1>8, <2>1, <2>3, <4>1, <4>2, <4>3, <4>4
           DEF MeetingSafe, LaunchTodo, Clean, RunIsSafe, OpIsSafe, UserIsSafe, Unfit, Working,
               Unfinished
    <3> QED
      BY <1>1, <3>1, <3>2, <3>3
  <2> QED
    BY <2>2, <2>3
<1> QED
  BY <1>2, <1>10 DEF Safe

\* A run keeps them safe: it is the one who finishes its meeting.
LEMMA RunSafe ==
  ASSUME TypeOK, Safe, NEW k \in Meetings, Run(k)
  PROVE  Safe'
<1> USE DEF RunOthers, RunAt
<1>1. UNCHANGED <<op, user, launch, overtaken>>
  BY DEF Run, RunFinds, RunAdmit, RunBegins, RunDecodes, RunSalvages, RunKeeps, RunSavesResults,
     PersistReads, PersistSaves, PersistOwes, PersistReady, RunDelivers, RunEnds, RunFails,
     history
<1>2. /\ \A m \in Meetings, w \in {"op", "user"} : stamp'[<<w, m>>] = stamp[<<w, m>>]
      /\ \A m \in Meetings \ {k} : stamp'[<<"run", m>>] = stamp[<<"run", m>>]
  <2>1. CASE RunDelivers(k)
    BY <2>1, StampersAre, StampGoesIs DEF RunDelivers
  <2>2. CASE ~RunDelivers(k)
    BY <2>2
       DEF Run, RunFinds, RunAdmit, RunBegins, RunDecodes, RunSalvages, RunKeeps, RunSavesResults,
           PersistReads, PersistSaves, PersistOwes, PersistReady, RunEnds, RunFails
  <2> QED
    BY <2>1, <2>2
<1>3. \A m \in Meetings \ {k} : state'[m] = state[m] /\ row'[m] = row[m] /\ run'[m] = run[m]
  <2>1. \A m \in Meetings \ {k} : run'[m] = run[m]
    BY RunGoesIs, RunReadsIs, RunLeavesIs
       DEF Run, RunFinds, RunAdmit, RunBegins, RunDecodes, RunSalvages, RunKeeps, RunSavesResults,
           PersistReads, PersistSaves, PersistOwes, PersistReady, RunDelivers, RunEnds, RunFails
  <2>2. \A m \in Meetings \ {k} : row'[m] = row[m]
    BY SaveRowIs
       DEF Run, RunFinds, RunAdmit, RunBegins, RunDecodes, RunSalvages, RunKeeps, RunSavesResults,
           PersistReads, PersistSaves, PersistOwes, PersistReady, RunDelivers, RunEnds, RunFails,
           rows
  <2>3. \A m \in Meetings \ {k} : state'[m] = state[m]
    BY DEF Run, RunFinds, RunAdmit, RunBegins, RunDecodes, RunSalvages, RunKeeps, RunSavesResults,
       PersistReads, PersistSaves, PersistOwes, PersistReady, RunDelivers, RunEnds, RunFails, rows,
       TypeOK
  <2> QED
    BY <2>1, <2>2, <2>3
<1>5. ASSUME k \notin overtaken
      PROVE  MeetingSafe(k)'
  <2>1. MeetingSafe(k)
    BY <1>5 DEF Safe
  <2>2. CASE RunFinds(k)
    BY <1>1, <1>2, <2>1, <2>2, RunReadsIs
       DEF RunFinds, rows, MeetingSafe, LaunchTodo, Clean, RunIsSafe, OpIsSafe, UserIsSafe, Unfit,
           Working, Unfinished
  <2>3. CASE RunAdmit(k)
    BY <1>1, <1>2, <2>1, <2>3, RunGoesIs, RunLeavesIs
       DEF RunAdmit, rows, MeetingSafe, LaunchTodo, Clean, RunIsSafe, OpIsSafe, UserIsSafe, Unfit,
           Working, Unfinished
  <2>4. CASE RunBegins(k)
    BY <1>1, <1>2, <2>1, <2>4, RunGoesIs
       DEF RunBegins, TypeOK, rows, MeetingSafe, LaunchTodo, Clean, RunIsSafe, OpIsSafe, UserIsSafe,
           Unfit, Working, Unfinished
  <2>5. CASE RunDecodes(k)
    BY <1>1, <1>2, <2>1, <2>5, RunGoesIs
       DEF RunDecodes, rows, MeetingSafe, LaunchTodo, Clean, RunIsSafe, OpIsSafe, UserIsSafe, Unfit,
           Working, Unfinished
  <2>6. CASE RunSalvages(k)
    BY <1>1, <1>2, <2>1, <2>6, RunReadsIs
       DEF RunSalvages, rows, MeetingSafe, LaunchTodo, Clean, RunIsSafe, OpIsSafe, UserIsSafe,
           Unfit, Working, Unfinished
  <2>7. CASE RunKeeps(k)
    BY <1>1, <1>2, <2>1, <2>7, RunGoesIs, SaveRowIs
       DEF RunKeeps, Kept, rows, MeetingSafe, LaunchTodo, Clean, RunIsSafe, OpIsSafe, UserIsSafe,
           Unfit, Working, Unfinished
  <2>8. CASE RunSavesResults(k)
    BY <1>1, <1>2, <2>1, <2>8, RunGoesIs
       DEF RunSavesResults, rows, MeetingSafe, LaunchTodo, Clean, RunIsSafe, OpIsSafe, UserIsSafe,
           Unfit, Working, Unfinished
  <2>9. CASE PersistReads(k)
    BY <1>1, <1>2, <2>1, <2>9, RunReadsIs
       DEF PersistReads, rows, MeetingSafe, LaunchTodo, Clean, RunIsSafe, OpIsSafe, UserIsSafe,
           Unfit, Working, Unfinished
  <2>10. CASE PersistSaves(k)
    BY <1>1, <1>2, <2>1, <2>10, RunGoesIs, SaveRowIs
       DEF PersistSaves, rows, MeetingSafe, LaunchTodo, Clean, RunIsSafe, OpIsSafe, UserIsSafe,
           Unfit, Working, Unfinished
  <2>11. CASE PersistOwes(k)
    BY <1>1, <1>2, <2>1, <2>11, RunGoesIs
       DEF PersistOwes, rows, MeetingSafe, LaunchTodo, Clean, RunIsSafe, OpIsSafe, UserIsSafe,
           Unfit, Working, Unfinished
  <2>12. CASE PersistReady(k)
    BY <1>1, <1>2, <2>1, <2>12, RunGoesIs
       DEF PersistReady, TypeOK, rows, MeetingSafe, LaunchTodo, Clean, RunIsSafe, OpIsSafe,
           UserIsSafe, Unfit, Working, Unfinished
  <2>13. CASE RunDelivers(k)
    BY <1>1, <1>2, <2>1, <2>13, RunGoesIs, StampersAre, StampGoesIs
       DEF RunDelivers, TypeOK, rows, MeetingSafe, LaunchTodo, Clean, RunIsSafe, OpIsSafe,
           UserIsSafe, Unfit, Working, Unfinished
  <2>14. CASE RunEnds(k)
    BY <1>1, <1>2, <2>1, <2>14, RunLeavesIs
       DEF RunEnds, StampAt, rows, MeetingSafe, LaunchTodo, Clean, RunIsSafe, OpIsSafe, UserIsSafe,
           Unfit, Working, Unfinished
  <2>15. CASE RunFails(k)
    BY <1>1, <1>2, <2>1, <2>15, RunLeavesIs
       DEF RunFails, TypeOK, rows, MeetingSafe, LaunchTodo, Clean, RunIsSafe, OpIsSafe, UserIsSafe,
           Unfit, Working, Unfinished
  <2> QED
    BY <2>2, <2>3, <2>4, <2>5, <2>6, <2>7, <2>8, <2>9, <2>10, <2>11, <2>12, <2>13, <2>14, <2>15
       DEF Run
<1>6. ASSUME NEW m \in Meetings \ overtaken', m # k
      PROVE  MeetingSafe(m)'
  BY <1>1, <1>2, <1>3, <1>6, Untouched DEF Safe
<1> QED
  BY <1>1, <1>5, <1>6 DEF Safe

\* An operation keeps them safe.
LEMMA OpSafe ==
  ASSUME TypeOK, Safe, NEW k \in Meetings, OpWorks(k)
  PROVE  Safe'
<1> USE DEF OpOthers
<1>1. UNCHANGED <<row, run, user, launch, overtaken>>
  BY DEF OpWorks, StillOwed, Resummarize, OpOwes, OpDelivers, OpEnds, rows, history
<1>2. /\ \A m \in Meetings, w \in {"run", "user"} : stamp'[<<w, m>>] = stamp[<<w, m>>]
      /\ \A m \in Meetings \ {k} : stamp'[<<"op", m>>] = stamp[<<"op", m>>]
  <2>1. CASE OpDelivers(k)
    BY <2>1, StampersAre, StampGoesIs DEF OpDelivers
  <2>2. CASE ~OpDelivers(k)
    BY <2>2 DEF OpWorks, StillOwed, Resummarize, OpOwes, OpEnds
  <2> QED
    BY <2>1, <2>2
<1>3. \A m \in Meetings \ {k} : state'[m] = state[m] /\ op'[m] = op[m]
  BY OpGoesIs DEF OpWorks, StillOwed, Resummarize, OpOwes, OpDelivers, OpEnds, rows, TypeOK
<1>5. ASSUME k \notin overtaken
      PROVE  MeetingSafe(k)'
  <2>1. MeetingSafe(k)
    BY <1>5 DEF Safe
  <2>2. CASE StillOwed(k)
    BY <1>1, <1>2, <2>1, <2>2, OpGoesIs
       DEF StillOwed, rows, MeetingSafe, LaunchTodo, Clean, RunIsSafe, OpIsSafe, UserIsSafe, Unfit,
           Working, Unfinished
  <2>3. CASE Resummarize(k)
    BY <1>1, <1>2, <2>1, <2>3, OpGoesIs
       DEF Resummarize, TypeOK, rows, MeetingSafe, LaunchTodo, Clean, RunIsSafe, OpIsSafe,
           UserIsSafe, Unfit, Working, Unfinished
  <2>4. CASE OpOwes(k)
    BY <1>1, <1>2, <2>1, <2>4, OpGoesIs
       DEF OpOwes, rows, MeetingSafe, LaunchTodo, Clean, RunIsSafe, OpIsSafe, UserIsSafe, Unfit,
           Working, Unfinished
  <2>5. CASE OpDelivers(k)
    BY <1>1, <1>2, <2>1, <2>5, OpGoesIs, StampersAre, StampGoesIs
       DEF OpDelivers, TypeOK, rows, MeetingSafe, LaunchTodo, Clean, RunIsSafe, OpIsSafe,
           UserIsSafe, Unfit, Working, Unfinished
  <2>6. CASE OpEnds(k)
    BY <1>1, <1>2, <2>1, <2>6, OpGoesIs
       DEF OpEnds, StampAt, rows, MeetingSafe, LaunchTodo, Clean, RunIsSafe, OpIsSafe, UserIsSafe,
           Unfit, Working, Unfinished
  <2> QED
    BY <2>2, <2>3, <2>4, <2>5, <2>6 DEF OpWorks
<1>6. ASSUME NEW m \in Meetings \ overtaken', m # k
      PROVE  MeetingSafe(m)'
  BY <1>1, <1>2, <1>3, <1>6, Untouched DEF Safe
<1> QED
  BY <1>1, <1>5, <1>6 DEF Safe

\* Admitting an operation keeps them safe.
LEMMA AdmitSafe ==
  ASSUME TypeOK, Safe, NEW k \in Meetings, Reexport(k) \/ LaunchReexport(k) \/ Rerun(k)
  PROVE  Safe'
<1>1. PICK pc \in {"deliver", "owed", "rerun"} : OpAdmit(k, pc)
  BY DEF Reexport, LaunchReexport, Rerun
<1>2. /\ UNCHANGED <<state, row, stamp, run, user, launch>>
      /\ \A m \in Meetings \ {k} : op'[m] = op[m]
      /\ op'[k] = pc
      /\ overtaken \subseteq overtaken'
      /\ k \notin overtaken' => run[k].pc = "idle" /\ state[k] \notin Unfinished
  BY <1>1, OpGoesIs DEF OpAdmit, OpOthers, rows, RunAt
<1>4. ASSUME k \notin overtaken'
      PROVE  MeetingSafe(k)'
  <2>1. MeetingSafe(k) /\ op[k] = "idle"
    BY <1>1, <1>2, <1>4 DEF Safe, OpAdmit, InFlight
  <2> QED
    BY <1>2, <1>4, <2>1 DEF MeetingSafe, LaunchTodo, Clean, RunIsSafe, OpIsSafe, UserIsSafe, Unfit
<1>5. ASSUME NEW m \in Meetings \ overtaken', m # k
      PROVE  MeetingSafe(m)'
  BY <1>2, <1>5, Untouched DEF Safe
<1> QED
  BY <1>4, <1>5 DEF Safe

\* Nor does a step of the user's call about another meeting, or of a new one.
LEMMA UntouchedByUser ==
  ASSUME NEW m \in Meetings, MeetingSafe(m),
         state'[m] = state[m], row'[m] = row[m], run'[m] = run[m], op'[m] = op[m],
         \A w \in {"run", "op", "user"} : stamp'[<<w, m>>] = stamp[<<w, m>>],
         UNCHANGED launch, user.pc = "idle" \/ user.meeting # m,
         user'.pc \in {"check", "requeue"} => user'.meeting # m,
         user'.pc = "apply" => user'.row.expires = "none"
  PROVE  MeetingSafe(m)'
  BY DEF MeetingSafe, LaunchTodo, Clean, RunIsSafe, OpIsSafe, UserIsSafe, Unfit

\* What the user chooses keeps them safe.
LEMMA UserSafe ==
  ASSUME TypeOK, Safe, UserWorks
  PROVE  Safe'
<1> USE DEF UserOthers
<1>1. PICK u \in Meetings : user.meeting = u
  BY DEF TypeOK, UserType
<1>2. user.pc # "idle"
  BY DEF UserWorks, ApplySaves, ApplyEnds, KeepSaves, AgainClaims, AgainChecks, AgainSaves
<1>3. UNCHANGED <<op, launch, overtaken>>
  BY DEF UserWorks, ApplySaves, ApplyEnds, KeepSaves, AgainClaims, AgainChecks, AgainSaves, history
<1>5. user' = IdleUser \/ \E pc \in UserPcs \ {"apply"} : user' = [user EXCEPT !.pc = pc]
  BY DEF UserWorks, ApplySaves, ApplyEnds, KeepSaves, AgainClaims, AgainChecks, AgainSaves,
         UserGoes, UserPcs
<1>6. /\ user' = IdleUser \/ user'.meeting = u
      /\ user'.pc # "apply"
      /\ \A pc \in UserPcs : UserGoes(pc) => user'.pc = pc /\ user'.meeting = u
  BY <1>1, <1>5 DEF IdleUser, TypeOK, UserType, UserGoes
<1>7. user' = IdleUser => user'.pc = "idle"
  BY DEF IdleUser
<1>8. CASE KeepSaves
  <2>1. ASSUME NEW m \in Meetings \ overtaken'
        PROVE  MeetingSafe(m)'
    <3>1. MeetingSafe(m)
      BY <1>1, <1>3, <2>1 DEF Safe
    <3>2. row'[m] = row[m] \/ row'[m].expires = "none"
      BY <1>1, <1>8 DEF KeepSaves, Kept
    <3> QED
      BY <1>1, <1>3, <1>7, <1>8, <3>1, <3>2
         DEF KeepSaves, MeetingSafe, LaunchTodo, Clean, RunIsSafe, OpIsSafe, UserIsSafe, Unfit
  <2> QED
    BY <1>1, <2>1 DEF Safe
<1>9. ASSUME ~KeepSaves, u \notin overtaken
      PROVE  MeetingSafe(u)'
  <2>1. MeetingSafe(u)
    BY <1>1, <1>9 DEF Safe
  <2>2. CASE ApplySaves
    <3>1. user'.pc = "retention" /\ user'.meeting = u
      BY <1>1, <1>6, <2>2 DEF ApplySaves, UserPcs
    <3>2. /\ stamp'[<<"user", u>>].pc = "deferred"
          /\ \A w \in {"run", "op"} : stamp'[<<w, u>>] = stamp[<<w, u>>]
      <4>1. /\ <<"user", u>> \in Stampers
            /\ stamp' = [stamp EXCEPT ![<<"user", u>>].pc = "deferred"]
        BY <1>1, <2>2, StampersAre DEF ApplySaves
      <4> QED
        BY <4>1, StampersAre, StampGoesIs
    <3>3. row'[u].expires = "none"
      BY <1>1, <2>1, <2>2, SaveRowIs DEF ApplySaves, MeetingSafe, UserIsSafe
    <3> QED
      BY <1>1, <1>3, <2>1, <2>2, <3>1, <3>2, <3>3
         DEF ApplySaves, MeetingSafe, LaunchTodo, Clean, RunIsSafe, OpIsSafe, UserIsSafe, Unfit
  <2>3. CASE ApplyEnds
    BY <1>1, <1>3, <1>7, <2>1, <2>3
       DEF ApplyEnds, StampAt, rows, MeetingSafe, LaunchTodo, Clean, RunIsSafe, OpIsSafe,
           UserIsSafe, Unfit
  <2>4. CASE AgainClaims
    <3>1. CASE UserGoes("check")
      <4>1. user'.pc = "check" /\ user'.meeting = u
        BY <1>1, <1>6, <3>1 DEF UserPcs
      <4>2. run'[u].pc = "claimed" /\ run[u].pc = "idle" /\ op[u] = "idle"
        BY <1>1, <1>7, <2>4, <4>1, RunGoesIs DEF AgainClaims, ClaimFree, RunAt, InFlight
      <4> QED
        BY <1>1, <1>3, <2>1, <2>4, <4>1, <4>2
           DEF AgainClaims, rows, Working, MeetingSafe, LaunchTodo, Clean, RunIsSafe, OpIsSafe,
               UserIsSafe, Unfit
    <3>2. CASE user' = IdleUser /\ UNCHANGED run
      BY <1>1, <1>3, <1>7, <2>1, <2>4, <3>2
         DEF AgainClaims, rows, MeetingSafe, LaunchTodo, Clean, RunIsSafe, OpIsSafe, UserIsSafe,
             Unfit
    <3> QED
      BY <1>1, <2>4, <3>1, <3>2 DEF AgainClaims
  <2>5. CASE AgainChecks
    <3>1. CASE UserGoes("requeue") /\ UNCHANGED run
      <4>1. user'.pc = "requeue" /\ user'.meeting = u
        BY <1>1, <1>6, <3>1 DEF UserPcs
      <4> QED
        BY <1>1, <1>3, <2>1, <2>5, <3>1, <4>1
           DEF AgainChecks, rows, MeetingSafe, LaunchTodo, Clean, RunIsSafe, OpIsSafe, UserIsSafe,
               Unfit
    <3>2. CASE user' = IdleUser /\ RunLeaves(u)
      BY <1>1, <1>3, <1>7, <2>1, <2>5, <3>2, RunLeavesIs
         DEF AgainChecks, rows, Working, MeetingSafe, LaunchTodo, Clean, RunIsSafe, OpIsSafe,
             UserIsSafe, Unfit
    <3> QED
      BY <1>1, <2>5, <3>1, <3>2 DEF AgainChecks
  <2>6. CASE AgainSaves
    <3>1. user.row \in AssetRow
      BY DEF TypeOK, UserType
    <3>2. row'[u].expires = "none"
      BY <1>1, <2>6, <3>1, SaveRowIs, UnstampedIs DEF AgainSaves
    <3>3. run'[u].pc = "queued" /\ state'[u] = "queued" /\ run[u].pc = "claimed"
      BY <1>1, <2>1, <2>6, RunGoesIs DEF AgainSaves, TypeOK, MeetingSafe, UserIsSafe
    <3> QED
      BY <1>1, <1>3, <1>7, <2>1, <2>6, <3>2, <3>3
         DEF AgainSaves, Working, Unfinished, MeetingSafe, LaunchTodo, Clean, RunIsSafe, OpIsSafe,
             UserIsSafe, Unfit
  <2> QED
    BY <1>1, <1>9, <2>2, <2>3, <2>4, <2>5, <2>6 DEF UserWorks
<1>10. ASSUME ~KeepSaves, NEW m \in Meetings \ overtaken', m # u
       PROVE  MeetingSafe(m)'
  <2>1. MeetingSafe(m)
    BY <1>1, <1>3, <1>10 DEF Safe
  <2>2. state'[m] = state[m] /\ row'[m] = row[m] /\ run'[m] = run[m]
    <3>1. run'[m] = run[m]
      BY <1>1, <1>10, RunGoesIs, RunLeavesIs
         DEF UserWorks, ApplySaves, ApplyEnds, AgainClaims, AgainChecks, AgainSaves
    <3>2. row'[m] = row[m] /\ state'[m] = state[m]
      BY <1>1, <1>10, SaveRowIs
         DEF UserWorks, ApplySaves, ApplyEnds, AgainClaims, AgainChecks, AgainSaves, rows, TypeOK
    <3> QED
      BY <1>1, <3>1, <3>2
  <2>3. \A w \in {"run", "op", "user"} : stamp'[<<w, m>>] = stamp[<<w, m>>]
    <3>1. CASE ApplySaves
      BY <1>1, <1>10, <3>1, StampersAre, StampGoesIs DEF ApplySaves
    <3>2. CASE ~ApplySaves
      BY <1>1, <1>10, <3>2 DEF UserWorks, ApplyEnds, AgainClaims, AgainChecks, AgainSaves
    <3> QED
      BY <1>1, <3>1, <3>2
  <2> QED
    BY <1>1, <1>3, <1>6, <1>7, <1>10, <2>1, <2>2, <2>3, UntouchedByUser
<1> QED
  <2>1. CASE KeepSaves
    BY <1>8, <2>1
  <2>2. CASE ~KeepSaves
    BY <1>1, <1>3, <1>9, <1>10, <2>2 DEF Safe
  <2> QED
    BY <2>1, <2>2

\* A call keeps them safe.
LEMMA CallSafe ==
  ASSUME TypeOK, Safe,
         \/ \E m \in Meetings, rule \in Rules : Apply(m, rule)
         \/ KeepAll
         \/ \E m \in Meetings : Again(m)
  PROVE  Safe'
<1>1. /\ UNCHANGED <<state, row, run, op, stamp, launch, overtaken>>
      /\ UserIsFree
  BY DEF Apply, KeepAll, Again, UserOthers, rows, history
<1>2. user'.pc \notin {"check", "requeue"} /\ (user'.pc = "apply" => user'.row.expires = "none")
  <2>1. CASE KeepAll
    BY <2>1 DEF KeepAll, IdleUser
  <2>2. CASE ~KeepAll
    BY <2>2 DEF Apply, Again
  <2> QED
    BY <2>1, <2>2
<1>3. ASSUME NEW m \in Meetings \ overtaken'
      PROVE  MeetingSafe(m)'
  BY <1>1, <1>2, <1>3, UntouchedByUser DEF Safe, UserIsFree
<1> QED
  BY <1>3 DEF Safe

\* A launch keeps them safe, also beside the user's calls: what it fails or
\* starts is unstamped, or was ready and is overtaken.
LEMMA LaunchSafe ==
  ASSUME TypeOK, Safe, Launch \/ LaunchStops
  PROVE  Safe'
<1> USE DEF LaunchOthers, RunAt
<1>1. PICK k \in Meetings : launch.meeting = k
  BY LaunchParts
<1>2. launch.row \in AssetRow /\ overtaken \subseteq overtaken'
  BY LaunchParts, LaunchLeaves DEF LaunchStarts, LaunchFails, Overtakes
<1>3. /\ \A m \in Meetings \ {k} : run'[m] = run[m] /\ row'[m] = row[m] /\ state'[m] = state[m]
      /\ UNCHANGED <<op, stamp, user>>
  <2>1. CASE LaunchStarts
    BY <1>1, <2>1, RunGoesIs DEF LaunchStarts
  <2>2. CASE LaunchClears
    BY <1>1, <2>2, SaveRowIs DEF LaunchClears
  <2>3. CASE LaunchFails
    BY <1>1, <2>3 DEF LaunchFails, TypeOK
  <2>4. CASE ~LaunchStarts /\ ~LaunchClears /\ ~LaunchFails
    BY <2>4, LaunchLeaves
  <2> QED
    BY <2>1, <2>2, <2>3, <2>4
<1>4. ASSUME NEW m \in Meetings, MeetingSafe(m), UNCHANGED <<state, row, run>>, LaunchTodo(m)'
      PROVE  MeetingSafe(m)'
  BY <1>3, <1>4 DEF MeetingSafe, RunIsSafe, OpIsSafe, UserIsSafe, Unfit
<1>5. ASSUME NEW m \in Meetings, MeetingSafe(m), UNCHANGED <<state, row>>,
             launch'.pc = "next", launch'.queued \subseteq launch.queued
      PROVE  LaunchTodo(m)'
  BY <1>5 DEF MeetingSafe, LaunchTodo, Clean
<1>6. SUFFICES ASSUME NEW m \in Meetings, m \notin overtaken'
               PROVE  MeetingSafe(m)'
  BY DEF Safe
<1>7. MeetingSafe(m)
  BY <1>2, <1>6 DEF Safe
<1>8. CASE LaunchLists
  <2>1. /\ launch'.pc = "next"
        /\ m \in launch'.queued => state[m] = "queued"
        /\ UNCHANGED <<state, row, run>>
    BY <1>8, LaunchParts DEF LaunchLists
  <2>2. LaunchTodo(m)'
    BY <1>7, <2>1 DEF MeetingSafe, LaunchTodo, Clean, Unfit
  <2> QED
    BY <1>4, <1>7, <2>1, <2>2
<1>9. CASE \E l \in Meetings : LaunchLooks(l)
  <2>1. PICK l \in Meetings : LaunchLooks(l)
    BY <1>9
  <2>2. /\ launch'.pc \in {"next", "read"}
        /\ launch'.queued \subseteq launch.queued
        /\ UNCHANGED <<state, row, run>>
    BY <2>1, PassTypes, LaunchParts DEF LaunchLooks
  <2>3. LaunchTodo(m)'
    BY <1>7, <2>2 DEF MeetingSafe, LaunchTodo, Clean
  <2> QED
    BY <1>4, <1>7, <2>2, <2>3
<1>10. CASE LaunchReads
  <2>1. PICK pc \in {"start", "clear", "fail"} :
          /\ pc = "start" => k \in launch.queued
          /\ pc = "fail" => row[k].expires = "none"
          /\ launch' = [launch EXCEPT !.pc = pc, !.row = row[k]]
    BY <1>1, <1>10 DEF LaunchReads
  <2>2. /\ launch'.pc = pc
        /\ launch'.queued = launch.queued
        /\ launch'.meeting = k
        /\ UNCHANGED <<state, row, run>>
    BY <1>1, <1>10, <2>1, LaunchParts DEF LaunchReads
  <2>3. LaunchTodo(m)'
    BY <1>7, <2>1, <2>2 DEF MeetingSafe, LaunchTodo, Clean
  <2> QED
    BY <1>4, <1>7, <2>2, <2>3
<1>11. CASE LaunchStarts
  <2>1. /\ launch.pc = "start"
        /\ UNCHANGED <<state, row>>
        /\ \/ run' = run
           \/ /\ run[k].pc = "idle" /\ op[k] = "idle"
              /\ RunGoes(k, "queued") /\ Overtakes(k)
    BY <1>1, <1>11 DEF LaunchStarts, ClaimFree, InFlight
  <2>2. launch'.pc = "next" /\ launch'.queued \subseteq launch.queued
    BY <1>1, <1>11, PassTypes DEF LaunchStarts
  <2>3. LaunchTodo(m)'
    BY <1>5, <1>7, <2>1, <2>2
  <2>4. CASE m # k \/ run' = run
    <3>1. UNCHANGED <<state[m], row[m], run[m], op[m]>> /\ UNCHANGED <<stamp, user>>
      BY <1>3, <2>1, <2>4
    <3> QED
      BY <1>7, <2>3, <3>1 DEF MeetingSafe, RunIsSafe, OpIsSafe, UserIsSafe, Unfit
  <2>5. CASE m = k /\ run' # run
    <3>1. /\ run[k].pc = "idle" /\ op[k] = "idle"
          /\ run'[k].pc = "queued"
          /\ state[k] # "ready"
      BY <1>1, <1>6, <2>1, <2>5, RunGoesIs DEF Overtakes
    <3>2. row[k].expires = "none"
      BY <1>1, <1>7, <2>1, <2>5, <3>1 DEF MeetingSafe, LaunchTodo, Clean
    <3> QED
      BY <1>3, <1>7, <2>1, <2>3, <2>5, <3>1, <3>2
         DEF MeetingSafe, RunIsSafe, OpIsSafe, UserIsSafe, Unfit, Working
  <2> QED
    BY <2>4, <2>5
<1>12. CASE LaunchClears
  <2>1. /\ launch'.pc = "fail"
        /\ launch'.queued = launch.queued
        /\ launch'.meeting = k
        /\ UNCHANGED <<state, run>>
    BY <1>1, <1>12, LaunchParts DEF LaunchClears
  <2>2. row'[k].expires = "none"
    BY <1>1, <1>2, <1>12, SaveRowIs, UnstampedIs DEF LaunchClears
  <2>3. CASE m = k
    BY <1>3, <1>7, <2>1, <2>2, <2>3
       DEF MeetingSafe, LaunchTodo, Clean, RunIsSafe, OpIsSafe, UserIsSafe, Unfit
  <2>4. CASE m # k
    BY <1>3, <1>7, <2>1, <2>4
       DEF MeetingSafe, LaunchTodo, Clean, RunIsSafe, OpIsSafe, UserIsSafe, Unfit
  <2> QED
    BY <2>3, <2>4
<1>13. CASE LaunchFails
  <2>1. /\ launch.pc = "fail"
        /\ state'[k] = "failed"
        /\ Overtakes(k)
        /\ UNCHANGED <<row, run>>
    BY <1>1, <1>13 DEF LaunchFails, TypeOK
  <2>2. launch'.pc = "next" /\ launch'.queued \subseteq launch.queued
    BY <1>1, <1>13, PassTypes DEF LaunchFails
  <2>3. CASE m = k
    <3>1. state[k] # "ready" /\ row[k].expires = "none"
      BY <1>1, <1>6, <1>7, <2>1, <2>3 DEF Overtakes, MeetingSafe, LaunchTodo, Clean
    <3> QED
      BY <1>3, <1>7, <2>1, <2>2, <2>3, <3>1
         DEF MeetingSafe, LaunchTodo, Clean, RunIsSafe, OpIsSafe, UserIsSafe, Unfit, Unfinished
  <2>4. CASE m # k
    BY <1>3, <1>7, <2>1, <2>2, <2>4
       DEF MeetingSafe, LaunchTodo, Clean, RunIsSafe, OpIsSafe, UserIsSafe, Unfit
  <2> QED
    BY <2>3, <2>4
<1>14. CASE LaunchStops \/ LaunchRetries
  <2>1. launch'.pc \in {"next", "list", "owed"} /\ launch'.queued \subseteq launch.queued
    BY <1>14, LaunchParts DEF LaunchStops, LaunchRetries, LaunchBegins
  <2>2. UNCHANGED <<state, row, run>>
    BY <1>14 DEF LaunchStops, LaunchRetries
  <2>3. LaunchTodo(m)'
    BY <1>7, <2>1, <2>2 DEF MeetingSafe, LaunchTodo, Clean
  <2> QED
    BY <1>4, <1>7, <2>2, <2>3
<1> QED
  BY <1>8, <1>9, <1>10, <1>11, <1>12, <1>13, <1>14 DEF Launch

\* A sweep keeps them safe.
LEMMA SweepSafe ==
  ASSUME TypeOK, Safe, SweepWorks \/ \E m \in Meetings : SweepResisted(m) \/ TimePasses(m)
  PROVE  Safe'
<1>1. UNCHANGED <<state, run, op, stamp, user, launch, overtaken>>
  BY DEF SweepWorks, SweepLists, SweepSkips, SweepRemoves, SweepResisted, SweepOthers, TimePasses,
         actors, history
<1>2. \A m \in Meetings : row'[m] = row[m] \/ row'[m].expires = "none" \/ row[m].expires = "later"
  <2>1. ASSUME NEW k \in Meetings, SweepRemoves(k)
        PROVE  \A m \in Meetings : row'[m] = row[m] \/ row'[m].expires = "none"
    <3>1. row[k] \in AssetRow
      BY DEF TypeOK
    <3> QED
      BY <2>1, <3>1, SaveRowIs, UnstampedIs DEF SweepRemoves
  <2>2. ASSUME NEW k \in Meetings, TimePasses(k)
        PROVE  \A m \in Meetings : row'[m] = row[m] \/ row[m].expires = "later"
    BY <2>2, SaveRowIs DEF TimePasses
  <2>3. SweepLists \/ (\E k \in Meetings : SweepSkips(k) \/ SweepResisted(k)) => UNCHANGED row
    BY DEF SweepLists, SweepSkips, SweepResisted
  <2> QED
    BY <2>1, <2>2, <2>3 DEF SweepWorks
<1>3. ASSUME NEW m \in Meetings \ overtaken'
      PROVE  MeetingSafe(m)'
  <2>1. MeetingSafe(m)
    BY <1>1, <1>3 DEF Safe
  <2> QED
    BY <1>1, <1>2, <2>1 DEF MeetingSafe, LaunchTodo, Clean, RunIsSafe, OpIsSafe, UserIsSafe, Unfit
<1> QED
  BY <1>3 DEF Safe

\* A crash keeps them safe: the next launch finds what it left.
LEMMA CrashSafe ==
  ASSUME TypeOK, Safe, Crash
  PROVE  Safe'
<1>1. /\ UNCHANGED <<state, row, overtaken>>
      /\ \A m \in Meetings : run'[m] = IdleRun /\ op'[m] = "idle"
      /\ \A s \in Stampers : stamp'[s].pc = "idle"
      /\ user' = IdleUser
      /\ \E late \in {"no", "asked"} : launch' = LaunchBegins(late)
  BY DEF Crash, rows, history, IdleStamp
<1>2. \A w \in {"run", "op", "user"}, m \in Meetings : stamp'[<<w, m>>].pc = "idle"
  BY <1>1, StampersAre
<1>3. ASSUME NEW m \in Meetings \ overtaken'
      PROVE  MeetingSafe(m)'
  <2>1. Unfit(m)
    BY <1>1, <1>3 DEF Safe, MeetingSafe
  <2> QED
    BY <1>1, <1>2, <1>3, <2>1
       DEF IdleRun, IdleUser, LaunchBegins, Working, MeetingSafe, LaunchTodo, Clean, RunIsSafe,
           OpIsSafe, UserIsSafe, Unfit
<1> QED
  BY <1>3 DEF Safe

\* Every step keeps them safe.
LEMMA NextSafe == TypeOK /\ Safe /\ [Next]_vars => Safe'
<1> SUFFICES ASSUME TypeOK, Safe, [Next]_vars
             PROVE  Safe'
  OBVIOUS
<1>1. CASE UNCHANGED vars
  <2>1. UNCHANGED <<state, row, run, op, stamp, user, launch, overtaken>>
    BY <1>1 DEF vars, rows, actors, history
  <2> QED
    BY <2>1, Untouched DEF Safe
<1>2. CASE Next
  BY <1>2, StampSafe, RunSafe, OpSafe, AdmitSafe, UserSafe, CallSafe, LaunchSafe, SweepSafe,
     CrashSafe DEF Next
<1> QED
  BY <1>1, <1>2

\* No stamp ever lies on the audio of a meeting still to be processed or
\* whose run failed, between any two transactions of any of the row's
\* writers, the launch's resume beside the user's calls included, unless an
\* operation was admitted ahead of the meeting's run, or that resume failed
\* or started a meeting that had become ready.
THEOREM UnfinishedAudioStaysSafe == Spec => []UnfinishedAudioIsSafe
<1>1. Init => Safe
  <2> SUFFICES ASSUME Init
               PROVE  Safe
    OBVIOUS
  <2>1. PICK found \in [Meetings -> InitialRows] :
          /\ state = [m \in Meetings |-> found[m].state]
          /\ row = [m \in Meetings |-> found[m].asset]
    BY DEF Init
  <2>2. \A m \in Meetings : Unfit(m)
    BY <2>1, RetentionAssumption DEF Unfit
  <2>3. \A w \in {"run", "op", "user"}, m \in Meetings : stamp[<<w, m>>].pc = "idle"
    BY StampersAre DEF Init, IdleStamp
  <2>4. launch.pc = "list" /\ launch.queued = {}
    BY DEF Init, LaunchBegins
  <2>5. \A m \in Meetings : MeetingSafe(m)
    BY <2>2, <2>3, <2>4
       DEF Init, IdleRun, IdleUser, LaunchBegins, Working, MeetingSafe, LaunchTodo, Clean,
           RunIsSafe, OpIsSafe, UserIsSafe, Unfit
  <2> QED
    BY <2>5 DEF Safe
<1>2. Safe => UnfinishedAudioIsSafe
  BY DEF Safe, MeetingSafe, Unfit, UnfinishedAudioIsSafe
<1> QED
  BY <1>1, <1>2, NextSafe, TypeCorrect, PTL DEF Spec

-----------------------------------------------------------------------------
(* An automatic stamp is earned.                                            *)

\* The places of a run that is not admitted.
Unadmitted == {"idle", "claimed", "queued", "found"}

\* A run and an operation never work on one meeting together, each stamps at
\* its end only, and what a stamper has asked for stays so until it saves.
Earned(m) ==
  /\ op[m] # "idle" => run[m].pc \in Unadmitted
  /\ stamp[<<"run", m>>].pc # "idle" => run[m].pc = "retention"
  /\ stamp[<<"op", m>>].pc # "idle" => op[m] = "retention"
  /\ user.pc \in {"check", "requeue"} /\ user.meeting = m => run[m].pc = "claimed"
  /\ \A w \in {"run", "op"} :
       /\ stamp[<<w, m>>].pc \in {"needs", "read", "save"} => delivered[m]
       /\ stamp[<<w, m>>].pc \in {"read", "save"} => complete[m]

AllEarned == \A m \in Meetings : Earned(m)

\* A stamping keeps what it asked for until it saves.
LEMMA StampEarned ==
  ASSUME TypeOK, AllEarned, NEW s \in Stampers, Stamp(s)
  PROVE  AllEarned'
<1>1. UNCHANGED <<run, op, user, delivered, complete>>
  BY DEF Stamp, StampDeferred, StampDeliveries, StampNeeds, StampReads, StampSaves, StampOthers,
         rows
<1>2. \A t \in Stampers \ {s} : stamp'[t] = stamp[t]
  <2>1. stamp \in [Stampers -> StampType]
    BY DEF TypeOK
  <2> QED
    BY <2>1 DEF Stamp, StampDeferred, StampDeliveries, StampNeeds, StampReads, StampSaves,
                StampGoes, StampLeaves
<1>3. stamp[s].pc # "idle"
  BY DEF Stamp, StampDeferred, StampDeliveries, StampNeeds, StampReads, StampSaves, StampAt
<1>4. s[1] # "user" =>
        /\ stamp'[s].pc \in {"needs", "read", "save"} =>
             delivered[s[2]] \/ stamp[s].pc \in {"needs", "read", "save"}
        /\ stamp'[s].pc \in {"read", "save"} =>
             complete[s[2]] \/ stamp[s].pc \in {"read", "save"}
  <2>1. CASE StampDeferred(s) \/ StampDeliveries(s) \/ StampNeeds(s)
    BY <2>1, StampGoesIs, StampLeavesIs
       DEF StampDeferred, StampDeliveries, StampNeeds, StampAt, StampGoes
  <2>2. CASE StampReads(s)
    BY <2>2 DEF StampReads, StampAt
  <2>3. CASE StampSaves(s)
    BY <2>3, StampLeavesIs DEF StampSaves
  <2> QED
    BY <2>1, <2>2, <2>3 DEF Stamp
<1>5. ASSUME NEW m \in Meetings
      PROVE  Earned(m)'
  <2>1. Earned(m)
    BY DEF AllEarned
  <2>2. CASE s = <<"run", m>> \/ s = <<"op", m>>
    BY <1>1, <1>2, <1>3, <1>4, <2>1, <2>2, StampersAre DEF Earned
  <2>3. CASE s # <<"run", m>> /\ s # <<"op", m>>
    BY <1>1, <1>2, <2>1, <2>3, StampersAre DEF Earned
  <2> QED
    BY <2>2, <2>3
<1> QED
  BY <1>5 DEF AllEarned

\* A run stamps at its end only.
LEMMA RunEarned ==
  ASSUME TypeOK, AllEarned, NEW k \in Meetings, Run(k)
  PROVE  AllEarned'
<1> USE DEF RunOthers, RunAt
<1>1. UNCHANGED <<op, user>>
  BY DEF Run, RunFinds, RunAdmit, RunBegins, RunDecodes, RunSalvages, RunKeeps, RunSavesResults,
     PersistReads, PersistSaves, PersistOwes, PersistReady, RunDelivers, RunEnds, RunFails
<1>2. /\ \A m \in Meetings : stamp'[<<"op", m>>] = stamp[<<"op", m>>]
      /\ \A m \in Meetings \ {k} : stamp'[<<"run", m>>] = stamp[<<"run", m>>]
      /\ stamp'[<<"run", k>>] = stamp[<<"run", k>>]
           \/ (RunDelivers(k) /\ stamp'[<<"run", k>>].pc = "deliveries")
  <2>1. CASE RunDelivers(k)
    <3>1. /\ <<"run", k>> \in Stampers
          /\ stamp' = [stamp EXCEPT ![<<"run", k>>].pc = "deliveries"]
      BY <2>1, StampersAre DEF RunDelivers
    <3>2. stamp'[<<"run", k>>].pc = "deliveries"
      BY <3>1, StampGoesIs
    <3>3. \A s \in Stampers \ {<<"run", k>>} : stamp'[s] = stamp[s]
      BY <3>1, StampGoesIs
    <3> QED
      BY <2>1, <3>2, <3>3, StampersAre
  <2>2. CASE ~RunDelivers(k)
    BY <2>2
       DEF Run, RunFinds, RunAdmit, RunBegins, RunDecodes, RunSalvages, RunKeeps, RunSavesResults,
           PersistReads, PersistSaves, PersistOwes, PersistReady, RunEnds, RunFails
  <2> QED
    BY <2>1, <2>2
<1>3. \A m \in Meetings \ {k} : run'[m] = run[m]
  BY RunGoesIs, RunReadsIs, RunLeavesIs
     DEF Run, RunFinds, RunAdmit, RunBegins, RunDecodes, RunSalvages, RunKeeps, RunSavesResults,
         PersistReads, PersistSaves, PersistOwes, PersistReady, RunDelivers, RunEnds, RunFails
<1>4. \A m \in Meetings \ {k} : delivered'[m] = delivered[m] /\ complete'[m] = complete[m]
  BY DEF Run, RunFinds, RunAdmit, RunBegins, RunDecodes, RunSalvages, RunKeeps, RunSavesResults,
     PersistReads, PersistSaves, PersistOwes, PersistReady, RunDelivers, RunEnds, RunFails, rows,
     TypeOK
<1>5. /\ run[k].pc \notin {"idle", "claimed"}
      /\ run'[k].pc = "retention" <=> RunDelivers(k)
  BY RunGoesIs, RunReadsIs, RunLeavesIs
     DEF Run, RunFinds, RunAdmit, RunBegins, RunDecodes, RunSalvages, RunKeeps, RunSavesResults,
         PersistReads, PersistSaves, PersistOwes, PersistReady, RunDelivers, RunEnds, RunFails
<1>6. /\ run[k].pc = "retention" => stamp[<<"run", k>>].pc = "idle"
      /\ run[k].pc \in Unadmitted => run'[k].pc \in Unadmitted \/ op[k] = "idle"
      /\ run[k].pc \in Unadmitted => UNCHANGED <<delivered, complete>>
  BY RunGoesIs, RunReadsIs, RunLeavesIs
     DEF Run, RunFinds, RunAdmit, RunBegins, RunDecodes, RunSalvages, RunKeeps, RunSavesResults,
         PersistReads, PersistSaves, PersistOwes, PersistReady, RunDelivers, RunEnds, RunFails,
         rows, StampAt, Unadmitted
<1>7. Earned(k)'
  <2>1. Earned(k)
    BY DEF AllEarned
  <2>2. stamp[<<"run", k>>].pc = "idle"
    BY <1>6, <2>1 DEF Earned
  <2>3. CASE run[k].pc \in Unadmitted
    BY <1>1, <1>2, <1>5, <1>6, <2>1, <2>2, <2>3 DEF Earned, Unadmitted
  <2>4. CASE run[k].pc \notin Unadmitted
    BY <1>1, <1>2, <1>5, <1>6, <2>1, <2>2, <2>4 DEF Earned, Unadmitted
  <2> QED
    BY <2>3, <2>4
<1>8. ASSUME NEW m \in Meetings, m # k
      PROVE  Earned(m)'
  BY <1>1, <1>2, <1>3, <1>4, <1>8 DEF AllEarned, Earned
<1> QED
  BY <1>7, <1>8 DEF AllEarned

\* An operation stamps at its end only.
LEMMA OpEarned ==
  ASSUME TypeOK, AllEarned, NEW k \in Meetings, OpWorks(k)
  PROVE  AllEarned'
<1> USE DEF OpOthers
<1>1. UNCHANGED <<run, user, complete>>
  BY DEF OpWorks, StillOwed, Resummarize, OpOwes, OpDelivers, OpEnds, rows
<1>2. /\ \A m \in Meetings : stamp'[<<"run", m>>] = stamp[<<"run", m>>]
      /\ \A m \in Meetings \ {k} : stamp'[<<"op", m>>] = stamp[<<"op", m>>]
      /\ stamp'[<<"op", k>>] = stamp[<<"op", k>>]
           \/ (op'[k] = "retention" /\ stamp'[<<"op", k>>].pc = "deferred")
  <2>1. CASE OpDelivers(k)
    BY <2>1, StampersAre, StampGoesIs, OpGoesIs DEF OpDelivers
  <2>2. CASE ~OpDelivers(k)
    BY <2>2 DEF OpWorks, StillOwed, Resummarize, OpOwes, OpEnds
  <2> QED
    BY <2>1, <2>2
<1>3. \A m \in Meetings \ {k} : op'[m] = op[m] /\ delivered'[m] = delivered[m]
  BY OpGoesIs DEF OpWorks, StillOwed, Resummarize, OpOwes, OpDelivers, OpEnds, rows, TypeOK
<1>4. /\ op[k] # "idle"
      /\ op[k] = "retention" => stamp[<<"op", k>>].pc = "idle"
  BY DEF OpWorks, StillOwed, Resummarize, OpOwes, OpDelivers, OpEnds, StampAt
<1>5. Earned(k)'
  <2>1. Earned(k)
    BY DEF AllEarned
  <2>2. stamp[<<"op", k>>].pc = "idle" /\ stamp[<<"run", k>>].pc = "idle"
    BY <1>4, <2>1 DEF Earned, Unadmitted
  <2> QED
    BY <1>1, <1>2, <1>4, <2>1, <2>2 DEF Earned
<1>6. ASSUME NEW m \in Meetings, m # k
      PROVE  Earned(m)'
  BY <1>1, <1>2, <1>3, <1>6 DEF AllEarned, Earned
<1> QED
  BY <1>5, <1>6 DEF AllEarned

\* What the user chooses takes nothing earned from a stamping.
LEMMA UserEarned ==
  ASSUME TypeOK, AllEarned,
         \/ UserWorks \/ KeepAll
         \/ \E m \in Meetings, rule \in Rules : Apply(m, rule)
         \/ \E m \in Meetings : Again(m) \/ Reexport(m) \/ LaunchReexport(m) \/ Rerun(m)
  PROVE  AllEarned'
<1>1. PICK u \in Meetings : user.meeting = u
  BY DEF TypeOK, UserType
<1>2. UNCHANGED <<delivered, complete>>
  BY DEF UserWorks, ApplySaves, ApplyEnds, KeepSaves, AgainClaims, AgainChecks, AgainSaves, KeepAll,
         Apply, Again, Reexport, LaunchReexport, Rerun, OpAdmit, rows
<1>3. \A m \in Meetings, w \in {"run", "op"} : stamp'[<<w, m>>] = stamp[<<w, m>>]
  <2>1. CASE ApplySaves
    <3>1. /\ <<"user", u>> \in Stampers
          /\ stamp' = [stamp EXCEPT ![<<"user", u>>].pc = "deferred"]
      BY <1>1, <2>1, StampersAre DEF ApplySaves
    <3> QED
      BY <3>1, StampersAre, StampGoesIs
  <2>2. CASE ~ApplySaves
    BY <2>2 DEF UserWorks, ApplyEnds, KeepSaves, AgainClaims, AgainChecks, AgainSaves, KeepAll,
                Apply, Again, Reexport, LaunchReexport, Rerun, OpAdmit
  <2> QED
    BY <2>1, <2>2
<1>4. CASE \E k \in Meetings : Reexport(k) \/ LaunchReexport(k) \/ Rerun(k)
  <2>1. PICK k \in Meetings : \E pc \in {"deliver", "owed", "rerun"} : OpAdmit(k, pc)
    BY <1>4 DEF Reexport, LaunchReexport, Rerun
  <2>2. /\ UNCHANGED <<run, user>>
        /\ run[k].pc \in Unadmitted
        /\ op[k] = "idle"
        /\ \A m \in Meetings \ {k} : op'[m] = op[m]
    BY <2>1, OpGoesIs DEF OpAdmit, OpOthers, InFlight, Unadmitted
  <2> QED
    BY <1>2, <1>3, <2>2, ZenonT(40) DEF AllEarned, Earned
<1>5. CASE AgainClaims
  <2>1. /\ UNCHANGED op
        /\ \A m \in Meetings \ {u} : run'[m] = run[m]
        /\ run'[u] = run[u] \/ (run[u].pc = "idle" /\ run'[u].pc = "claimed")
        /\ user'.pc \in {"check", "requeue"} => user'.meeting = u /\ run'[u].pc = "claimed"
    <3>1. CASE ClaimFree(u) /\ RunGoes(u, "claimed") /\ UserGoes("check")
      BY <1>1, <1>5, <3>1, RunGoesIs DEF AgainClaims, UserOthers, ClaimFree, RunAt, UserGoes,
                                         TypeOK, UserType
    <3>2. CASE UNCHANGED run /\ user' = IdleUser
      BY <1>5, <3>2 DEF AgainClaims, UserOthers, IdleUser
    <3> QED
      BY <1>1, <1>5, <3>1, <3>2 DEF AgainClaims
  <2> SUFFICES ASSUME NEW m \in Meetings
               PROVE  Earned(m)'
    BY DEF AllEarned
  <2>2. Earned(m)
    BY DEF AllEarned
  <2>3. CASE m = u
    BY <1>1, <1>2, <1>3, <2>1, <2>2, <2>3 DEF Earned, Unadmitted
  <2>4. CASE m # u
    BY <1>1, <1>2, <1>3, <2>1, <2>2, <2>4 DEF Earned, Unadmitted
  <2> QED
    BY <2>3, <2>4
<1>6. CASE AgainChecks
  <2>1. /\ UNCHANGED op
        /\ user.pc = "check"
        /\ \A m \in Meetings \ {u} : run'[m] = run[m]
        /\ run'[u] = run[u] \/ (run'[u].pc = "idle" /\ user'.pc = "idle")
        /\ user'.pc \in {"check", "requeue"} => user'.meeting = u /\ run' = run
    <3>1. CASE UNCHANGED run /\ UserGoes("requeue")
      BY <1>1, <1>6, <3>1 DEF AgainChecks, UserOthers, UserGoes, TypeOK, UserType
    <3>2. CASE RunLeaves(u) /\ user' = IdleUser
      BY <1>6, <3>2, RunLeavesIs DEF AgainChecks, UserOthers, IdleUser
    <3> QED
      BY <1>1, <1>6, <3>1, <3>2 DEF AgainChecks
  <2> SUFFICES ASSUME NEW m \in Meetings
               PROVE  Earned(m)'
    BY DEF AllEarned
  <2>2. Earned(m)
    BY DEF AllEarned
  <2>3. CASE m = u
    BY <1>1, <1>2, <1>3, <2>1, <2>2, <2>3 DEF Earned, Unadmitted
  <2>4. CASE m # u
    BY <1>1, <1>2, <1>3, <2>1, <2>2, <2>4 DEF Earned, Unadmitted
  <2> QED
    BY <2>3, <2>4
<1>7. CASE AgainSaves
  <2>1. /\ UNCHANGED op
        /\ user.pc = "requeue"
        /\ \A m \in Meetings \ {u} : run'[m] = run[m]
        /\ run'[u].pc = "queued"
        /\ user'.pc = "idle"
    BY <1>1, <1>7, RunGoesIs DEF AgainSaves, UserOthers, IdleUser
  <2> SUFFICES ASSUME NEW m \in Meetings
               PROVE  Earned(m)'
    BY DEF AllEarned
  <2>2. Earned(m)
    BY DEF AllEarned
  <2>3. CASE m = u
    BY <1>1, <1>2, <1>3, <2>1, <2>2, <2>3 DEF Earned, Unadmitted
  <2>4. CASE m # u
    BY <1>1, <1>2, <1>3, <2>1, <2>2, <2>4 DEF Earned, Unadmitted
  <2> QED
    BY <2>3, <2>4
<1>8. CASE ApplySaves \/ ApplyEnds \/ KeepSaves \/ KeepAll \/ (\E m \in Meetings : Again(m))
           \/ (\E m \in Meetings, rule \in Rules : Apply(m, rule))
  <2>1. UNCHANGED <<run, op>>
    BY <1>8 DEF ApplySaves, ApplyEnds, KeepSaves, KeepAll, Again, Apply, UserOthers
  <2>2. user'.pc \notin {"check", "requeue"}
    <3>1. CASE ApplySaves
      BY <3>1 DEF ApplySaves, UserGoes, TypeOK, UserType
    <3>2. CASE ApplyEnds \/ KeepSaves
      BY <3>2 DEF ApplyEnds, KeepSaves, IdleUser
    <3>3. CASE KeepAll
      BY <3>3 DEF KeepAll, IdleUser
    <3>4. ASSUME NEW m \in Meetings, NEW rule, Again(m) \/ Apply(m, rule)
          PROVE  user'.pc \notin {"check", "requeue"}
      BY <3>4 DEF Again, Apply
    <3> QED
      BY <1>8, <3>1, <3>2, <3>3, <3>4
  <2> QED
    BY <1>2, <1>3, <2>1, <2>2 DEF AllEarned, Earned
<1> QED
  BY <1>4, <1>5, <1>6, <1>7, <1>8 DEF UserWorks

\* A launch takes nothing earned from a stamping.
LEMMA LaunchEarned ==
  ASSUME TypeOK, AllEarned, Launch \/ LaunchStops
  PROVE  AllEarned'
<1>1. UNCHANGED <<delivered, complete, op, stamp, user>>
  BY LaunchLeaves
<1>2. \A m \in Meetings : run'[m] = run[m] \/ (run[m].pc = "idle" /\ run'[m].pc = "queued")
  <2>1. CASE LaunchStarts
    BY <2>1, LaunchParts, RunGoesIs DEF LaunchStarts, ClaimFree, RunAt
  <2>2. CASE ~LaunchStarts
    BY <2>2, LaunchLeaves
  <2> QED
    BY <2>1, <2>2
<1> SUFFICES ASSUME NEW m \in Meetings
             PROVE  Earned(m)'
  BY DEF AllEarned
<1>3. Earned(m)
  BY DEF AllEarned
<1>4. CASE run'[m] = run[m]
  BY <1>1, <1>3, <1>4 DEF Earned
<1>5. CASE run[m].pc = "idle" /\ run'[m].pc = "queued"
  BY <1>1, <1>3, <1>5 DEF Earned, Unadmitted
<1> QED
  BY <1>2, <1>4, <1>5

\* Every step keeps what a stamping has earned.
LEMMA NextEarned == TypeOK /\ AllEarned /\ [Next]_vars => AllEarned'
<1> SUFFICES ASSUME TypeOK, AllEarned, [Next]_vars
             PROVE  AllEarned'
  OBVIOUS
<1>1. ASSUME UNCHANGED <<run, op, stamp, user, delivered, complete>>
      PROVE  AllEarned'
  BY <1>1 DEF AllEarned, Earned
<1>2. CASE UNCHANGED vars
  BY <1>1, <1>2 DEF vars, rows, actors
<1>3. CASE SweepWorks \/ \E m \in Meetings : SweepResisted(m) \/ TimePasses(m)
  BY <1>1, <1>3 DEF SweepWorks, SweepLists, SweepSkips, SweepRemoves, SweepResisted, SweepOthers,
                    TimePasses, actors
<1>4. CASE Crash
  <2>1. /\ \A m \in Meetings : run'[m] = IdleRun /\ op'[m] = "idle"
        /\ \A s \in Stampers : stamp'[s].pc = "idle"
        /\ user' = IdleUser
    BY <1>4 DEF Crash, IdleStamp
  <2> QED
    BY <2>1, StampersAre DEF AllEarned, Earned, IdleUser, IdleRun, Unadmitted
<1> QED
  BY <1>2, <1>3, <1>4, StampEarned, RunEarned, OpEarned, UserEarned, LaunchEarned DEF Next

\* Every automatic stamp is earned when it is saved, though its deliveries
\* and results were read two awaits earlier (retention): nobody else changes
\* them while their meeting's run or operation is at its end.
THEOREM AutomaticStampsAreEarned == Spec => []AutomaticStampIsEarned
<1>1. Init => AllEarned
  <2> SUFFICES ASSUME Init, NEW m \in Meetings
               PROVE  Earned(m)
    BY DEF AllEarned
  <2>1. op[m] = "idle" /\ user.pc = "idle"
    BY DEF Init, IdleUser
  <2>2. \A w \in {"run", "op"} : stamp[<<w, m>>].pc = "idle"
    BY StampersAre DEF Init, IdleStamp
  <2> QED
    BY <2>1, <2>2 DEF Earned
<1>2. AllEarned => AutomaticStampIsEarned
  <2> SUFFICES ASSUME AllEarned, NEW s \in Stampers, s[1] # "user", stamp[s].pc = "save"
               PROVE  delivered[s[2]] /\ complete[s[2]]
    BY DEF AutomaticStampIsEarned
  <2>1. /\ s[1] \in {"run", "op"}
        /\ s[2] \in Meetings
        /\ s = <<s[1], s[2]>>
    BY DEF Stampers
  <2>2. stamp[<<s[1], s[2]>>].pc = "save"
    BY <2>1
  <2> QED
    BY <2>1, <2>2 DEF AllEarned, Earned
<1> QED
  BY <1>1, <1>2, NextEarned, TypeCorrect, PTL DEF Spec
=============================================================================
