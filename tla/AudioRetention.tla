--------------------------- MODULE AudioRetention ---------------------------
(***************************************************************************)
(* What becomes of a meeting's audio: the retention rule and the expiry    *)
(* stamp in its asset row, the sweep that removes what expired             *)
(* (steno-pipeline/src/retention.rs, steno-core/src/store/assets.rs), and  *)
(* everything that writes that row while the sweep may run: a background   *)
(* run, a re-export or summary re-run, the launch, and the user.           *)
(*                                                                         *)
(* A step is one store transaction.  `Store::writing` runs a closure that  *)
(* reads the row in one transaction and saves the whole row in another, so *)
(* each such closure is two steps with the row it read in between.  The    *)
(* sweep's check and removal are one transaction, and so one step.         *)
(*                                                                         *)
(* The user's calls reach the pipeline with the host's state locked, so    *)
(* there is one of them at a time; a re-export or re-run the user starts   *)
(* is admitted in such a call and goes on after it.                        *)
(*                                                                         *)
(* A run refused for missing models or a busy store writes no asset row;   *)
(* it waits and starts again in ProcessingPipeline.                        *)
(***************************************************************************)
EXTENDS Naturals

CONSTANTS
  Meetings,   \* the meetings, one asset row each
  Files,      \* the master files
  MasterOf,   \* the file each asset row names; rows may share one
  InitialRows,\* the rows a launch may find
  Rules,      \* the retention rules the settings and the user choose from
  Events,     \* the kinds of outside event this instance has
  MaxEvents   \* how many of them happen at most

AllRules == {"deleteAfterProcessing", "keepDays", "keepForever"}
Expiries == {"none", "later", "due"}
AssetRow == [retention : AllRules, expires : Expiries]

MeetingStates == {"queued", "processing", "ready", "failed"}
Unfinished == {"queued", "processing"}

\* A meeting's rows: its state, its asset's row, whether every delivery is
\* delivered, and whether its results can do without the audio.
MeetingRow == [state : MeetingStates, asset : AssetRow, delivered : BOOLEAN, complete : BOOLEAN]

EventKinds == {"apply", "keepAll", "again", "reexport", "rerun", "crash", "fault", "lock", "lag"}

ASSUME RetentionAssumption ==
  /\ Meetings # {}
  /\ MasterOf \in [Meetings -> Files]
  /\ InitialRows \subseteq MeetingRow
  /\ \A r \in InitialRows :
       /\ r.asset.retention = "keepForever" => r.asset.expires = "none"
       /\ r.state \in {"queued", "failed"} => r.asset.expires = "none"
  /\ Rules \subseteq AllRules
  /\ Events \subseteq EventKinds
  /\ MaxEvents \in Nat

\* Those who stamp: a meeting's run, an operation on it, the user's rule.
Stampers == {"run", "op", "user"} \X Meetings

RunPcs == {"idle", "claimed", "queued", "found", "admitted", "decode", "salvage", "keep",
           "results", "persist", "saveRow", "owe", "ready", "deliver", "retention"}
OpPcs == {"idle", "owed", "rerun", "owe", "deliver", "retention"}
UserPcs == {"idle", "apply", "retention", "again", "check", "requeue", "keep"}
StampPcs == {"idle", "deferred", "deliveries", "needs", "read", "save"}
LaunchPcs == {"list", "next", "read", "start", "clear", "fail", "owed"}
\* The launch's resume is through before the app is in use; it waited for the
\* keyring or the import; it met a busy store and is owed.
Latenesses == {"no", "asked", "owed"}

RunType == [pc : RunPcs, row : AssetRow]
StampType == [pc : StampPcs, row : AssetRow]
UserType == [pc : UserPcs, meeting : Meetings, row : AssetRow, ids : SUBSET Meetings]
LaunchType == [pc : LaunchPcs, late : Latenesses, queued : SUBSET Meetings,
               processing : SUBSET Meetings, meeting : Meetings, row : AssetRow]

VARIABLES
  state,     \* meeting.state in the database
  row,       \* the meeting's audioAsset row
  delivered, \* all of the meeting's delivery rows read delivered
  complete,  \* ~results_need_the_audio of the stored results
  master,    \* the master files on disk
  run,       \* the background run of each meeting, with the row it read
  op,        \* the admitted operation on each meeting
  stamp,     \* each stamper's place in `stamp_deferred_retention` and `retention`
  user,      \* the user's call under way
  launch,    \* the loop of the launch's resume over unfinished meetings
  sweep,     \* the assets the sweep under way listed
  sweepDue,  \* a `RetentionApplied` not followed by a sweep yet, or a launch
  events,    \* outside events so far
  keeps,     \* history: the meetings whose last rule by the user is to keep
  overtaken, \* history: an operation was admitted while a run was to come, or
             \* the launch's resume failed or started a ready meeting
  unswept    \* history: since a sweep was last asked for, a stamp ran out, the
             \* event of one was lost, or a file resisted the sweep

rows == <<state, row, delivered, complete, master>>
actors == <<run, op, stamp, user, launch, sweep, sweepDue>>
history == <<keeps, overtaken, unswept>>
vars == <<rows, actors, events, history>>

NoRow == [retention |-> "keepForever", expires |-> "none"]
IdleRun == [pc |-> "idle", row |-> NoRow]
IdleStamp == [pc |-> "idle", row |-> NoRow]
AnyMeeting == CHOOSE m \in Meetings : TRUE
IdleUser == [pc |-> "idle", meeting |-> AnyMeeting, row |-> NoRow, ids |-> {}]
LaunchBegins(late) == [pc |-> "list", late |-> late, queued |-> {}, processing |-> {},
                       meeting |-> AnyMeeting, row |-> NoRow]

TypeOK ==
  /\ state \in [Meetings -> MeetingStates]
  /\ row \in [Meetings -> AssetRow]
  /\ delivered \in [Meetings -> BOOLEAN]
  /\ complete \in [Meetings -> BOOLEAN]
  /\ master \in [Files -> BOOLEAN]
  /\ run \in [Meetings -> RunType]
  /\ op \in [Meetings -> OpPcs]
  /\ stamp \in [Stampers -> StampType]
  /\ user \in UserType
  /\ launch \in LaunchType
  /\ sweep \in SUBSET Meetings
  /\ sweepDue \in BOOLEAN
  /\ events \in 0..MaxEvents
  /\ keeps \in SUBSET Meetings
  /\ overtaken \in SUBSET Meetings
  /\ unswept \in BOOLEAN

Init ==
  /\ \E found \in [Meetings -> InitialRows] :
       /\ state = [m \in Meetings |-> found[m].state]
       /\ row = [m \in Meetings |-> found[m].asset]
       /\ delivered = [m \in Meetings |-> found[m].delivered]
       /\ complete = [m \in Meetings |-> found[m].complete]
  /\ master = [f \in Files |-> TRUE]
  /\ run = [m \in Meetings |-> IdleRun]
  /\ op = [m \in Meetings |-> "idle"]
  /\ stamp = [s \in Stampers |-> IdleStamp]
  /\ user = IdleUser
  /\ \E late \in {"no", "asked"} : launch = LaunchBegins(late)
  /\ sweep = {}
  /\ sweepDue = TRUE
  /\ events = 0
  /\ keeps = {}
  /\ overtaken = {}
  /\ unswept = FALSE

Event(kind) ==
  /\ kind \in Events
  /\ events < MaxEvents
  /\ events' = events + 1

-----------------------------------------------------------------------------
(* Rows, claims and stamps. *)

\* AudioRetention::expiry, counted from now.
Expiry(rule) ==
  CASE rule = "deleteAfterProcessing" -> "due"
    [] rule = "keepDays" -> "later"
    [] rule = "keepForever" -> "none"

Unstamped(r) == [r EXCEPT !.expires = "none"]

\* What a keep writes.
Kept == [retention |-> "keepForever", expires |-> "none"]
SaveRow(m, r) == row' = [row EXCEPT ![m] = r]

RunAt(m, pc) == run[m].pc = pc
RunGoes(m, pc) == run' = [run EXCEPT ![m].pc = pc]
RunReads(m, pc) == run' = [run EXCEPT ![m] = [pc |-> pc, row |-> row[m]]]
RunLeaves(m) == run' = [run EXCEPT ![m] = IdleRun]
OpGoes(m, pc) == op' = [op EXCEPT ![m] = pc]

\* InFlightSet.meetings: an operation, or a run that was admitted.
InFlight(m) == op[m] # "idle" \/ run[m].pc \notin {"idle", "claimed", "queued", "found"}

\* claim_start: no run has claimed the asset, nothing is admitted on the meeting.
ClaimFree(m) == RunAt(m, "idle") /\ ~InFlight(m)

\* The row's stamp has run out and its meeting is finished.
Due(m) == row[m].expires = "due" /\ state[m] \notin Unfinished

\* A row of the same master that is not due keeps the file.
HasKeeper(m) == \E k \in Meetings \ {m} : MasterOf[k] = MasterOf[m] /\ ~Due(k)

-----------------------------------------------------------------------------
(* Stamping: `stamp_deferred_retention`, which goes on to `retention`.      *)

StampAt(s, pc) == stamp[s].pc = pc
StampGoes(s, pc) == stamp' = [stamp EXCEPT ![s].pc = pc]
StampLeaves(s) == stamp' = [stamp EXCEPT ![s] = IdleStamp]

StampOthers == UNCHANGED <<rows, run, op, user, launch, sweep, events, history>>

\* The asset, the meeting and the master, read before `retention`.
StampDeferred(s) ==
  LET m == s[2] IN
  /\ StampAt(s, "deferred")
  /\ \/ /\ row[m].retention # "keepForever"
        /\ row[m].expires = "none"
        /\ state[m] = "ready"
        /\ master[MasterOf[m]]
        /\ StampGoes(s, "deliveries")
     \/ /\ \/ row[m].retention = "keepForever"
           \/ row[m].expires # "none"
           \/ state[m] # "ready"
           \/ ~master[MasterOf[m]]
        /\ StampLeaves(s)
  /\ StampOthers /\ UNCHANGED sweepDue

\* An undelivered delivery leaves the asset unstamped.
StampDeliveries(s) ==
  /\ StampAt(s, "deliveries")
  /\ \/ delivered[s[2]] /\ StampGoes(s, IF s[1] = "user" THEN "read" ELSE "needs")
     \/ ~delivered[s[2]] /\ StampLeaves(s)
  /\ StampOthers /\ UNCHANGED sweepDue

\* An automatic stamp waits while the results may need the audio.
StampNeeds(s) ==
  /\ StampAt(s, "needs")
  /\ \/ complete[s[2]] /\ StampGoes(s, "read")
     \/ ~complete[s[2]] /\ StampLeaves(s)
  /\ StampOthers /\ UNCHANGED sweepDue

\* The row is reread ...
StampReads(s) ==
  /\ StampAt(s, "read")
  /\ stamp' = [stamp EXCEPT ![s] = [pc |-> "save", row |-> row[s[2]]]]
  /\ StampOthers /\ UNCHANGED sweepDue


\* ... and saved with its stamp; `RetentionApplied` asks for a sweep, unless
\* the event follower fell behind and lost it.
StampSaves(s) ==
  LET r == stamp[s].row IN
  /\ StampAt(s, "save")
  /\ SaveRow(s[2], [r EXCEPT !.expires = Expiry(r.retention)])
  /\ StampLeaves(s)
  /\ \/ sweepDue' = TRUE /\ unswept' = FALSE /\ UNCHANGED events
     \/ Event("lag") /\ unswept' = TRUE /\ UNCHANGED sweepDue
  /\ UNCHANGED <<state, delivered, complete, master, run, op, user, launch, sweep, keeps, overtaken>>

Stamp(s) ==
  \/ StampDeferred(s) \/ StampDeliveries(s) \/ StampNeeds(s) \/ StampReads(s) \/ StampSaves(s)

-----------------------------------------------------------------------------
(* A background run, `process` from its claim to its end.                   *)

RunOthers == UNCHANGED <<op, user, launch, sweep, sweepDue, events, history>>

\* `process` reads the asset's row by its id.
RunFinds(m) ==
  /\ RunAt(m, "queued")
  /\ RunReads(m, "found")
  /\ RunOthers /\ UNCHANGED <<rows, stamp>>

\* Mutant of RunAdmit: an operation under way is not asked for.
RunAdmitUnchecked(m) ==
  /\ RunAt(m, "found")
  /\ RunGoes(m, "admitted")
  /\ RunOthers /\ UNCHANGED <<rows, stamp>>

\* The admission; a run refused leaves its meeting as it is.
RunAdmit(m) ==
  /\ RunAt(m, "found")
  /\ \/ op[m] = "idle" /\ RunGoes(m, "admitted")
     \/ op[m] # "idle" /\ RunLeaves(m)
  /\ RunOthers /\ UNCHANGED <<rows, stamp>>

RunBegins(m) ==
  /\ RunAt(m, "admitted")
  /\ state' = [state EXCEPT ![m] = "processing"]
  /\ RunGoes(m, "decode")
  /\ RunOthers /\ UNCHANGED <<row, delivered, complete, master, stamp>>

\* A master that is gone fails the run; a damaged one under a finite rule,
\* by the row the run began with, is to be kept.
RunDecodes(m) ==
  /\ RunAt(m, "decode")
  /\ master[MasterOf[m]]
  /\ \/ RunGoes(m, "results")
     \/ run[m].row.retention # "keepForever" /\ RunGoes(m, "salvage")
  /\ RunOthers /\ UNCHANGED <<rows, stamp>>

\* The keep of a damaged recording: reread, then saved.
RunSalvages(m) ==
  /\ RunAt(m, "salvage")
  /\ RunReads(m, "keep")
  /\ RunOthers /\ UNCHANGED <<rows, stamp>>

RunKeeps(m) ==
  /\ RunAt(m, "keep")
  /\ SaveRow(m, Kept)
  /\ RunGoes(m, "results")
  /\ RunOthers /\ UNCHANGED <<state, delivered, complete, master, stamp>>

\* The stages up to `persist` save speakers and segments.
RunSavesResults(m) ==
  /\ RunAt(m, "results")
  /\ \E c \in BOOLEAN : complete' = [complete EXCEPT ![m] = c]
  /\ RunGoes(m, "persist")
  /\ RunOthers /\ UNCHANGED <<state, row, delivered, master, stamp>>

\* `persist`: the row reread and saved with the mixdown, the export owed,
\* then the meeting ready.
PersistReads(m) ==
  /\ RunAt(m, "persist")
  /\ RunReads(m, "saveRow")
  /\ RunOthers /\ UNCHANGED <<rows, stamp>>

PersistSaves(m) ==
  /\ RunAt(m, "saveRow")
  /\ SaveRow(m, run[m].row)
  /\ RunGoes(m, "owe")
  /\ RunOthers /\ UNCHANGED <<state, delivered, complete, master, stamp>>

\* mark_pending leaves a row `pending` when there is a destination.
PersistOwes(m) ==
  /\ RunAt(m, "owe")
  /\ delivered' \in {delivered, [delivered EXCEPT ![m] = FALSE]}
  /\ RunGoes(m, "ready")
  /\ RunOthers /\ UNCHANGED <<state, row, complete, master, stamp>>

PersistReady(m) ==
  /\ RunAt(m, "ready")
  /\ state' = [state EXCEPT ![m] = "ready"]
  /\ RunGoes(m, "deliver")
  /\ RunOthers /\ UNCHANGED <<row, delivered, complete, master, stamp>>

\* After `deliver` the run goes to `retention` without the deferred case's
\* questions.
RunDelivers(m) ==
  /\ RunAt(m, "deliver")
  /\ \E d \in BOOLEAN : delivered' = [delivered EXCEPT ![m] = d]
  /\ RunGoes(m, "retention")
  /\ stamp' = [stamp EXCEPT ![<<"run", m>>].pc = "deliveries"]
  /\ RunOthers /\ UNCHANGED <<state, row, complete, master>>

RunEnds(m) ==
  /\ RunAt(m, "retention")
  /\ StampAt(<<"run", m>>, "idle")
  /\ RunLeaves(m)
  /\ RunOthers /\ UNCHANGED <<rows, stamp>>

\* A stage fails before the meeting is ready.
RunFails(m) ==
  /\ run[m].pc \in {"decode", "salvage", "keep", "results", "persist", "saveRow", "owe", "ready"}
  /\ state' = [state EXCEPT ![m] = "failed"]
  /\ RunLeaves(m)
  /\ RunOthers /\ UNCHANGED <<row, delivered, complete, master, stamp>>

Run(m) ==
  \/ RunFinds(m) \/ RunAdmit(m) \/ RunBegins(m) \/ RunDecodes(m)
  \/ RunSalvages(m) \/ RunKeeps(m) \/ RunSavesResults(m)
  \/ PersistReads(m) \/ PersistSaves(m) \/ PersistOwes(m) \/ PersistReady(m)
  \/ RunDelivers(m) \/ RunEnds(m) \/ RunFails(m)

-----------------------------------------------------------------------------
(* Re-exports and summary re-runs.                                          *)

OpOthers == UNCHANGED <<run, user, launch, sweep, sweepDue>>

\* The launch's resume is through, or is owed and comes again from the
\* store's retry; the launch's re-exports follow either.
Launched ==
  \/ launch.pc = "next" /\ launch.queued = {} /\ launch.processing = {}
  \/ launch.late = "owed"

\* The host takes calls once the launch's resume has returned, and while it
\* waits for the keyring or the import (recover_at_launch).
InUse == Launched \/ launch.late = "asked"
UserIsFree == user.pc = "idle" /\ InUse

\* `admit`, which does not ask whether a run has claimed the asset.
OpAdmit(m, pc) ==
  /\ ~InFlight(m)
  /\ OpGoes(m, pc)
  /\ overtaken' = IF RunAt(m, "idle") /\ state[m] \notin Unfinished
                  THEN overtaken ELSE overtaken \cup {m}
  /\ OpOthers /\ UNCHANGED <<rows, stamp, keeps, unswept>>

\* The user's re-export, and the launch's, which asks once it is admitted
\* whether the export is still owed.
Reexport(m) == Event("reexport") /\ UserIsFree /\ OpAdmit(m, "deliver")
LaunchReexport(m) == Event("reexport") /\ Launched /\ OpAdmit(m, "owed")
Rerun(m) == Event("rerun") /\ UserIsFree /\ OpAdmit(m, "rerun")

StillOwed(m) ==
  /\ op[m] = "owed"
  /\ OpGoes(m, IF state[m] = "ready" /\ ~delivered[m] THEN "deliver" ELSE "idle")
  /\ OpOthers /\ UNCHANGED <<rows, stamp, events, history>>

\* `resummarize` saves the meeting ready with its new summary, or fails.
Resummarize(m) ==
  /\ op[m] = "rerun"
  /\ \/ state' = [state EXCEPT ![m] = "ready"] /\ OpGoes(m, "owe")
     \/ UNCHANGED state /\ OpGoes(m, "idle")
  /\ OpOthers /\ UNCHANGED <<row, delivered, complete, master, stamp, events, history>>

OpOwes(m) ==
  /\ op[m] = "owe"
  /\ delivered' \in {delivered, [delivered EXCEPT ![m] = FALSE]}
  /\ OpGoes(m, "deliver")
  /\ OpOthers /\ UNCHANGED <<state, row, complete, master, stamp, events, history>>

OpDelivers(m) ==
  /\ op[m] = "deliver"
  /\ \E d \in BOOLEAN : delivered' = [delivered EXCEPT ![m] = d]
  /\ OpGoes(m, "retention")
  /\ stamp' = [stamp EXCEPT ![<<"op", m>>].pc = "deferred"]
  /\ OpOthers /\ UNCHANGED <<state, row, complete, master, events, history>>

OpEnds(m) ==
  /\ op[m] = "retention"
  /\ StampAt(<<"op", m>>, "idle")
  /\ OpGoes(m, "idle")
  /\ OpOthers /\ UNCHANGED <<rows, stamp, events, history>>

OpWorks(m) == StillOwed(m) \/ Resummarize(m) \/ OpOwes(m) \/ OpDelivers(m) \/ OpEnds(m)

-----------------------------------------------------------------------------
(* The user: a rule for one meeting, "keep all", "Process again".           *)

UserGoes(pc) == user' = [user EXCEPT !.pc = pc]
UserOthers == UNCHANGED <<op, launch, sweep, sweepDue>>

\* apply_retention reads the row ...
Apply(m, rule) ==
  /\ Event("apply")
  /\ UserIsFree
  /\ user' = [pc |-> "apply", meeting |-> m, row |-> [retention |-> rule, expires |-> "none"],
              ids |-> {}]
  /\ UserOthers /\ UNCHANGED <<rows, run, stamp, history>>

\* ... saves it with the rule and without a stamp, and asks for a new one.
ApplySaves ==
  LET m == user.meeting IN
  /\ user.pc = "apply"
  /\ SaveRow(m, user.row)
  /\ keeps' = IF user.row.retention = "keepForever" THEN keeps \cup {m} ELSE keeps \ {m}
  /\ UserGoes("retention")
  /\ stamp' = [stamp EXCEPT ![<<"user", m>>].pc = "deferred"]
  /\ UserOthers
  /\ UNCHANGED <<state, delivered, complete, master, run, events, overtaken, unswept>>

ApplyEnds ==
  /\ user.pc = "retention"
  /\ StampAt(<<"user", user.meeting>>, "idle")
  /\ user' = IdleUser
  /\ UserOthers /\ UNCHANGED <<rows, run, stamp, events, history>>

\* keep_all lists the assets whose master is on disk, then keeps them all
\* in one write.
KeepAll ==
  /\ Event("keepAll")
  /\ UserIsFree
  /\ user' = [IdleUser EXCEPT !.pc = "keep", !.ids = {m \in Meetings : master[MasterOf[m]]}]
  /\ UserOthers /\ UNCHANGED <<rows, run, stamp, history>>

KeepSaves ==
  /\ user.pc = "keep"
  /\ row' = [m \in Meetings |-> IF m \in user.ids THEN Kept ELSE row[m]]
  /\ keeps' = keeps \cup user.ids
  /\ user' = IdleUser
  /\ UserOthers
  /\ UNCHANGED <<state, delivered, complete, master, run, stamp, events, overtaken, unswept>>

\* reprocess_if: the row is read first, then the asset claimed, then the
\* meeting read and the master looked for.
Again(m) ==
  /\ Event("again")
  /\ UserIsFree
  /\ user' = [pc |-> "again", meeting |-> m, row |-> row[m], ids |-> {}]
  /\ UserOthers /\ UNCHANGED <<rows, run, stamp, history>>

AgainClaims ==
  LET m == user.meeting IN
  /\ user.pc = "again"
  /\ \/ ClaimFree(m) /\ RunGoes(m, "claimed") /\ UserGoes("check")
     \/ ~ClaimFree(m) /\ UNCHANGED run /\ user' = IdleUser
  /\ UserOthers /\ UNCHANGED <<rows, stamp, events, history>>

\* Offered for a failed meeting, and for a ready one whose results may need
\* the audio.
Offered(m) ==
  /\ state[m] = "failed" \/ (state[m] = "ready" /\ ~complete[m])
  /\ master[MasterOf[m]]

AgainChecks ==
  LET m == user.meeting IN
  /\ user.pc = "check"
  /\ \/ Offered(m) /\ UserGoes("requeue") /\ UNCHANGED run
     \/ ~Offered(m) /\ user' = IdleUser /\ RunLeaves(m)
  /\ UserOthers /\ UNCHANGED <<rows, stamp, events, history>>

\* Mutant of AgainSaves: the earlier run's stamp stays in the row.
AgainSavesStamped ==
  LET m == user.meeting IN
  /\ user.pc = "requeue"
  /\ state' = [state EXCEPT ![m] = "queued"]
  /\ SaveRow(m, user.row)
  /\ RunGoes(m, "queued")
  /\ user' = IdleUser
  /\ UserOthers /\ UNCHANGED <<delivered, complete, master, stamp, events, history>>

\* The meeting queued and the asset's row, as read, without its stamp.
AgainSaves ==
  LET m == user.meeting IN
  /\ user.pc = "requeue"
  /\ state' = [state EXCEPT ![m] = "queued"]
  /\ SaveRow(m, Unstamped(user.row))
  /\ RunGoes(m, "queued")
  /\ user' = IdleUser
  /\ UserOthers /\ UNCHANGED <<delivered, complete, master, stamp, events, history>>

UserWorks == ApplySaves \/ ApplyEnds \/ KeepSaves \/ AgainClaims \/ AgainChecks \/ AgainSaves

-----------------------------------------------------------------------------
(* The launch's resume_among: a queued meeting starts, one found processing *)
(* is failed.                                                               *)

LaunchOthers == UNCHANGED <<delivered, complete, master, op, stamp, user, sweep, sweepDue, keeps,
                            unswept>>

LaunchLists ==
  /\ launch.pc = "list"
  /\ launch' = [launch EXCEPT !.pc = "next",
                  !.queued = {m \in Meetings : state[m] = "queued"},
                  !.processing = {m \in Meetings : state[m] = "processing"}]
  /\ LaunchOthers /\ UNCHANGED <<state, row, run, events, overtaken>>

\* The loop goes on to the next meeting.
LaunchPasses(m) ==
  launch' = [launch EXCEPT !.pc = "next", !.queued = @ \ {m}, !.processing = @ \ {m},
                           !.meeting = AnyMeeting, !.row = NoRow]

\* The launch writes what it decided by its list over a meeting that is
\* ready by now.
Overtakes(m) == overtaken' = IF state[m] = "ready" THEN overtaken \cup {m} ELSE overtaken

\* A meeting in flight is passed over.
LaunchLooks(m) ==
  /\ launch.pc = "next"
  /\ m \in launch.queued \cup launch.processing
  /\ \/ InFlight(m) /\ LaunchPasses(m)
     \/ ~InFlight(m) /\ launch' = [launch EXCEPT !.pc = "read", !.meeting = m]
  /\ LaunchOthers /\ UNCHANGED <<state, row, run, events, overtaken>>

\* Its asset is read.
LaunchReads ==
  LET m == launch.meeting IN
  /\ launch.pc = "read"
  /\ \E pc \in {"start", "clear", "fail"} :
       /\ pc = "start" <=> m \in launch.queued
       /\ pc = "clear" => row[m].expires # "none"
       /\ pc = "fail" => row[m].expires = "none"
       /\ launch' = [launch EXCEPT !.pc = pc, !.row = row[m]]
  /\ LaunchOthers /\ UNCHANGED <<state, row, run, events, overtaken>>

\* claim_start and start; a meeting whose asset is claimed is passed over.
LaunchStarts ==
  LET m == launch.meeting IN
  /\ launch.pc = "start"
  /\ \/ ClaimFree(m) /\ RunGoes(m, "queued") /\ Overtakes(m)
     \/ ~ClaimFree(m) /\ UNCHANGED <<run, overtaken>>
  /\ LaunchPasses(m)
  /\ LaunchOthers /\ UNCHANGED <<state, row, events>>

LaunchClears ==
  /\ launch.pc = "clear"
  /\ SaveRow(launch.meeting, Unstamped(launch.row))
  /\ launch' = [launch EXCEPT !.pc = "fail"]
  /\ LaunchOthers /\ UNCHANGED <<state, run, events, overtaken>>

LaunchFails ==
  LET m == launch.meeting IN
  /\ launch.pc = "fail"
  /\ state' = [state EXCEPT ![m] = "failed"]
  /\ Overtakes(m)
  /\ LaunchPasses(m)
  /\ LaunchOthers /\ UNCHANGED <<row, run, events>>

\* resume_among stops at the first store error.  A busy store leaves the
\* launch's resume owed, to be run by the store's retry with the app in use.
LaunchStops ==
  /\ launch.pc \in {"list", "read", "clear", "fail"}
  /\ \/ /\ Event("lock") /\ launch.pc \in {"clear", "fail"}
        /\ launch' = [LaunchBegins("owed") EXCEPT !.pc = "owed"]
     \/ /\ Event("fault")
        /\ launch' = [LaunchBegins(launch.late) EXCEPT !.pc = "next"]
  /\ LaunchOthers /\ UNCHANGED <<state, row, run, overtaken>>

LaunchRetries ==
  /\ launch.pc = "owed"
  /\ launch' = [launch EXCEPT !.pc = "list"]
  /\ LaunchOthers /\ UNCHANGED <<state, row, run, events, overtaken>>

Launch ==
  \/ LaunchLists \/ LaunchReads \/ LaunchStarts \/ LaunchClears \/ LaunchFails \/ LaunchRetries
  \/ \E m \in Meetings : LaunchLooks(m)

-----------------------------------------------------------------------------
(* The sweep: at launch and after every `RetentionApplied`.                 *)

SweepOthers == UNCHANGED <<state, delivered, complete, run, op, stamp, user, launch, keeps, overtaken>>

SweepLists ==
  /\ sweepDue /\ sweep = {}
  /\ sweepDue' = FALSE
  /\ sweep' = {m \in Meetings : Due(m)}
  /\ SweepOthers /\ UNCHANGED <<row, master, events, unswept>>

\* Mutant of Sweepable: other rows are not asked.
SweepableAlone(m) == Due(m)

\* sweep_expired_asset checks the row again in the write that removes the
\* files: it may have been kept or queued since, or its master needed.
Sweepable(m) == Due(m) /\ ~(master[MasterOf[m]] /\ HasKeeper(m))

SweepSkips(m) ==
  /\ m \in sweep
  /\ ~Sweepable(m)
  /\ sweep' = sweep \ {m}
  /\ SweepOthers /\ UNCHANGED <<row, master, sweepDue, events, unswept>>

SweepRemoves(m) ==
  /\ m \in sweep
  /\ Sweepable(m)
  /\ sweep' = sweep \ {m}
  /\ master' = [master EXCEPT ![MasterOf[m]] = FALSE]
  /\ SaveRow(m, Unstamped(row[m]))
  /\ SweepOthers /\ UNCHANGED <<sweepDue, events, unswept>>

\* A file resists, the master or one beside it: the stamp stays, for the
\* next sweep somebody asks for.
SweepResisted(m) ==
  /\ Event("fault")
  /\ m \in sweep
  /\ Sweepable(m)
  /\ sweep' = sweep \ {m}
  /\ master' \in {master, [master EXCEPT ![MasterOf[m]] = FALSE]}
  /\ unswept' = TRUE
  /\ SweepOthers /\ UNCHANGED <<row, sweepDue>>

SweepWorks == SweepLists \/ \E m \in Meetings : SweepSkips(m) \/ SweepRemoves(m)

-----------------------------------------------------------------------------
(* The world outside.                                                       *)

\* A stamp runs out; nothing asks for a sweep.
TimePasses(m) ==
  /\ row[m].expires = "later"
  /\ SaveRow(m, [row[m] EXCEPT !.expires = "due"])
  /\ unswept' = TRUE
  /\ UNCHANGED <<state, delivered, complete, master, actors, events, keeps, overtaken>>

\* The app ends at any point and is launched again.
Crash ==
  /\ Event("crash")
  /\ run' = [m \in Meetings |-> IdleRun]
  /\ op' = [m \in Meetings |-> "idle"]
  /\ stamp' = [s \in Stampers |-> IdleStamp]
  /\ user' = IdleUser
  /\ \E late \in {"no", "asked"} : launch' = LaunchBegins(late)
  /\ sweep' = {}
  /\ sweepDue' = TRUE
  /\ unswept' = FALSE
  /\ UNCHANGED <<rows, keeps, overtaken>>

Next ==
  \/ \E s \in Stampers : Stamp(s)
  \/ \E m \in Meetings : Run(m) \/ OpWorks(m) \/ Reexport(m) \/ LaunchReexport(m) \/ Rerun(m)
  \/ \E m \in Meetings : Again(m) \/ SweepResisted(m) \/ TimePasses(m)
  \/ \E m \in Meetings, rule \in Rules : Apply(m, rule)
  \/ KeepAll \/ UserWorks \/ Launch \/ LaunchStops \/ SweepWorks \/ Crash

Spec == Init /\ [][Next]_vars

\* The runtime runs every spawned task and every blocking step to its end.
Fairness ==
  /\ \A m \in Meetings : /\ WF_vars(Run(m) \/ Stamp(<<"run", m>>))
                         /\ WF_vars(OpWorks(m) \/ Stamp(<<"op", m>>))
  /\ WF_vars(UserWorks \/ \E m \in Meetings : Stamp(<<"user", m>>))
  /\ WF_vars(Launch) /\ WF_vars(SweepWorks)

FairSpec == Spec /\ Fairness

-----------------------------------------------------------------------------
(* Properties.                                                              *)

\* A meeting still to be processed, or whose run failed, has no stamp: the
\* sweep must not take the audio a run, or another try, needs.  Several
\* writers save the whole row while the state changes beside it
\* (reprocess_if, stamp_deferred_retention, persist, resume_among), also with
\* the launch's resume beside the user's calls.  It is kept unless an
\* operation was admitted while a run was on its way, which `admit` does not
\* refuse (pipeline.rs, reprocess and admit), or the launch's resume failed
\* or started a meeting that was ready by then, which it does not ask again.
UnfinishedAudioIsSafe ==
  \A m \in Meetings \ overtaken :
    state[m] \in {"queued", "failed"} => row[m].expires = "none"

\* Whenever an automatic stamp is about to be saved, every delivery is
\* delivered and the results can do without the audio, though both were read
\* two awaits earlier (retention, stored_results_need_the_audio).
AutomaticStampIsEarned ==
  \A s \in Stampers :
    s[1] # "user" /\ stamp[s].pc = "save" => delivered[s[2]] /\ complete[s[2]]

\* A master is removed only when no row naming it is kept forever or belongs
\* to a meeting queued or in processing, whatever changed since the sweep
\* listed the rows (sweep_expired_asset, keeper_of_master).
KeptMasterStays ==
  [][\A f \in Files : master[f] /\ ~master'[f] =>
       \A m \in Meetings : MasterOf[m] = f =>
         row[m].retention # "keepForever" /\ state[m] \notin Unfinished]_vars

\* A rule "keep forever" the user applied stays until the user applies
\* another: `persist` says of its row that "a retention changed meanwhile
\* survives", and apply_retention that it is safe while processing.
ChosenKeepSurvives == \A m \in keeps : row[m].retention = "keepForever"

=============================================================================
