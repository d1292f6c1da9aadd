------------------------ MODULE SpeechEngineProofs ------------------------
(***************************************************************************)
(* What SpeechEngine says, for any number of jobs, warm-ups, lanes and     *)
(* faults.                                                                 *)
(*                                                                         *)
(* The invariant is a discipline of owners: the count is the number of     *)
(* claiming jobs, the lock of the warm-ups is had by the one task that     *)
(* prepares or releases, the child by the one task whose call runs in it,  *)
(* which asked the one request that is owed or whose one reply is queued.  *)
(* On top of it, a child that runs has somebody who will end it (`Kept').  *)
(***************************************************************************)
EXTENDS SpeechEngine, FiniteSetTheorems, TLAPS

ClaimPlaces == {"turn", "live", "warm", "preparing", "prepare", "decode",
                "lane", "drop"}

\* The places from which the engine or the diarizer is called.
CallPlaces == {"prepare", "lane", "release", "speakers"}

Counted == claims = Cardinality(Claiming)

PreparingHeld ==
    \A t \in Tasks : preparing = t <=> at[t] \in {"prepare", "release"}

WarmedAreThrough ==
    \A j \in warmed : at[j] \notin {"idle", "warm", "preparing", "prepare"}

WarmUpsPlaced ==
    \A w \in WarmUps :
        /\ at[w] \in {"idle", "warm", "preparing", "prepare", "over"}
        /\ at[w] = "prepare" => InProcess

CallsPlaced ==
    \A t \in Tasks :
        /\ answer[t] # "none" => at[t] \in CallPlaces
        /\ holder = t <=> answer[t] = "runs" /\ ~RunsHere(t)

\* What the call at each place may be waiting for.
AsksAt(place) ==
    CASE place = "prepare" -> {"ready", "load"}
      [] place = "lane" -> {"ready", "load", "transcribe"}
      [] place = "speakers" -> {"ready", "load_diarizer", "diarize", "bye"}
      [] OTHER -> {"bye"}

\* No reply is queued while one is owed, and never two.
Replied(c) ==
    \A i \in DOMAIN c.queue : c.queue[i].is = "reply" =>
        /\ c.owes = "none"
        /\ \A k \in DOMAIN c.queue : c.queue[k].is = "reply" => k = i

AskedOnce ==
    holder # NoOne =>
        /\ child.runs
        /\ child.awaits \in AsksAt(at[holder])
        /\ child.owes \in {"none", child.awaits}
        /\ Replied(child)

Diarizing ==
    holder # NoOne /\ at[holder] = "speakers" /\ child.provider = "none"

WillRelease(j) ==
    \/ at[j] \in ClaimPlaces \cup {"recount", "last"}
    \/ at[j] = "release" /\ answer[j] \in {"queued", "runs"}

Kept ==
    child.runs => \/ Diarizing
                  \/ ~InProcess /\ \E j \in Jobs : WillRelease(j)

\* What a child may still answer once DirectML is off.
OnCpu ==
    off /\ child.runs =>
        \A i \in DOMAIN child.queue :
            child.queue[i].is = "reply" => child.queue[i].provider # "directml"

IInv ==
    /\ TypeOK
    /\ Counted /\ PreparingHeld /\ WarmedAreThrough /\ WarmUpsPlaced
    /\ ReleaseSparesTheLanes
    /\ CallsPlaced
    /\ FreeChildOwesNothing /\ AskedOnce
    /\ Kept
    /\ SwitchedOffRunsOnCpu /\ OnCpu

Answers == {"none", "check", "queued", "runs", "ok", "failed"}

\* The job side of the invariant.
JobSide ==
    /\ Counted /\ PreparingHeld /\ WarmedAreThrough /\ WarmUpsPlaced
    /\ ReleaseSparesTheLanes

\* The child's.
ChildSide ==
    /\ CallsPlaced /\ FreeChildOwesNothing /\ AskedOnce /\ Kept
    /\ SwitchedOffRunsOnCpu /\ OnCpu

\* A task without a call in the child goes to a place and its call to a state.
Moves(t, p, a) ==
    /\ at' = [at EXCEPT ![t] = p]
    /\ answer' = [answer EXCEPT ![t] = a]
    /\ UNCHANGED <<process, runtime>>

---------------------------------------------------------------------------
\* Such a move disturbs no call in the child, and leaves a child somebody who
\* ends it as long as the task does not, or another does.
LEMMA MovesKeepCalls ==
    ASSUME IInv, NEW t \in Tasks, NEW p \in Places, NEW a \in Answers,
           Moves(t, p, a), holder # t,
           a # "none" => p \in CallPlaces,
           a = "runs" => InProcess /\ p \in {"prepare", "lane", "release"},
           ~InProcess /\ t \in Jobs /\ WillRelease(t) =>
               \/ p \in ClaimPlaces \cup {"recount", "last"}
               \/ p = "release" /\ a \in {"queued", "runs"}
               \/ \E j \in Jobs \ {t} : WillRelease(j)
    PROVE  ChildSide'
<1> USE DEF IInv, TypeOK
<1>1. /\ \A u \in Tasks : u # t => at'[u] = at[u] /\ answer'[u] = answer[u]
      /\ at'[t] = p /\ answer'[t] = a
      /\ holder' = holder /\ child' = child /\ off' = off /\ runtime' = runtime
  BY DEF Moves, process
<1>2. CallsPlaced'
  BY <1>1 DEF CallsPlaced, RunsHere, InProcess
<1>3. FreeChildOwesNothing' /\ SwitchedOffRunsOnCpu' /\ OnCpu'
  BY <1>1 DEF FreeChildOwesNothing, SwitchedOffRunsOnCpu, OnCpu
<1>4. holder # NoOne => holder \in Tasks /\ at'[holder] = at[holder]
  BY <1>1
<1>5. AskedOnce'
  BY <1>1, <1>4 DEF AskedOnce, Replied
<1>6. Kept'
  <2> SUFFICES ASSUME child.runs PROVE Kept'
    BY <1>1 DEF Kept
  <2>1. CASE Diarizing
    BY <2>1, <1>1, <1>4 DEF Diarizing, Kept
  <2>2. CASE ~InProcess /\ \E j \in Jobs : WillRelease(j)
    <3>1. \E j \in Jobs : WillRelease(j)'
      BY <2>2, <1>1 DEF WillRelease, Tasks
    <3> QED BY <2>2, <3>1, <1>1 DEF Kept, InProcess
  <2> QED BY <2>1, <2>2 DEF Kept
<1> QED BY <1>2, <1>3, <1>5, <1>6 DEF ChildSide

\* A task that neither takes a claim nor gives one up leaves the count right.
LEMMA SameClaims ==
    ASSUME IInv, NEW t \in Tasks, NEW p \in Places,
           at' = [at EXCEPT ![t] = p], claims' = claims,
           t \in Jobs => (p \in ClaimPlaces <=> at[t] \in ClaimPlaces)
    PROVE  Counted'
<1>1. Claiming' = Claiming
  BY DEF Claiming, ClaimPlaces, IInv, TypeOK, Tasks
<1> QED BY <1>1 DEF Counted, IInv

\* A count of claims is of finitely many jobs (SharedEngineState.count).
LEMMA ClaimingIsFinite == IsFiniteSet(Claiming)
<1>1. IsFiniteSet(Jobs) /\ Claiming \subseteq Jobs
  BY SpeechAssumption DEF Claiming
<1> QED BY <1>1, FS_Subset

\* The lock of the warm-ups stays with who prepares or releases, and a release
\* starts only where nobody claims.
LEMMA MovesKeepOwners ==
    ASSUME IInv, NEW t \in Tasks, NEW p \in Places,
           at' = [at EXCEPT ![t] = p], runtime' = runtime, Counted',
           preparing' = t <=> p \in {"prepare", "release"},
           \A u \in Tasks \ {t} : preparing' = u <=> preparing = u,
           warmed' \subseteq warmed \cup {t},
           t \in warmed' => p \notin {"idle", "warm", "preparing", "prepare"},
           t \in warmed' /\ t \notin warmed => at[t] = "prepare",
           t \in warmed /\ p \in ClaimPlaces => at[t] \in ClaimPlaces,
           t \in WarmUps => /\ p \in {"idle", "warm", "preparing", "prepare", "over"}
                            /\ p = "prepare" => InProcess,
           p = "release" => Claiming = {}
    PROVE  JobSide'
<1> USE DEF IInv, TypeOK
<1>1. at'[t] = p /\ \A u \in Tasks : u # t => at'[u] = at[u]
  OBVIOUS
<1>2. PreparingHeld'
  BY <1>1 DEF PreparingHeld
<1>3. WarmedAreThrough'
  BY <1>1 DEF WarmedAreThrough, Tasks
<1>4. WarmUpsPlaced'
  BY <1>1 DEF WarmUpsPlaced, Tasks, InProcess
<1>5. ReleaseSparesTheLanes'
  <2> SUFFICES ASSUME NEW j \in Jobs, at'[j] = "release",
                      NEW k \in Jobs, at'[k] \in ClaimPlaces, k \in warmed'
               PROVE  FALSE
    BY DEF ReleaseSparesTheLanes, Claiming, ClaimPlaces
  <2>1. CASE j = t
    <3>1. k # t
      BY <2>1, <1>1 DEF ClaimPlaces
    <3>2. k \in Claiming
      BY <3>1, <1>1 DEF Claiming, ClaimPlaces, Tasks
    <3> QED BY <3>2, <2>1, <1>1
  <2>2. CASE j # t
    <3>1. at[j] = "release" /\ preparing = j
      BY <2>2, <1>1 DEF Tasks, PreparingHeld
    <3>2. at[t] # "prepare"
      BY <3>1, <2>2 DEF PreparingHeld
    <3>3. k \in warmed /\ at[k] \in ClaimPlaces
      BY <3>2, <1>1 DEF Tasks
    <3> QED BY <3>1, <3>3 DEF ReleaseSparesTheLanes, Claiming, ClaimPlaces
  <2> QED BY <2>1, <2>2
<1> QED BY <1>2, <1>3, <1>4, <1>5 DEF JobSide

\* The invariant from its parts.
LEMMA Sides == ASSUME TypeOK', JobSide', ChildSide' PROVE IInv'
BY DEF IInv, JobSide, ChildSide

---------------------------------------------------------------------------
(* The steps of jobs and warm-ups. *)

\* A job's claim is counted as it starts (SharedSpeechEngine::claim).
LEMMA ClaimKeeps == ASSUME IInv, NEW j \in Jobs, Claim(j) PROVE IInv'
<1> USE DEF Tasks, Places
<1> DEFINE p == IF InProcess THEN "turn" ELSE "warm"
<1>1. /\ at[j] = "idle" /\ at' = [at EXCEPT ![j] = p] /\ claims' = claims + 1
      /\ UNCHANGED <<preparing, turn, model, warmed, lanes, failed, process,
                     world, answer>>
  BY DEF Claim, Goes
<1>2. TypeOK'
  BY <1>1 DEF IInv, TypeOK, process, world
<1>3. answer[j] = "none" /\ holder # j
  BY <1>1 DEF IInv, CallsPlaced, CallPlaces
<1>4. Counted'
  <2>1. Claiming' = Claiming \cup {j} /\ j \notin Claiming
    BY <1>1 DEF Claiming, IInv, TypeOK
  <2> QED BY <2>1, <1>1, ClaimingIsFinite, FS_AddElement DEF IInv, Counted
<1>5. JobSide'
  <2>1. p \in Places /\ j \notin warmed /\ j \notin WarmUps
    BY <1>1, SpeechAssumption DEF IInv, WarmedAreThrough
  <2>2. preparing # j
    BY <1>1 DEF IInv, PreparingHeld
  <2> QED BY <1>1, <1>4, <2>1, <2>2, MovesKeepOwners DEF world
<1>6. ChildSide'
  <2>1. Moves(j, p, "none")
    BY <1>1, <1>3 DEF IInv, TypeOK, Moves, world
  <2>2. p \in ClaimPlaces
    BY DEF ClaimPlaces
  <2> QED BY <1>3, <2>1, <2>2, MovesKeepCalls DEF Answers
<1> QED BY <1>2, <1>5, <1>6, Sides

\* A step between two places that takes no claim, no lock of the warm-ups and
\* warms nothing up.
LEMMA PlainMoves ==
    ASSUME IInv, TypeOK', NEW t \in Tasks, NEW p \in Places, NEW a \in Answers,
           Moves(t, p, a), UNCHANGED <<claims, preparing, warmed>>,
           answer[t] # "runs", a # "runs",
           at[t] \notin {"prepare", "release"}, p \notin {"prepare", "release"},
           t \in Jobs => (p \in ClaimPlaces <=> at[t] \in ClaimPlaces),
           t \in warmed => p \notin {"idle", "warm", "preparing"},
           t \in WarmUps => p \in {"idle", "warm", "preparing", "over"},
           a # "none" => p \in CallPlaces,
           t \in Jobs /\ WillRelease(t) =>
               \/ p \in ClaimPlaces \cup {"recount", "last"}
               \/ \E j \in Jobs \ {t} : WillRelease(j)
    PROVE  IInv'
<1>1. holder # t
  BY DEF IInv, CallsPlaced
<1>2. Counted'
  BY SameClaims DEF Moves
<1>3. JobSide'
  <2>1. t \in warmed /\ p \in ClaimPlaces => at[t] \in ClaimPlaces
    BY DEF IInv, TypeOK
  <2>2. preparing # t /\ preparing' = preparing /\ runtime' = runtime
    BY DEF IInv, PreparingHeld, Moves
  <2> QED BY <1>2, <2>1, <2>2, MovesKeepOwners DEF Moves
<1>4. ChildSide'
  BY <1>1, MovesKeepCalls
<1> QED BY <1>3, <1>4, Sides

\* A step of a call outside the child, its task where it was.
LEMMA CallMoves ==
    ASSUME IInv, TypeOK', NEW t \in Tasks, NEW a \in Answers, a # "none",
           answer' = [answer EXCEPT ![t] = a],
           UNCHANGED <<at, claims, preparing, warmed, process, runtime>>,
           answer[t] # "none", holder # t,
           a = "runs" => RunsHere(t),
           ~InProcess => answer[t] = "check"
    PROVE  IInv'
<1>1. at[t] \in CallPlaces /\ at[t] \in Places
  BY DEF IInv, TypeOK, CallsPlaced
<1>2. Moves(t, at[t], a)
  BY DEF Moves, IInv, TypeOK
<1>3. JobSide'
  BY DEF JobSide, IInv, Counted, Claiming, PreparingHeld, WarmedAreThrough,
         WarmUpsPlaced, ReleaseSparesTheLanes, InProcess
<1>4. ChildSide'
  BY <1>1, <1>2, MovesKeepCalls DEF RunsHere, WillRelease
<1> QED BY <1>3, <1>4, Sides

\* in_process_turn.
LEMMA TakesTurnKeeps == ASSUME IInv, NEW j \in Jobs, TakesTurn(j) PROVE IInv'
<1>1. /\ at[j] = "turn" /\ at' = [at EXCEPT ![j] = "live"] /\ turn' = j
      /\ UNCHANGED <<claims, preparing, model, warmed, lanes, failed, process,
                     world, answer>>
  BY DEF TakesTurn, Goes
<1>2. TypeOK'
  BY <1>1 DEF IInv, TypeOK, process, world, Places, Tasks
<1>3. answer[j] = "none"
  BY <1>1 DEF IInv, CallsPlaced, CallPlaces, Tasks
<1>4. Moves(j, "live", "none")
  BY <1>1, <1>3 DEF IInv, TypeOK, Moves, world
<1>5. j \in Tasks /\ j \notin WarmUps /\ "live" \in Places /\ "none" \in Answers
  BY SpeechAssumption DEF Tasks, Places, Answers
<1> QED BY <1>1, <1>2, <1>3, <1>4, <1>5, PlainMoves DEF ClaimPlaces

\* The turn's wait for the recording is over, or the app quits (in_process_turn).
LEMMA NoRecordingKeeps == ASSUME IInv, NEW j \in Jobs, NoRecording(j) PROVE IInv'
<1>1. /\ at[j] = "live" /\ UNCHANGED <<claims, preparing, model, warmed, lanes,
                                       process, world>>
  BY DEF NoRecording
<1>2. answer[j] = "none"
  BY <1>1 DEF IInv, CallsPlaced, CallPlaces, Tasks
<1>3. PICK p \in {"drop", "warm", "lane"}, a \in {"none", "queued"} :
        /\ at' = [at EXCEPT ![j] = p] /\ answer' = [answer EXCEPT ![j] = a]
        /\ a = "queued" => p = "lane"
        /\ p = "warm" => j \notin warmed
        /\ turn' \in {turn, NoOne} /\ failed' \in {failed, failed \cup {j}}
  BY <1>2 DEF NoRecording, Goes, Calls, IInv, TypeOK
<1>4. TypeOK'
  BY <1>1, <1>3 DEF IInv, TypeOK, process, world, Places, Tasks
<1>5. Moves(j, p, a)
  BY <1>1, <1>3 DEF Moves, world
<1>6. j \in Tasks /\ j \notin WarmUps /\ p \in Places /\ a \in Answers
  BY SpeechAssumption DEF Tasks, Places, Answers
<1> QED BY <1>1, <1>2, <1>3, <1>4, <1>5, <1>6, PlainMoves
        DEF ClaimPlaces, CallPlaces

\* decode_and_transcribe, between two lanes.
LEMMA NextLaneKeeps == ASSUME IInv, NEW j \in Jobs, NextLane(j) PROVE IInv'
<1>1. /\ at[j] = "decode"
      /\ UNCHANGED <<locks, warmed, lanes, process, runtime, installed, live,
                     quit>>
  BY DEF NextLane
<1>2. answer[j] = "none"
  BY <1>1 DEF IInv, CallsPlaced, CallPlaces, Tasks
<1>3. PICK p \in {"turn", "lane", "drop"}, a \in {"none", "queued"} :
        /\ at' = [at EXCEPT ![j] = p] /\ answer' = [answer EXCEPT ![j] = a]
        /\ a = "queued" => p = "lane"
        /\ failed' \in {failed, failed \cup {j}} /\ faults' \in {faults, faults + 1}
  BY <1>2 DEF NextLane, Goes, Calls, IInv, TypeOK
<1>4. TypeOK'
  BY <1>1, <1>3 DEF IInv, TypeOK, process, locks, Places, Tasks
<1>5. Moves(j, p, a)
  BY <1>1, <1>3 DEF Moves
<1>6. j \in Tasks /\ j \notin WarmUps /\ p \in Places /\ a \in Answers
  BY SpeechAssumption DEF Tasks, Places, Answers
<1> QED BY <1>1, <1>2, <1>3, <1>4, <1>5, <1>6, PlainMoves
        DEF ClaimPlaces, CallPlaces, locks

\* A lane's answer, taken for good or ill.
LEMMA TranscribedKeeps == ASSUME IInv, NEW j \in Jobs, Transcribed(j) PROVE IInv'
<1>1. /\ at[j] = "lane" /\ answer[j] # "runs"
      /\ answer' = [answer EXCEPT ![j] = "none"]
      /\ turn' = Gives(turn, j)
      /\ UNCHANGED <<claims, preparing, model, warmed, process, world>>
  BY DEF Transcribed, Calls
<1>2. PICK p \in {"decode", "drop"} :
        /\ at' = [at EXCEPT ![j] = p]
        /\ failed' \in {failed, failed \cup {j}}
        /\ lanes' \in {lanes, [lanes EXCEPT ![j] = @ + 1]}
  BY DEF Transcribed, Goes
<1>3. TypeOK'
  BY <1>1, <1>2 DEF IInv, TypeOK, process, world, Places, Tasks, Gives
<1>4. Moves(j, p, "none")
  BY <1>1, <1>2 DEF Moves, world
<1>5. j \in Tasks /\ j \notin WarmUps /\ p \in Places /\ "none" \in Answers
  BY SpeechAssumption DEF Tasks, Places, Answers
<1> QED BY <1>1, <1>2, <1>3, <1>4, <1>5, PlainMoves DEF ClaimPlaces

\* finish_speech gives the claim up first; the job still owes its recount.
LEMMA DropsClaimKeeps == ASSUME IInv, NEW j \in Jobs, DropsClaim(j) PROVE IInv'
<1>1. /\ at[j] = "drop" /\ at' = [at EXCEPT ![j] = "recount"]
      /\ claims' = claims - 1
      /\ UNCHANGED <<preparing, turn, model, warmed, lanes, failed, process,
                     world, answer>>
  BY DEF DropsClaim, Goes
<1>2. answer[j] = "none" /\ holder # j /\ j \in Tasks /\ j \notin WarmUps
  BY <1>1, SpeechAssumption DEF IInv, CallsPlaced, CallPlaces, Tasks
<1>3. Claiming' = Claiming \ {j} /\ j \in Claiming
  BY <1>1 DEF Claiming, IInv, TypeOK, Tasks
<1>4. claims' = Cardinality(Claiming') /\ claims' \in Nat
  <2>1. /\ IsFiniteSet(Claiming \ {j})
        /\ Cardinality(Claiming \ {j}) = Cardinality(Claiming) - 1
    BY <1>3, ClaimingIsFinite, FS_RemoveElement
  <2>2. Cardinality(Claiming \ {j}) \in Nat
    BY <2>1, FS_CardinalityType
  <2> QED BY <2>1, <2>2, <1>1, <1>3 DEF IInv, Counted
<1>5. TypeOK'
  BY <1>1, <1>4 DEF IInv, TypeOK, process, world, Places, Tasks
<1>6. "recount" \in Places /\ "none" \in Answers
  BY DEF Places, Answers
<1>7. JobSide'
  <2>1. preparing # j
    BY <1>1, <1>2 DEF IInv, PreparingHeld
  <2> QED BY <1>1, <1>2, <1>4, <1>6, <2>1, MovesKeepOwners
          DEF Counted, ClaimPlaces, world
<1>8. ChildSide'
  <2>1. Moves(j, "recount", "none")
    BY <1>1, <1>2 DEF IInv, TypeOK, Moves, world
  <2> QED BY <1>2, <1>6, <2>1, MovesKeepCalls
<1> QED BY <1>5, <1>7, <1>8, Sides

\* What follows the engine: the diarizer's call, or nothing.
LEMMA SpeakersMoves ==
    ASSUME IInv, NEW j \in Jobs, Speakers(j)
    PROVE  \E p \in {"over", "speakers"}, a \in {"none", "check"} :
             /\ at' = [at EXCEPT ![j] = p] /\ answer' = [answer EXCEPT ![j] = a]
             /\ a = "check" => p = "speakers"
BY DEF Speakers, Goes, Calls

\* A count above zero is a job that will count again.
LEMMA SomeoneClaims ==
    ASSUME IInv, claims > 0
    PROVE  \E k \in Jobs : at[k] \in ClaimPlaces
<1>1. Claiming # {}
  BY FS_EmptySet DEF IInv, Counted
<1> QED BY <1>1 DEF Claiming, ClaimPlaces

\* The count looked at without the lock (finish_speech's first look).
LEMMA RecountsKeeps == ASSUME IInv, NEW j \in Jobs, Recounts(j) PROVE IInv'
<1>1. at[j] = "recount" /\ UNCHANGED <<locks, warmed, lanes, failed, process, world>>
  BY DEF Recounts
<1>2. answer[j] = "none" /\ j \in Tasks /\ j \notin WarmUps
  BY <1>1, SpeechAssumption DEF IInv, CallsPlaced, CallPlaces, Tasks
<1>3. PICK p \in {"over", "speakers", "last"}, a \in {"none", "check"} :
        /\ at' = [at EXCEPT ![j] = p] /\ answer' = [answer EXCEPT ![j] = a]
        /\ a = "check" => p = "speakers"
        /\ p # "last" => claims > 0
  BY <1>2, SpeakersMoves DEF Recounts, Goes, IInv, TypeOK
<1>4. TypeOK'
  BY <1>1, <1>3 DEF IInv, TypeOK, process, world, locks, Places, Tasks
<1>5. Moves(j, p, a) /\ p \in Places /\ a \in Answers
  BY <1>1, <1>3 DEF Moves, world, Places, Answers
<1>6. p # "last" => \E k \in Jobs \ {j} : WillRelease(k)
  BY <1>1, <1>3, SomeoneClaims DEF WillRelease, ClaimPlaces
<1> QED BY <1>1, <1>2, <1>3, <1>4, <1>5, <1>6, PlainMoves
        DEF ClaimPlaces, CallPlaces, locks

\* The recount under `preparing', and the release it allows.
LEMMA ReleasesKeeps == ASSUME IInv, NEW j \in Jobs, Releases(j) PROVE IInv'
<1>1. /\ at[j] = "last" /\ preparing = NoOne
      /\ UNCHANGED <<claims, turn, model, warmed, lanes, failed, process, world>>
  BY DEF Releases
<1>2. /\ answer[j] = "none" /\ holder # j /\ j \in Tasks /\ j \notin WarmUps
      /\ j # NoOne
  BY <1>1, SpeechAssumption DEF IInv, CallsPlaced, CallPlaces, Tasks
<1>3. CASE claims > 0
  <2>1. preparing' = preparing /\ Speakers(j)
    BY <1>3 DEF Releases
  <2>2. PICK p \in {"over", "speakers"}, a \in {"none", "check"} :
          /\ at' = [at EXCEPT ![j] = p] /\ answer' = [answer EXCEPT ![j] = a]
          /\ a = "check" => p = "speakers"
    BY <2>1, SpeakersMoves
  <2>3. TypeOK'
    BY <1>1, <2>1, <2>2 DEF IInv, TypeOK, process, world, Places, Tasks
  <2>4. Moves(j, p, a) /\ p \in Places /\ a \in Answers
    BY <1>1, <2>2 DEF Moves, world, Places, Answers
  <2>5. \E k \in Jobs \ {j} : WillRelease(k)
    BY <1>1, <1>3, SomeoneClaims DEF WillRelease, ClaimPlaces
  <2> QED BY <1>1, <1>2, <2>1, <2>2, <2>3, <2>4, <2>5, PlainMoves
          DEF ClaimPlaces, CallPlaces
<1>4. CASE ~(claims > 0)
  <2>1. /\ preparing' = j /\ at' = [at EXCEPT ![j] = "release"]
        /\ answer' = [answer EXCEPT ![j] = "queued"]
    BY <1>4 DEF Releases, Goes, Calls
  <2>2. Claiming = {}
    BY <1>4, ClaimingIsFinite, FS_EmptySet, FS_CardinalityType
       DEF IInv, TypeOK, Counted
  <2>3. TypeOK'
    BY <1>1, <1>2, <2>1 DEF IInv, TypeOK, process, world, Places, Tasks
  <2>4. Moves(j, "release", "queued") /\ "release" \in Places /\ "queued" \in Answers
    BY <1>1, <2>1 DEF Moves, world, Places, Answers
  <2>5. Counted'
    BY <1>1, <1>2, <2>1, <2>4, SameClaims DEF ClaimPlaces
  <2>6. JobSide'
    <3>1. \A u \in Tasks \ {j} : preparing' = u <=> preparing = u
      BY <1>1, <2>1, SpeechAssumption DEF Tasks
    <3> QED BY <1>1, <1>2, <2>1, <2>2, <2>4, <2>5, <3>1, MovesKeepOwners
            DEF world, ClaimPlaces
  <2>7. ChildSide'
    BY <1>2, <2>4, MovesKeepCalls DEF CallPlaces
  <2> QED BY <2>3, <2>6, <2>7, Sides
<1> QED BY <1>3, <1>4

\* The release is over, logged where it failed.
LEMMA ReleasedKeeps == ASSUME IInv, NEW j \in Jobs, Released(j) PROVE IInv'
<1>1. /\ at[j] = "release" /\ answer[j] \in {"ok", "failed"} /\ preparing' = NoOne
      /\ UNCHANGED <<claims, turn, model, warmed, lanes, failed, process, world>>
      /\ Speakers(j)
  BY DEF Released
<1>2. /\ holder # j /\ j \in Tasks /\ j \notin WarmUps /\ j # NoOne
      /\ preparing = j
  BY <1>1, SpeechAssumption DEF IInv, CallsPlaced, PreparingHeld, Tasks
<1>3. PICK p \in {"over", "speakers"}, a \in {"none", "check"} :
        /\ at' = [at EXCEPT ![j] = p] /\ answer' = [answer EXCEPT ![j] = a]
        /\ a = "check" => p = "speakers"
  BY <1>1, SpeakersMoves
<1>4. TypeOK'
  BY <1>1, <1>3 DEF IInv, TypeOK, process, world, Places, Tasks
<1>5. Moves(j, p, a) /\ p \in Places /\ a \in Answers
  BY <1>1, <1>3 DEF Moves, world, Places, Answers
<1>6. Counted'
  BY <1>1, <1>2, <1>3, <1>5, SameClaims DEF ClaimPlaces
<1>7. JobSide'
  <2>1. \A u \in Tasks \ {j} : preparing' = u <=> preparing = u
    BY <1>1, <1>2, SpeechAssumption DEF Tasks
  <2> QED BY <1>1, <1>2, <1>3, <1>5, <1>6, <2>1, MovesKeepOwners
          DEF world, ClaimPlaces
<1>8. ChildSide'
  BY <1>1, <1>2, <1>3, <1>5, MovesKeepCalls DEF CallPlaces, WillRelease, ClaimPlaces
<1> QED BY <1>4, <1>7, <1>8, Sides

\* The run goes on without the engine, with speakers or without.
LEMMA DiarizedKeeps == ASSUME IInv, NEW j \in Jobs, Diarized(j) PROVE IInv'
<1>1. /\ at[j] = "speakers" /\ answer[j] # "runs"
      /\ at' = [at EXCEPT ![j] = "over"] /\ answer' = [answer EXCEPT ![j] = "none"]
      /\ UNCHANGED <<locks, warmed, lanes, failed, process, world>>
  BY DEF Diarized, Goes, Calls
<1>2. TypeOK'
  BY <1>1 DEF IInv, TypeOK, process, world, locks, Places, Tasks
<1>3. Moves(j, "over", "none")
  BY <1>1 DEF Moves, world
<1>4. j \in Tasks /\ j \notin WarmUps /\ "over" \in Places /\ "none" \in Answers
  BY SpeechAssumption DEF Tasks, Places, Answers
<1> QED BY <1>1, <1>2, <1>3, <1>4, PlainMoves DEF ClaimPlaces, WillRelease, locks

\* warm_up's first look at the models; a failed warm-up ends a job's speech.
LEMMA LooksForModelsKeeps ==
    ASSUME IInv, NEW t \in Tasks, LooksForModels(t) PROVE IInv'
<1>1. /\ at[t] = "warm"
      /\ UNCHANGED <<claims, preparing, model, warmed, lanes, process, world,
                     answer>>
  BY DEF LooksForModels
<1>2. answer[t] = "none" /\ t \notin warmed
  BY <1>1 DEF IInv, CallsPlaced, CallPlaces, WarmedAreThrough
<1>3. PICK p \in {"preparing", "drop", "over"} :
        /\ at' = [at EXCEPT ![t] = p]
        /\ p = "over" => t \notin Jobs
        /\ p = "drop" => t \in Jobs
        /\ turn' \in {turn, NoOne} /\ failed' \in {failed, failed \cup ({t} \cap Jobs)}
  BY DEF LooksForModels, Goes, WarmUpFails, Gives
<1>4. TypeOK'
  BY <1>1, <1>3 DEF IInv, TypeOK, process, world, Places, Tasks
<1>5. Moves(t, p, "none") /\ p \in Places /\ "none" \in Answers
  BY <1>1, <1>2, <1>3 DEF IInv, TypeOK, Moves, world, Places, Answers
<1> QED BY <1>1, <1>2, <1>3, <1>4, <1>5, SpeechAssumption, PlainMoves
        DEF ClaimPlaces

\* The warm-ups' lock is taken; the recorder's beside the sidecar is over at
\* once.
LEMMA PreparesKeeps == ASSUME IInv, NEW t \in Tasks, Prepares(t) PROVE IInv'
<1>1. /\ at[t] = "preparing" /\ preparing = NoOne
      /\ UNCHANGED <<claims, turn, model, warmed, lanes, failed, process, world>>
  BY DEF Prepares
<1>2. answer[t] = "none" /\ holder # t /\ t \notin warmed /\ t # NoOne
  BY <1>1, SpeechAssumption
     DEF IInv, CallsPlaced, CallPlaces, WarmedAreThrough, Tasks
<1>3. CASE t \in WarmUps /\ ~InProcess
  <2>1. at' = [at EXCEPT ![t] = "over"] /\ preparing' = preparing /\ answer' = answer
    BY <1>3 DEF Prepares, Goes
  <2>2. TypeOK'
    BY <1>1, <2>1 DEF IInv, TypeOK, process, world, Places, Tasks
  <2>3. Moves(t, "over", "none") /\ "over" \in Places /\ "none" \in Answers
    BY <1>1, <1>2, <2>1 DEF IInv, TypeOK, Moves, world, Places, Answers
  <2> QED BY <1>1, <1>2, <1>3, <2>1, <2>2, <2>3, SpeechAssumption, PlainMoves
          DEF ClaimPlaces
<1>4. CASE ~(t \in WarmUps /\ ~InProcess)
  <2>1. PICK a \in {"queued", "check"} :
          /\ preparing' = t /\ at' = [at EXCEPT ![t] = "prepare"]
          /\ answer' = [answer EXCEPT ![t] = a]
    BY <1>4 DEF Prepares, Goes, Calls
  <2>2. TypeOK'
    BY <1>1, <2>1 DEF IInv, TypeOK, process, world, Places, Tasks
  <2>3. Moves(t, "prepare", a) /\ "prepare" \in Places /\ a \in Answers
    BY <1>1, <2>1 DEF Moves, world, Places, Answers
  <2>4. Counted'
    BY <1>1, <2>1, <2>3, SameClaims DEF ClaimPlaces
  <2>5. JobSide'
    <3>1. \A u \in Tasks \ {t} : preparing' = u <=> preparing = u
      BY <1>1, <2>1, SpeechAssumption DEF Tasks
    <3> QED BY <1>1, <1>2, <1>4, <2>1, <2>3, <2>4, <3>1, MovesKeepOwners DEF world
  <2>6. ChildSide'
    BY <1>2, <2>3, MovesKeepCalls DEF CallPlaces, ClaimPlaces
  <2> QED BY <2>2, <2>5, <2>6, Sides
<1> QED BY <1>3, <1>4

\* The warm-up is over, and the lock given back, loaded or not.
LEMMA PreparedKeeps == ASSUME IInv, NEW t \in Tasks, Prepared(t) PROVE IInv'
<1>1. /\ at[t] = "prepare" /\ answer[t] \in {"ok", "failed"} /\ preparing' = NoOne
      /\ answer' = [answer EXCEPT ![t] = "none"]
      /\ UNCHANGED <<claims, model, lanes, process, world>>
  BY DEF Prepared, Calls
<1>2. holder # t /\ preparing = t /\ t # NoOne /\ t \notin warmed
  BY <1>1, SpeechAssumption
     DEF IInv, CallsPlaced, PreparingHeld, WarmedAreThrough, Tasks
<1>3. PICK p \in {"decode", "drop", "over"} :
        /\ at' = [at EXCEPT ![t] = p]
        /\ p = "over" <=> t \notin Jobs
        /\ warmed' = warmed \/ (p = "decode" /\ warmed' = warmed \cup {t})
        /\ turn' \in {turn, NoOne}
        /\ failed' \in {failed, failed \cup ({t} \cap Jobs)}
  BY DEF Prepared, Goes, WarmUpFails, Gives
<1>4. TypeOK'
  BY <1>1, <1>3 DEF IInv, TypeOK, process, world, Places, Tasks
<1>5. Moves(t, p, "none") /\ p \in Places /\ "none" \in Answers
  BY <1>1, <1>3 DEF Moves, world, Places, Answers
<1>6. Counted'
  BY <1>1, <1>3, <1>5, SameClaims DEF ClaimPlaces
<1>7. JobSide'
  <2>1. \A u \in Tasks \ {t} : preparing' = u <=> preparing = u
    BY <1>1, <1>2, SpeechAssumption DEF Tasks
  <2> QED BY <1>1, <1>2, <1>3, <1>5, <1>6, <2>1, SpeechAssumption,
             MovesKeepOwners DEF world, ClaimPlaces, Tasks
<1>8. ChildSide'
  BY <1>2, <1>3, <1>5, MovesKeepCalls DEF ClaimPlaces
<1> QED BY <1>4, <1>7, <1>8, Sides

\* A call of the engine in this process, and a call that looks for its models.
LEMMA CallsHereKeep ==
    ASSUME IInv, NEW t \in Tasks,
           CallBegins(t) \/ CallEnds(t) \/ ChecksModels(t)
    PROVE  IInv'
<1>1. /\ UNCHANGED <<at, claims, preparing, warmed, lanes, failed, turn, process,
                     runtime, installed, live, quit>>
      /\ answer[t] \in {"queued", "runs", "check"}
      /\ answer[t] \in {"queued", "runs"} => RunsHere(t)
      /\ model' \in {model, t, NoOne} /\ faults' \in {faults, faults + 1}
  BY DEF CallBegins, CallEnds, ChecksModels, jobs, world, locks
<1>2. PICK a \in {"runs", "ok", "failed", "queued"} :
        /\ answer' = [answer EXCEPT ![t] = a]
        /\ a = "runs" => RunsHere(t)
  BY DEF CallBegins, CallEnds, ChecksModels, Calls
<1>3. TypeOK'
  BY <1>1, <1>2 DEF IInv, TypeOK, process, Tasks
<1>4. holder # t
  BY <1>1 DEF IInv, CallsPlaced
<1> QED BY <1>1, <1>2, <1>3, <1>4, CallMoves DEF RunsHere, Answers

\* A recording starts, and its warm-up; what the world does touches no owner.
LEMMA RecordingStartsKeeps ==
    ASSUME IInv, NEW w \in WarmUps, RecordingStarts(w) PROVE IInv'
<1>1. /\ at[w] = "idle" /\ live' = TRUE
      /\ UNCHANGED <<locks, warmed, lanes, failed, answer, process, runtime,
                     installed, quit, faults>>
  BY DEF RecordingStarts
<1>2. answer[w] = "none" /\ w \in Tasks /\ w \notin Jobs /\ w \notin warmed
  BY <1>1, SpeechAssumption DEF IInv, TypeOK, CallsPlaced, CallPlaces, Tasks
<1>3. PICK p \in {"over", "warm", "preparing"} : at' = [at EXCEPT ![w] = p]
  BY DEF RecordingStarts, Goes
<1>4. TypeOK'
  BY <1>1, <1>2, <1>3 DEF IInv, TypeOK, process, locks, Places
<1>5. Moves(w, p, "none") /\ p \in Places /\ "none" \in Answers
  BY <1>1, <1>2, <1>3 DEF IInv, TypeOK, Moves, Places, Answers
<1> QED BY <1>1, <1>2, <1>3, <1>4, <1>5, PlainMoves DEF locks, ClaimPlaces

\* Recordings that end, models that come and go and the quit take no lock.
LEMMA WorldKeeps ==
    ASSUME IInv, RecordingEnds \/ ModelsChange \/ Quits \/ UNCHANGED vars
    PROVE  IInv'
<1>a. /\ UNCHANGED <<locks, jobs, answer, process, runtime>>
      /\ installed' \in BOOLEAN /\ live' \in BOOLEAN /\ quit' \in BOOLEAN
      /\ faults' \in Nat
  <2>1. CASE RecordingEnds
    BY <2>1 DEF RecordingEnds, IInv, TypeOK
  <2>2. CASE ModelsChange
    BY <2>2 DEF ModelsChange, IInv, TypeOK
  <2>3. CASE Quits
    BY <2>3 DEF Quits, IInv, TypeOK
  <2>4. CASE UNCHANGED vars
    BY <2>4 DEF vars, world, IInv, TypeOK
  <2> QED BY <2>1, <2>2, <2>3, <2>4
<1>1. TypeOK' /\ UNCHANGED <<locks, jobs, answer, process, runtime>>
  BY <1>a DEF IInv, TypeOK, locks, jobs, process
<1>2. JobSide'
  BY <1>1 DEF JobSide, IInv, Counted, Claiming, PreparingHeld, WarmedAreThrough,
              WarmUpsPlaced, ReleaseSparesTheLanes, InProcess, locks, jobs
<1>3. CallsPlaced'
  BY <1>1 DEF IInv, CallsPlaced, RunsHere, InProcess, locks, jobs, process
<1>4. (/\ FreeChildOwesNothing /\ AskedOnce /\ SwitchedOffRunsOnCpu /\ OnCpu)'
  BY <1>1 DEF IInv, FreeChildOwesNothing, AskedOnce, Replied, AsksAt,
              SwitchedOffRunsOnCpu, OnCpu, process, jobs
<1>5. Kept'
  BY <1>1 DEF IInv, Kept, Diarizing, WillRelease, InProcess, process, jobs
<1> QED BY <1>1, <1>2, <1>3, <1>4, <1>5, Sides DEF ChildSide

---------------------------------------------------------------------------
(* The calls in the child. *)

\* A call in the child moves no task.
Calling(t, a) ==
    /\ answer' = [answer EXCEPT ![t] = a]
    /\ UNCHANGED <<locks, jobs, runtime>>

\* A child no call has: it waits for nothing, and runs on the CPU once DirectML
\* is off.
Free(c) ==
    c.runs => /\ c.owes = "none" /\ c.awaits = "none"
              /\ \A i \in DOMAIN c.queue : c.queue[i].is # "reply"

Cpu(c) ==
    c.runs => /\ c.provider # "directml"
              /\ c.awaits \in {"ready", "load"} => ~c.asked
              /\ \A i \in DOMAIN c.queue :
                    c.queue[i].is = "reply" => c.queue[i].provider # "directml"

\* A call returns with the child free, on the CPU if it must, and not left to
\* nobody.
LEMMA ReturnsKeeps ==
    ASSUME IInv, TypeOK', NEW t \in Tasks, NEW a \in {"ok", "failed"}, NEW c,
           Calling(t, a), child' = c, holder' = NoOne,
           holder \in {t, NoOne}, answer[t] # "none", ~RunsHere(t),
           Free(c), off' => Cpu(c),
           c.runs => /\ ~InProcess
                     /\ \E j \in Jobs : WillRelease(j)
                     /\ at[t] # "release"
    PROVE  IInv'
<1> USE DEF Calling
<1>1. JobSide'
  BY DEF JobSide, IInv, Counted, Claiming, PreparingHeld, WarmedAreThrough,
         WarmUpsPlaced, ReleaseSparesTheLanes, InProcess, locks, jobs
<1>2. \A u \in Tasks : u # NoOne
  BY SpeechAssumption DEF Tasks
<1>3. CallsPlaced'
  <2> SUFFICES ASSUME NEW u \in Tasks
               PROVE /\ answer'[u] # "none" => at'[u] \in CallPlaces
                     /\ holder' = u <=> answer'[u] = "runs" /\ ~RunsHere(u)'
    BY DEF CallsPlaced
  <2>1. at' = at /\ runtime' = runtime
    BY DEF jobs
  <2>2. CASE u = t
    BY <2>1, <2>2, <1>2 DEF IInv, TypeOK, CallsPlaced
  <2>3. CASE u # t
    BY <2>1, <2>3, <1>2 DEF IInv, TypeOK, CallsPlaced, RunsHere, InProcess
  <2> QED BY <2>2, <2>3
<1>4. FreeChildOwesNothing' /\ AskedOnce'
  BY DEF FreeChildOwesNothing, AskedOnce, Free
<1>5. SwitchedOffRunsOnCpu' /\ OnCpu'
  BY DEF SwitchedOffRunsOnCpu, OnCpu, Cpu
<1>6. Kept'
  <2> SUFFICES ASSUME c.runs PROVE Kept'
    BY DEF Kept
  <2>1. PICK j \in Jobs : WillRelease(j)
    OBVIOUS
  <2>2. WillRelease(j)'
    BY <2>1 DEF WillRelease, jobs, IInv, TypeOK, Tasks
  <2> QED BY <2>2 DEF Kept, InProcess
<1> QED BY <1>1, <1>3, <1>4, <1>5, <1>6, Sides DEF ChildSide

\* A call goes on waiting in the child, for one request of its own.
LEMMA WaitsKeeps ==
    ASSUME IInv, TypeOK', NEW t \in Tasks, NEW c,
           Calling(t, "runs"), child' = c, holder' = t,
           holder \in {t, NoOne}, answer[t] # "none", ~RunsHere(t),
           c.runs, c.awaits \in AsksAt(at[t]), c.owes \in {"none", c.awaits},
           \A i \in DOMAIN c.queue : c.queue[i].is # "reply",
           off' => Cpu(c),
           \/ at[t] = "speakers" /\ c.provider = "none"
           \/ ~InProcess /\ \E j \in Jobs : WillRelease(j)
    PROVE  IInv'
<1> USE DEF Calling
<1>1. JobSide'
  BY DEF JobSide, IInv, Counted, Claiming, PreparingHeld, WarmedAreThrough,
         WarmUpsPlaced, ReleaseSparesTheLanes, InProcess, locks, jobs
<1>2. /\ \A u \in Tasks : u # NoOne
      /\ at' = at /\ runtime' = runtime
  BY SpeechAssumption DEF Tasks, jobs
<1>3. CallsPlaced'
  <2> SUFFICES ASSUME NEW u \in Tasks
               PROVE /\ answer'[u] # "none" => at'[u] \in CallPlaces
                     /\ holder' = u <=> answer'[u] = "runs" /\ ~RunsHere(u)'
    BY DEF CallsPlaced
  <2>1. CASE u = t
    BY <2>1, <1>2 DEF IInv, TypeOK, CallsPlaced, RunsHere, InProcess
  <2>2. CASE u # t
    BY <2>2, <1>2 DEF IInv, TypeOK, CallsPlaced, RunsHere, InProcess
  <2> QED BY <2>1, <2>2
<1>4. FreeChildOwesNothing' /\ AskedOnce'
  BY <1>2 DEF FreeChildOwesNothing, AskedOnce, Replied, AsksAt
<1>5. SwitchedOffRunsOnCpu' /\ OnCpu'
  BY DEF SwitchedOffRunsOnCpu, OnCpu, Cpu
<1>6. Kept'
  <2>1. CASE at[t] = "speakers" /\ c.provider = "none"
    BY <2>1, <1>2 DEF Kept, Diarizing
  <2>2. CASE ~InProcess /\ \E j \in Jobs : WillRelease(j)
    <3>1. PICK j \in Jobs : WillRelease(j)
      BY <2>2
    <3>2. WillRelease(j)'
      BY <3>1, <1>2 DEF WillRelease, IInv, TypeOK, Tasks
    <3> QED BY <2>2, <3>2, <1>2 DEF Kept, InProcess
  <2> QED BY <2>1, <2>2
<1> QED BY <1>1, <1>3, <1>4, <1>5, <1>6, Sides DEF ChildSide

\* What a child spawned, asked and heard looks like.
LEMMA SpawnedChild ==
    ASSUME NEW d \in BOOLEAN
    PROVE  /\ Spawned(d) \in Children /\ Spawned(d).runs
           /\ Spawned(d).queue = <<>> /\ Spawned(d).provider = "none"
           /\ Spawned(d).awaits = "ready" /\ Spawned(d).owes = "ready"
           /\ Spawned(d).asked = d
BY DEF Spawned, Children, Requests, Providers

\* A request's reply is awaited from the child it was written to.
LEMMA AskedChild ==
    ASSUME NEW c \in Children, NEW r \in Requests
    PROVE  /\ Asked(c, r) \in Children /\ Asked(c, r).runs
           /\ Asked(c, r).queue = c.queue /\ Asked(c, r).provider = c.provider
           /\ Asked(c, r).awaits = r /\ Asked(c, r).owes \in {"none", r}
           /\ Asked(c, r).asked = c.asked
BY DEF Asked, Children

\* A child that runs is a record of one.
LEMMA ChildType ==
    ASSUME IInv, child.runs PROVE child \in Children
BY DEF IInv, TypeOK, NoChild

\* Once DirectML is off nothing of the child names it.
LEMMA ChildCpu == ASSUME IInv, off PROVE Cpu(child)
BY DEF IInv, Cpu, SwitchedOffRunsOnCpu, OnCpu

\* An idle child that did not fail has nothing queued.
LEMMA IdleChild ==
    ASSUME IInv, holder = NoOne, child.runs, ~FailedWhileIdle(child)
    PROVE  /\ child \in Children /\ child.queue = <<>> /\ child.alive
           /\ child.owes = "none" /\ child.awaits = "none"
BY ChildType DEF IInv, FreeChildOwesNothing, FailedWhileIdle, Children

\* Beside the sidecar a call of the engine is a job's, which claims or releases.
LEMMA SpeechIsAJobs ==
    ASSUME IInv, NEW t \in Tasks, ~RunsHere(t),
           at[t] \in {"prepare", "lane", "release"}
    PROVE  /\ ~InProcess /\ t \in Jobs
           /\ Speech(t) \/ answer[t] \in {"queued", "runs"} => WillRelease(t)
BY DEF IInv, TypeOK, WarmUpsPlaced, RunsHere, Tasks, WillRelease, ClaimPlaces, Speech

\* A call's step in the child changes what the call and the child are.
LEMMA CallType ==
    ASSUME IInv, NEW t \in Tasks,
           NEW a \in {"none", "check", "queued", "runs", "ok", "failed"},
           Calling(t, a), child' \in Children \cup {NoChild},
           holder' \in {t, NoOne}, off' \in BOOLEAN,
           UNCHANGED <<installed, live, quit>>, faults' \in Nat
    PROVE  TypeOK'
BY DEF IInv, TypeOK, Calling, locks, jobs, Tasks

\* ensure_loaded, and a lane's request.
LEMMA EntersForSpeechKeeps ==
    ASSUME IInv, NEW t \in Tasks, answer[t] = "queued", ~RunsHere(t),
           holder = NoOne, Speech(t), EntersForSpeech(t),
           UNCHANGED <<locks, jobs, world>>
    PROVE  IInv'
<1> DEFINE dropped == FailedWhileIdle(child)
           kept == IF dropped THEN NoChild ELSE child
           loaded == kept.runs /\ kept.provider # "none"
           d == WantsDirectMl(off')
<1>1. /\ off' = (off \/ (dropped /\ OverrunCounts(child)))
      /\ \/ /\ loaded
            /\ IF at[t] = "prepare"
                 THEN Returns(t, "ok", kept)
                 ELSE Waits(t, Asked(kept, "transcribe"))
         \/ ~loaded /\ ~installed /\ Returns(t, "failed", kept)
         \/ ~loaded /\ installed /\ Waits(t, Load(kept, d))
  BY Zenon DEF EntersForSpeech
<1>2. off' \in BOOLEAN /\ faults' \in Nat /\ runtime' = runtime
      /\ UNCHANGED <<installed, live, quit>>
  <2>1. off \in BOOLEAN
    BY DEF IInv, TypeOK
  <2>2. off' \in BOOLEAN
    BY <1>1, <2>1
  <2> QED BY <2>2 DEF IInv, TypeOK, world
<1>3. /\ ~InProcess /\ t \in Jobs /\ WillRelease(t) /\ at[t] \in {"prepare", "lane"}
      /\ answer[t] # "none"
  BY SpeechIsAJobs DEF Speech
<1>4. /\ kept \in Children \cup {NoChild}
      /\ kept.runs => /\ kept \in Children /\ kept.queue = <<>>
                      /\ kept.owes = "none" /\ kept.awaits = "none"
      /\ off' => Cpu(kept)
  <2>1. CASE dropped
    BY <2>1 DEF NoChild, Cpu
  <2>2. CASE ~dropped
    <3>1. kept = child /\ (off' => off)
      BY <1>1, <2>2
    <3> QED BY <3>1, <2>2, IdleChild, ChildCpu DEF IInv, TypeOK
  <2> QED BY <2>1, <2>2
<1>5. Free(kept)
  BY <1>4 DEF Free
<1>6. ASSUME NEW a \in {"ok", "failed"}, Returns(t, a, kept) PROVE IInv'
  <2>1. Calling(t, a) /\ child' = kept /\ holder' = NoOne
    BY <1>2, <1>6 DEF Returns, Calls, Calling
  <2>2. TypeOK'
    BY <1>2, <1>4, <2>1, CallType
  <2> QED BY <1>3, <1>4, <1>5, <2>1, <2>2, ReturnsKeeps
<1>7. ASSUME NEW c \in Children, Waits(t, c), c.runs, c.queue = <<>>,
             c.awaits \in AsksAt(at[t]), c.owes \in {"none", c.awaits}, off' => Cpu(c)
      PROVE  IInv'
  <2>1. Calling(t, "runs") /\ child' = c /\ holder' = t
    BY <1>2, <1>7 DEF Waits, Calls, Calling
  <2>2. TypeOK'
    BY <1>2, <1>7, <2>1, CallType
  <2> QED BY <1>3, <1>7, <2>1, <2>2, WaitsKeeps
<1>8. CASE loaded
  <2>1. CASE at[t] = "prepare"
    BY <1>1, <1>6, <1>8, <2>1
  <2>2. CASE at[t] = "lane"
    <3> DEFINE c == Asked(kept, "transcribe")
    <3>1. Waits(t, c)
      BY <1>1, <1>8, <2>2
    <3>2. /\ c \in Children /\ c.runs /\ c.queue = <<>> /\ c.awaits = "transcribe"
          /\ c.owes \in {"none", c.awaits} /\ c.provider = kept.provider
      BY <1>4, <1>8, AskedChild DEF Requests
    <3>3. off' => Cpu(c)
      BY <1>4, <1>8, <3>2 DEF Cpu
    <3> QED BY <1>7, <2>2, <3>1, <3>2, <3>3 DEF AsksAt
  <2> QED BY <1>3, <2>1, <2>2
<1>9. CASE ~loaded /\ ~installed
  BY <1>1, <1>6, <1>9
<1>10. CASE ~loaded /\ installed
  <2> DEFINE c == Load(kept, d)
  <2>1. Waits(t, c)
    BY <1>1, <1>10
  <2>2. d \in BOOLEAN /\ (off' => ~d)
    BY <1>2, SpeechAssumption DEF WantsDirectMl
  <2>3. CASE kept = NoChild
    <3>1. c = Spawned(d)
      BY <2>3 DEF Load
    <3>2. /\ c \in Children /\ c.runs /\ c.queue = <<>> /\ c.awaits = "ready"
          /\ c.owes = "ready" /\ c.provider = "none" /\ c.asked = d
      BY <2>2, <3>1, SpawnedChild
    <3> HIDE DEF c, d
    <3>3. off' => Cpu(c)
      BY <2>2, <3>2 DEF Cpu
    <3> QED BY <1>3, <1>7, <2>1, <3>2, <3>3 DEF AsksAt
  <2>4. CASE kept # NoChild
    <3> DEFINE k == [kept EXCEPT !.asked = d]
    <3>1. /\ kept \in Children /\ kept.runs
      BY <1>4, <2>4 DEF Children
    <3>2. /\ k \in Children /\ k.runs /\ k.queue = <<>> /\ k.asked = d
          /\ k.provider = kept.provider
      BY <1>4, <2>2, <3>1 DEF Children
    <3>3. c = Asked(k, "load")
      BY <2>4 DEF Load
    <3> HIDE DEF c, k
    <3>4. /\ c \in Children /\ c.runs /\ c.queue = <<>> /\ c.awaits = "load"
          /\ c.owes \in {"none", c.awaits} /\ c.provider = kept.provider
          /\ c.asked = d
      BY <3>2, <3>3, AskedChild DEF Requests
    <3>5. off' => Cpu(c)
      BY <1>4, <2>2, <3>1, <3>4 DEF Cpu
    <3> QED BY <1>3, <1>7, <2>1, <3>4, <3>5 DEF AsksAt
  <2> QED BY <2>3, <2>4
<1> QED BY <1>8, <1>9, <1>10

\* SidecarSpeechEngine::diarize takes the child there is, or one of its own.
LEMMA EntersForSpeakersKeeps ==
    ASSUME IInv, NEW t \in Tasks, answer[t] = "queued", ~RunsHere(t),
           holder = NoOne, at[t] = "speakers", EntersForSpeakers(t),
           UNCHANGED <<locks, jobs, world>>
    PROVE  IInv'
<1> DEFINE kept == IF FailedWhileIdle(child) THEN NoChild ELSE child
           r == IF kept.diarizer THEN "diarize" ELSE "load_diarizer"
           c == IF kept = NoChild THEN Spawned(FALSE) ELSE Asked(kept, r)
<1>1. Waits(t, c) /\ off' = off
  BY Zenon DEF EntersForSpeakers
<1>2. /\ c \in Children /\ c.runs /\ c.queue = <<>>
      /\ c.awaits \in {"ready", "load_diarizer", "diarize"}
      /\ c.owes \in {"none", c.awaits}
      /\ off => Cpu(c)
      /\ kept = NoChild => c.provider = "none"
      /\ kept # NoChild => kept = child /\ child.runs /\ c.provider = child.provider
  <2>1. CASE kept = NoChild
    <3>1. c = Spawned(FALSE)
      BY <2>1
    <3> HIDE DEF c, kept
    <3>2. /\ c \in Children /\ c.runs /\ c.queue = <<>> /\ c.awaits = "ready"
          /\ c.owes = "ready" /\ c.provider = "none" /\ c.asked = FALSE
      BY <3>1, SpawnedChild
    <3> QED BY <2>1, <3>2 DEF Cpu
  <2>2. CASE kept # NoChild
    <3>1. kept = child /\ ~FailedWhileIdle(child) /\ child.runs
      BY <2>2 DEF IInv, TypeOK, Children
    <3>2. kept \in Children /\ kept.queue = <<>> /\ (off => Cpu(kept))
      BY <3>1, IdleChild, ChildCpu
    <3>3. c = Asked(kept, r) /\ r \in {"diarize", "load_diarizer"}
      BY <2>2
    <3> HIDE DEF c, r, kept
    <3>4. /\ c \in Children /\ c.runs /\ c.queue = <<>> /\ c.awaits = r
          /\ c.owes \in {"none", r} /\ c.provider = kept.provider
      BY <3>2, <3>3, AskedChild DEF Requests
    <3>5. off => Cpu(c)
      BY <3>1, <3>2, <3>3, <3>4 DEF Cpu
    <3> QED BY <2>2, <3>1, <3>3, <3>4, <3>5
  <2> QED BY <2>1, <2>2
<1> HIDE DEF c, r, kept
<1>3. Calling(t, "runs") /\ child' = c /\ holder' = t
  BY <1>1 DEF Waits, Calls, Calling, world
<1>4. TypeOK'
  BY <1>1, <1>2, <1>3, CallType DEF IInv, TypeOK, world
<1>5. c.provider = "none" \/ (~InProcess /\ \E j \in Jobs : WillRelease(j))
  BY <1>2 DEF IInv, Kept, Diarizing
<1> QED BY <1>1, <1>2, <1>3, <1>4, <1>5, WaitsKeeps DEF AsksAt

\* The release asks whatever child there is to exit.
LEMMA EntersForReleaseKeeps ==
    ASSUME IInv, NEW t \in Tasks, answer[t] = "queued", ~RunsHere(t),
           holder = NoOne, at[t] = "release", EntersForRelease(t),
           UNCHANGED <<locks, jobs, world>>
    PROVE  IInv'
<1>1. ~InProcess /\ t \in Jobs /\ WillRelease(t) /\ off' = off
  BY SpeechIsAJobs DEF EntersForRelease
<1>2. CASE child = NoChild
  <2>1. Calling(t, "ok") /\ child' = NoChild /\ holder' = NoOne
    BY <1>2 DEF EntersForRelease, Returns, Calls, Calling, world
  <2>2. TypeOK'
    BY <1>1, <2>1, CallType DEF IInv, TypeOK, world
  <2> QED BY <2>1, <2>2, ReturnsKeeps DEF NoChild, Free, Cpu
<1>3. CASE child # NoChild
  <2> DEFINE c == Asked(child, "bye")
  <2>1. Calling(t, "runs") /\ child' = c /\ holder' = t
    BY <1>3 DEF EntersForRelease, Waits, Calls, Calling, world
  <2>2. child \in Children /\ child.runs
    BY <1>3 DEF IInv, TypeOK, Children
  <2>3. /\ c \in Children /\ c.runs /\ c.queue = child.queue /\ c.awaits = "bye"
        /\ c.owes \in {"none", "bye"} /\ c.provider = child.provider
    BY <2>2, AskedChild DEF Requests
  <2> HIDE DEF c
  <2>4. TypeOK'
    BY <1>1, <2>1, <2>3, CallType DEF IInv, TypeOK, world
  <2>5. off => Cpu(c)
    BY <2>2, <2>3, ChildCpu DEF Cpu
  <2>6. \A i \in DOMAIN c.queue : c.queue[i].is # "reply"
    BY <2>2, <2>3 DEF IInv, FreeChildOwesNothing
  <2> QED BY <1>1, <2>1, <2>3, <2>4, <2>5, <2>6, WaitsKeeps DEF AsksAt
<1> QED BY <1>2, <1>3

\* A call that takes the child's lock (Shared.process).
LEMMA EntersKeeps == ASSUME IInv, NEW t \in Tasks, Enters(t) PROVE IInv'
BY EntersForSpeechKeeps, EntersForSpeakersKeeps, EntersForReleaseKeeps
   DEF Enters, NeedsChild

\* The call under way in the child: whose it is and what it waits for.
LEMMA CallUnderWay ==
    ASSUME IInv, NEW t \in Tasks, holder = t
    PROVE  /\ answer[t] = "runs" /\ ~RunsHere(t) /\ at[t] \in CallPlaces
           /\ child \in Children /\ child.runs
           /\ child.awaits \in AsksAt(at[t])
           /\ at[t] # "speakers" => ~InProcess /\ \E j \in Jobs : WillRelease(j)
<1>1. answer[t] = "runs" /\ ~RunsHere(t) /\ at[t] \in CallPlaces
  BY DEF IInv, CallsPlaced
<1>2. t # NoOne
  BY SpeechAssumption DEF Tasks
<1>3. child.runs /\ child.awaits \in AsksAt(at[t])
  BY <1>2 DEF IInv, AskedOnce
<1>4. child \in Children
  BY <1>3, ChildType
<1>5. at[t] # "speakers" => ~InProcess /\ t \in Jobs /\ WillRelease(t)
  BY <1>1, SpeechIsAJobs DEF CallPlaces
<1> QED BY <1>1, <1>3, <1>4, <1>5

\* A call under way ends with a child that is free, or with none.
LEMMA CallReturns ==
    ASSUME IInv, NEW t \in Tasks, holder = t, NEW a \in {"ok", "failed"},
           NEW c \in Children \cup {NoChild}, Returns(t, a, c),
           UNCHANGED <<locks, jobs, runtime, installed, live, quit>>,
           faults' \in Nat, off' \in BOOLEAN,
           Free(c), off' => Cpu(c),
           c.runs => /\ at[t] # "release"
                     /\ ~InProcess /\ \E j \in Jobs : WillRelease(j)
    PROVE  IInv'
<1>1. Calling(t, a) /\ child' = c /\ holder' = NoOne
  BY DEF Returns, Calls, Calling
<1>2. TypeOK'
  BY <1>1, CallType
<1> QED BY <1>1, <1>2, CallUnderWay, ReturnsKeeps

\* A call under way goes on with another request.
LEMMA CallWaits ==
    ASSUME IInv, NEW t \in Tasks, holder = t, NEW c \in Children, Waits(t, c),
           UNCHANGED <<locks, jobs, world>>, off' \in BOOLEAN,
           c.runs, c.awaits \in AsksAt(at[t]), c.owes \in {"none", c.awaits},
           \A i \in DOMAIN c.queue : c.queue[i].is # "reply",
           off' => Cpu(c),
           \/ at[t] = "speakers" /\ c.provider = "none"
           \/ ~InProcess /\ \E j \in Jobs : WillRelease(j)
    PROVE  IInv'
<1>1. Calling(t, "runs") /\ child' = c /\ holder' = t
  BY DEF Waits, Calls, Calling, world
<1>2. TypeOK'
  BY <1>1, CallType DEF IInv, TypeOK, world
<1> QED BY <1>1, <1>2, CallUnderWay, WaitsKeeps

\* The reply taken was the only one; the child owes nothing then.
LEMMA HeardChild ==
    ASSUME IInv, NEW t \in Tasks, holder = t, child.queue # <<>>,
           Head(child.queue).is = "reply"
    PROVE  /\ Heard(child) \in Children /\ Heard(child).runs
           /\ Heard(child).owes = "none" /\ Heard(child).awaits = "none"
           /\ Heard(child).provider = child.provider
           /\ Heard(child).asked = child.asked
           /\ \A i \in DOMAIN Heard(child).queue :
                 Heard(child).queue[i].is # "reply"
           /\ Head(child.queue).provider \in Providers
           /\ off => Cpu(Heard(child)) /\ Head(child.queue).provider # "directml"
<1>1. child \in Children /\ child.runs /\ holder # NoOne
  BY CallUnderWay, SpeechAssumption DEF Tasks
<1>2. /\ child.queue \in Seq(Events) /\ Len(child.queue) \in Nat
      /\ Len(child.queue) > 0
      /\ DOMAIN child.queue = 1 .. Len(child.queue)
      /\ Head(child.queue) = child.queue[1] /\ child.queue[1] \in Events
  BY <1>1 DEF Children
<1>3. Replied(child)
  BY <1>1 DEF IInv, AskedOnce
<1>4. child.owes = "none"
  BY <1>2, <1>3 DEF Replied
<1> DEFINE q == Tail(child.queue)
<1>5. /\ q \in Seq(Events) /\ DOMAIN q = 1 .. Len(child.queue) - 1
      /\ \A i \in DOMAIN q : /\ q[i] = child.queue[i + 1]
                             /\ i + 1 \in DOMAIN child.queue
                             /\ i + 1 # 1
  BY <1>2
<1>6. \A i \in DOMAIN q : q[i].is # "reply"
  BY <1>2, <1>3, <1>5 DEF Replied
<1>7. /\ Heard(child) \in Children /\ Heard(child).runs
      /\ Heard(child).owes = "none" /\ Heard(child).awaits = "none"
      /\ Heard(child).provider = child.provider
      /\ Heard(child).asked = child.asked /\ Heard(child).queue = q
  BY <1>1, <1>4, <1>5 DEF Heard, Children
<1> HIDE DEF q
<1>8. Head(child.queue).provider \in Providers
  BY <1>2 DEF Events, Replies, Faults
<1>9. off => Cpu(Heard(child)) /\ Head(child.queue).provider # "directml"
  <2>1. off => Cpu(child)
    BY ChildCpu
  <2> QED BY <2>1, <1>1, <1>2, <1>6, <1>7 DEF Cpu
<1> QED BY <1>6, <1>7, <1>8, <1>9

\* The end of a diarization keeps a child with speech's models, stops another.
LEMMA SpeakersDoneLeaves ==
    ASSUME IInv, NEW t \in Tasks, holder = t, at[t] = "speakers",
           NEW c \in Children, SpeakersDone(t, c), Free(c), c.runs,
           c.provider = child.provider, off => Cpu(c),
           UNCHANGED <<locks, jobs, world, off>>
    PROVE  IInv'
<1>0. off' \in BOOLEAN /\ faults' \in Nat
  BY DEF IInv, TypeOK, world
<1>1. CASE c.provider = "none"
  <2> DEFINE d == Asked(c, "bye")
  <2>1. /\ d \in Children /\ d.runs /\ d.queue = c.queue /\ d.provider = "none"
        /\ d.awaits = "bye" /\ d.owes \in {"none", "bye"}
    BY <1>1, AskedChild DEF Requests
  <2>2. Waits(t, d)
    BY <1>1 DEF SpeakersDone
  <2> HIDE DEF d
  <2>3. off' => Cpu(d)
    BY <2>1 DEF Cpu
  <2>4. \A i \in DOMAIN d.queue : d.queue[i].is # "reply"
    BY <2>1 DEF Free
  <2> QED BY <1>0, <2>1, <2>2, <2>3, <2>4, CallWaits DEF AsksAt
<1>2. CASE c.provider # "none"
  <2>1. Returns(t, "ok", c)
    BY <1>2 DEF SpeakersDone
  <2>2. ~InProcess /\ \E j \in Jobs : WillRelease(j)
    BY <1>2, CallUnderWay DEF IInv, Kept, Diarizing
  <2> QED BY <1>0, <2>1, <2>2, CallReturns DEF world
<1> QED BY <1>1, <1>2

\* The reply asked for: the call's next request, or its end.
LEMMA AnsweredKeeps ==
    ASSUME IInv, NEW t \in Tasks, holder = t, child.queue # <<>>,
           Head(child.queue).is = "reply", Answered(t),
           UNCHANGED <<locks, jobs, world>>
    PROVE  IInv'
<1> DEFINE e == Head(child.queue)
           c == Heard(child)
<1>1. /\ c \in Children /\ c.runs /\ c.owes = "none" /\ c.awaits = "none"
      /\ c.provider = child.provider /\ c.asked = child.asked
      /\ \A i \in DOMAIN c.queue : c.queue[i].is # "reply"
      /\ e.provider \in Providers
      /\ off => Cpu(c) /\ e.provider # "directml"
  BY HeardChild
<1>2. off' = off /\ off' \in BOOLEAN /\ faults' \in Nat
  BY DEF Answered, IInv, TypeOK, world
<1>3. /\ at[t] \in CallPlaces /\ child.awaits \in AsksAt(at[t])
      /\ at[t] # "speakers" => ~InProcess /\ \E j \in Jobs : WillRelease(j)
  BY CallUnderWay
<1>4. /\ child.awaits = "ready" =>
           Waits(t, Asked(c, IF Speech(t) THEN "load" ELSE "load_diarizer"))
      /\ child.awaits = "load" =>
           IF at[t] = "prepare"
             THEN Returns(t, "ok", [c EXCEPT !.provider = e.provider])
             ELSE Waits(t, Asked([c EXCEPT !.provider = e.provider], "transcribe"))
      /\ child.awaits = "transcribe" =>
           Returns(t, "ok", [c EXCEPT !.provider = e.provider])
      /\ child.awaits = "load_diarizer" =>
           Waits(t, Asked([c EXCEPT !.diarizer = TRUE], "diarize"))
      /\ child.awaits = "diarize" => SpeakersDone(t, c)
      /\ child.awaits = "bye" => Returns(t, "ok", NoChild)
  BY DEF Answered
<1>5. Kept
  BY DEF IInv
<1>6. (at[t] = "speakers" /\ child.awaits = "ready") \/ child.awaits = "load_diarizer" =>
        c.provider = "none" \/ (~InProcess /\ \E j \in Jobs : WillRelease(j))
  BY <1>1, <1>5, CallUnderWay DEF Kept, Diarizing
<1> HIDE DEF c, e
\* A request of the child as it is, but for what the reply said of it.
<1>7. ASSUME NEW k \in Children, NEW r \in Requests \ {"ready", "load"},
             k.runs, k.queue = c.queue, Waits(t, Asked(k, r)), r \in AsksAt(at[t]),
             off => k.provider # "directml",
             \/ at[t] = "speakers" /\ k.provider = "none"
             \/ ~InProcess /\ \E j \in Jobs : WillRelease(j)
      PROVE  IInv'
  <2> DEFINE d == Asked(k, r)
  <2>1. /\ d \in Children /\ d.runs /\ d.queue = k.queue /\ d.awaits = r
        /\ d.provider = k.provider /\ d.owes \in {"none", r}
    BY AskedChild
  <2>2. Waits(t, d)
    BY <1>7
  <2> HIDE DEF d
  <2>3. off' => Cpu(d)
    BY <1>1, <1>2, <1>7, <2>1 DEF Cpu
  <2>4. \A i \in DOMAIN d.queue : d.queue[i].is # "reply"
    BY <1>1, <1>7, <2>1
  <2> QED BY <1>2, <1>7, <2>1, <2>2, <2>3, <2>4, CallWaits
\* A lane's or a warm-up's end.
<1>8. ASSUME Returns(t, "ok", [c EXCEPT !.provider = e.provider]),
             at[t] \in {"prepare", "lane"}
      PROVE  IInv'
  <2> DEFINE d == [c EXCEPT !.provider = e.provider]
  <2>1. /\ d \in Children /\ d.runs /\ d.queue = c.queue /\ d.awaits = "none"
        /\ d.owes = "none" /\ d.provider = e.provider
    BY <1>1 DEF Children
  <2>2. Returns(t, "ok", d)
    BY <1>8
  <2> HIDE DEF d
  <2>3. Free(d) /\ (off' => Cpu(d))
    BY <1>1, <1>2, <2>1 DEF Free, Cpu
  <2> QED BY <1>2, <1>3, <1>8, <2>1, <2>2, <2>3, CallReturns DEF world
<1>9. CASE child.awaits = "ready"
  <2>1. CASE Speech(t)
    <3> DEFINE d == Asked(c, "load")
    <3>1. /\ d \in Children /\ d.runs /\ d.queue = c.queue /\ d.awaits = "load"
          /\ d.provider = c.provider /\ d.owes \in {"none", "load"}
          /\ d.asked = c.asked
      BY <1>1, AskedChild DEF Requests
    <3>2. Waits(t, d)
      BY <1>4, <1>9, <2>1
    <3> HIDE DEF d
    <3>3. off => ~child.asked
      BY <1>9, CallUnderWay DEF IInv, SwitchedOffRunsOnCpu
    <3>4. off' => Cpu(d)
      BY <1>1, <1>2, <3>1, <3>3 DEF Cpu
    <3>5. \A i \in DOMAIN d.queue : d.queue[i].is # "reply"
      BY <1>1, <3>1
    <3> QED BY <1>2, <1>3, <2>1, <3>1, <3>2, <3>4, <3>5, CallWaits
            DEF AsksAt, Speech
  <2>2. CASE ~Speech(t)
    <3>1. at[t] = "speakers"
      BY <1>3, <1>9, <2>2 DEF CallPlaces, Speech, AsksAt
    <3>2. Waits(t, Asked(c, "load_diarizer"))
      BY <1>4, <1>9, <2>2
    <3>3. off => c.provider # "directml"
      BY <1>1 DEF Cpu
    <3> QED BY <1>1, <1>6, <1>7, <1>9, <3>1, <3>2, <3>3 DEF Requests, AsksAt
  <2> QED BY <2>1, <2>2
<1>10. CASE child.awaits = "load"
  <2>1. at[t] \in {"prepare", "lane"}
    BY <1>3, <1>10 DEF AsksAt, CallPlaces
  <2>2. CASE at[t] = "prepare"
    BY <1>4, <1>8, <1>10, <2>2
  <2>3. CASE at[t] = "lane"
    <3> DEFINE k == [c EXCEPT !.provider = e.provider]
    <3>1. k \in Children /\ k.runs /\ k.queue = c.queue /\ k.provider = e.provider
      BY <1>1 DEF Children
    <3>2. Waits(t, Asked(k, "transcribe"))
      BY <1>4, <1>10, <2>3
    <3> HIDE DEF k
    <3> QED BY <1>1, <1>3, <1>7, <2>3, <3>1, <3>2 DEF Requests, AsksAt
  <2> QED BY <2>1, <2>2, <2>3
<1>11. CASE child.awaits = "transcribe"
  BY <1>3, <1>4, <1>8, <1>11 DEF AsksAt, CallPlaces
<1>12. CASE child.awaits = "load_diarizer"
  <2> DEFINE k == [c EXCEPT !.diarizer = TRUE]
  <2>1. k \in Children /\ k.runs /\ k.queue = c.queue /\ k.provider = c.provider
    BY <1>1 DEF Children
  <2>2. Waits(t, Asked(k, "diarize")) /\ at[t] = "speakers"
    BY <1>3, <1>4, <1>12 DEF AsksAt, CallPlaces
  <2>3. off => c.provider # "directml"
    BY <1>1 DEF Cpu
  <2> HIDE DEF k
  <2> QED BY <1>6, <1>7, <1>12, <2>1, <2>2, <2>3 DEF Requests, AsksAt
<1>13. CASE child.awaits = "diarize"
  <2>1. at[t] = "speakers" /\ SpeakersDone(t, c)
    BY <1>3, <1>4, <1>13 DEF AsksAt, CallPlaces
  <2> QED BY <1>1, <1>2, <2>1, SpeakersDoneLeaves DEF Free
<1>14. CASE child.awaits = "bye"
  <2>1. Returns(t, "ok", NoChild)
    BY <1>4, <1>14
  <2> QED BY <1>2, <2>1, CallReturns DEF NoChild, Free, Cpu, world
<1>15. child.awaits \in Requests
  BY <1>3 DEF AsksAt, CallPlaces, Requests
<1> QED BY <1>9, <1>10, <1>11, <1>12, <1>13, <1>14, <1>15 DEF Requests

\* An error the child reports fails the call and keeps the child; a failed
\* load has nothing asked for any more.
LEMMA ReportedKeeps ==
    ASSUME IInv, NEW t \in Tasks, holder = t, child.queue # <<>>,
           Head(child.queue).is = "reply", child.awaits \notin {"ready", "bye"},
           Reported(t), UNCHANGED <<locks, jobs, world>>
    PROVE  IInv'
<1> DEFINE c == Heard(child)
           k == [c EXCEPT !.asked = FALSE]
<1>1. /\ c \in Children /\ c.runs /\ c.owes = "none" /\ c.awaits = "none"
      /\ c.provider = child.provider
      /\ \A i \in DOMAIN c.queue : c.queue[i].is # "reply"
      /\ off => Cpu(c)
  BY HeardChild
<1>2. off' = off /\ off' \in BOOLEAN /\ faults' \in Nat
  BY DEF Reported, IInv, TypeOK, world
<1>3. /\ at[t] \in CallPlaces /\ child.awaits \in AsksAt(at[t])
      /\ at[t] # "speakers" => ~InProcess /\ \E j \in Jobs : WillRelease(j)
  BY CallUnderWay
<1>4. /\ Speech(t) => Returns(t, "failed", IF child.awaits = "load" THEN k ELSE c)
      /\ ~Speech(t) => SpeakersDone(t, c)
  BY DEF Reported
<1>5. /\ k \in Children /\ k.runs /\ k.owes = "none" /\ k.awaits = "none"
      /\ k.provider = c.provider /\ k.queue = c.queue /\ k.asked = FALSE
  BY <1>1 DEF Children
<1> HIDE DEF c, k
<1>6. Free(c) /\ Free(k) /\ (off => Cpu(k))
  BY <1>1, <1>5 DEF Free, Cpu
<1>7. CASE Speech(t)
  <2>1. PICK d \in {c, k} : Returns(t, "failed", d)
    BY <1>4, <1>7
  <2>2. at[t] \in {"prepare", "lane"}
    BY <1>7 DEF Speech
  <2> QED BY <1>1, <1>2, <1>3, <1>5, <1>6, <2>1, <2>2, CallReturns DEF world
<1>8. CASE ~Speech(t)
  <2>1. at[t] = "speakers"
    BY <1>3, <1>8 DEF CallPlaces, Speech, AsksAt
  <2> QED BY <1>1, <1>2, <1>4, <1>6, <1>8, <2>1, SpeakersDoneLeaves
<1> QED BY <1>7, <1>8

\* The child's end leaves none behind, or one spawned without DirectML for the
\* load its probe ended.
LEMMA EndsKeeps ==
    ASSUME IInv, NEW t \in Tasks, holder = t, NEW counts \in BOOLEAN,
           Ends(t, counts), UNCHANGED <<locks, jobs, world>>
    PROVE  IInv'
<1> DEFINE blamed == counts /\ Speech(t) /\ child.awaits # "ready"
                            /\ EndedOnDirectMl(child)
<1>1. /\ off' = (off \/ blamed)
      /\ blamed /\ child.awaits = "load" => Waits(t, Spawned(FALSE))
      /\ ~(blamed /\ child.awaits = "load") =>
           Returns(t, IF Speech(t) THEN "failed" ELSE "ok", NoChild)
  BY DEF Ends
<1>2. off' \in BOOLEAN /\ faults' \in Nat
  BY <1>1 DEF IInv, TypeOK, world
<1>3. CASE blamed /\ child.awaits = "load"
  <2> DEFINE c == Spawned(FALSE)
  <2>1. /\ c \in Children /\ c.runs /\ c.queue = <<>> /\ c.awaits = "ready"
        /\ c.owes = "ready" /\ c.provider = "none" /\ c.asked = FALSE
    BY SpawnedChild
  <2>2. Waits(t, c)
    BY <1>1, <1>3
  <2> HIDE DEF c
  <2>3. at[t] \in {"prepare", "lane"}
    BY <1>3 DEF Speech
  <2>4. off' => Cpu(c)
    BY <2>1 DEF Cpu
  <2> QED BY <1>2, <2>1, <2>2, <2>3, <2>4, CallUnderWay, CallWaits DEF AsksAt
<1>4. CASE ~(blamed /\ child.awaits = "load")
  <2>1. PICK a \in {"ok", "failed"} : Returns(t, a, NoChild)
    BY <1>1, <1>4
  <2> QED BY <1>2, <2>1, CallReturns DEF NoChild, Free, Cpu, world
<1> QED BY <1>3, <1>4

\* Whatever the parent takes from the queue (SidecarProcess::wait_for).
LEMMA HearsKeeps == ASSUME IInv, NEW t \in Tasks, Hears(t) PROVE IInv'
<1> DEFINE e == Head(child.queue)
<1>1. holder = t /\ child.queue # <<>> /\ UNCHANGED <<locks, jobs, world>>
  BY Zenon DEF Hears
<1>2. CASE e.is = "reply" /\ e.to = child.awaits /\ e.ok
  <2>1. Answered(t)
    BY <1>2, Zenon DEF Hears
  <2> QED BY <1>1, <1>2, <2>1, AnsweredKeeps
<1>3. CASE /\ e.is = "reply" /\ e.to = child.awaits /\ ~e.ok
           /\ child.awaits \notin {"ready", "bye"}
  <2>1. Reported(t)
    BY <1>3 DEF Hears
  <2> QED BY <1>1, <1>3, <2>1, ReportedKeeps
<1>4. CASE /\ ~(e.is = "reply" /\ e.to = child.awaits /\ e.ok)
           /\ ~(/\ e.is = "reply" /\ e.to = child.awaits /\ ~e.ok
                /\ child.awaits \notin {"ready", "bye"})
  <2>1. PICK counts \in BOOLEAN : Ends(t, counts)
    <3>1. Ends(t, e.is \in {"closed", "over"})
      BY <1>4 DEF Hears
    <3>2. (e.is \in {"closed", "over"}) \in BOOLEAN
      OBVIOUS
    <3> QED BY <3>1, <3>2, Zenon
  <2> QED BY <1>1, <2>1, EndsKeeps
<1> QED BY <1>2, <1>3, <1>4

\* A deadline that passes (wait_for's recv_timeout).
LEMMA DeadlineKeeps == ASSUME IInv, NEW t \in Tasks, TimesOut(t) PROVE IInv'
BY EndsKeeps DEF TimesOut

\* A child that does not start leaves none (spawn_with_runner).
LEMMA SpawnFailsKeeps == ASSUME IInv, NEW t \in Tasks, SpawnFails(t) PROVE IInv'
<1>1. PICK a \in {"ok", "failed"} : Returns(t, a, NoChild)
  BY DEF SpawnFails
<1>2. /\ holder = t /\ off' \in BOOLEAN /\ faults' \in Nat
      /\ UNCHANGED <<locks, jobs, runtime, installed, live, quit>>
  BY DEF SpawnFails, IInv, TypeOK
<1> QED BY <1>1, <1>2, CallReturns DEF NoChild, Free, Cpu

---------------------------------------------------------------------------
(* The process. *)

\* What the process does by itself: it answers what it owes, or it says and
\* owes less.
LEMMA ProcessKeeps ==
    ASSUME IInv, NEW c \in Children, child.runs, child' = c,
           UNCHANGED <<locks, jobs, answer, holder, off, runtime, installed,
                       live, quit>>,
           faults' \in Nat, c.runs,
           c.awaits = child.awaits, c.provider = child.provider,
           c.asked = child.asked, c.owes \in {"none", child.owes},
           \A i \in DOMAIN c.queue : c.queue[i].is = "reply" =>
               \/ /\ i \in DOMAIN child.queue /\ c.queue[i] = child.queue[i]
                  /\ \A k \in DOMAIN c.queue : c.queue[k].is = "reply" =>
                       k \in DOMAIN child.queue /\ c.queue[k] = child.queue[k]
               \/ /\ child.owes # "none" /\ c.owes = "none"
                  /\ \A k \in DOMAIN c.queue : c.queue[k].is = "reply" => k = i
                  /\ off => c.queue[i].provider # "directml"
    PROVE  IInv'
<1>1. /\ holder' = holder /\ at' = at /\ answer' = answer /\ off' = off
      /\ runtime' = runtime
  BY DEF jobs
<1>2. TypeOK'
  BY <1>1 DEF IInv, TypeOK, locks, jobs
<1>3. JobSide'
  BY DEF JobSide, IInv, Counted, Claiming, PreparingHeld, WarmedAreThrough,
         WarmUpsPlaced, ReleaseSparesTheLanes, InProcess, locks, jobs
<1>4. CallsPlaced'
  BY <1>1 DEF IInv, CallsPlaced, RunsHere, InProcess
<1>5. FreeChildOwesNothing'
  BY <1>1 DEF IInv, FreeChildOwesNothing
<1>6. AskedOnce'
  <2> SUFFICES ASSUME holder # NoOne
               PROVE  /\ c.awaits \in AsksAt(at[holder])
                      /\ c.owes \in {"none", c.awaits}
                      /\ Replied(c)
    BY <1>1 DEF AskedOnce, Replied, AsksAt
  <2>1. /\ child.awaits \in AsksAt(at[holder])
        /\ child.owes \in {"none", child.awaits}
        /\ Replied(child)
    BY DEF IInv, AskedOnce
  <2>2. Replied(c)
    BY <2>1 DEF Replied
  <2> QED BY <2>1, <2>2
<1>7. Kept'
  BY <1>1 DEF IInv, Kept, Diarizing, InProcess, WillRelease
<1>8. SwitchedOffRunsOnCpu'
  BY <1>1 DEF IInv, SwitchedOffRunsOnCpu
<1>9. OnCpu'
  BY <1>1 DEF IInv, OnCpu
<1> QED BY <1>2, <1>3, <1>4, <1>5, <1>6, <1>7, <1>8, <1>9, Sides DEF ChildSide

\* An event that is no reply is queued, or none.
LEMMA FaultKeeps ==
    ASSUME IInv, NEW c \in Children, child \in Children, child' = c,
           UNCHANGED <<locks, jobs, answer, holder, off, runtime, installed,
                       live, quit>>,
           faults' \in Nat,
           c.awaits = child.awaits, c.provider = child.provider,
           c.asked = child.asked, c.owes \in {"none", child.owes},
           \/ c.queue = child.queue
           \/ \E e \in Faults : c.queue = Append(child.queue, e)
    PROVE  IInv'
<1>1. child.runs /\ c.runs /\ child.queue \in Seq(Events)
  BY DEF Children
<1>2. ASSUME NEW i \in DOMAIN c.queue, c.queue[i].is = "reply"
      PROVE  i \in DOMAIN child.queue /\ c.queue[i] = child.queue[i]
  <2>1. CASE c.queue = child.queue
    BY <1>2, <2>1
  <2>2. CASE \E e \in Faults : c.queue = Append(child.queue, e)
    <3>1. PICK e \in Faults : c.queue = Append(child.queue, e)
      BY <2>2
    <3>2. e \in Events /\ e.is # "reply" /\ Len(child.queue) \in Nat
      BY <1>1 DEF Faults, Events
    <3>3. /\ DOMAIN c.queue = 1 .. Len(child.queue) + 1
          /\ DOMAIN child.queue = 1 .. Len(child.queue)
          /\ c.queue[Len(child.queue) + 1] = e
          /\ \A k \in DOMAIN child.queue : c.queue[k] = child.queue[k]
      BY <1>1, <3>1, <3>2
    <3>4. i # Len(child.queue) + 1
      BY <1>2, <3>2, <3>3
    <3> QED BY <3>2, <3>3, <3>4
  <2> QED BY <2>1, <2>2
<1> QED BY <1>1, <1>2, ProcessKeeps

\* The request owed is answered by one reply, which names DirectML only where
\* it was asked for or is (serve_with).
LEMMA ChildAnswersKeeps == ASSUME IInv, ChildAnswers PROVE IInv'
<1>1. /\ child.runs /\ child.alive /\ child.owes # "none" /\ child \in Children
      /\ UNCHANGED <<locks, jobs, answer, holder, off, runtime, installed,
                     live, quit>>
  BY ChildType DEF ChildAnswers
<1>2. PICK ok \in BOOLEAN, provider \in Providers :
        /\ faults' = IF ok THEN faults ELSE faults + 1
        /\ provider \in CASE child.owes = "load" /\ ok ->
                               {"cpu"} \cup IF child.asked THEN {"directml"} ELSE {}
                          [] child.owes = "transcribe" /\ ok ->
                               {"cpu", child.provider}
                          [] OTHER -> {"none"}
        /\ child' = [Queues(child, Reply(child, ok, provider)) EXCEPT
                        !.owes = "none", !.alive = child.owes # "bye"]
  BY DEF ChildAnswers
<1> DEFINE r == Reply(child, ok, provider)
           c == [Queues(child, r) EXCEPT !.owes = "none",
                                         !.alive = child.owes # "bye"]
<1>3. r \in Events /\ r.is = "reply" /\ r.provider = provider
  BY <1>1 DEF Reply, Events, Replies, Children
<1>4. child.queue \in Seq(Events) /\ Len(child.queue) \in Nat
  BY <1>1 DEF Children
<1>5. /\ c \in Children /\ c.runs /\ c.owes = "none" /\ c.awaits = child.awaits
      /\ c.provider = child.provider /\ c.asked = child.asked
      /\ c.queue = Append(child.queue, r)
  <2>1. Append(child.queue, r) \in Seq(Events)
    BY <1>3, <1>4
  <2> HIDE DEF r
  <2> QED BY <1>1, <2>1 DEF Queues, Children
<1>6. holder # NoOne /\ Replied(child) /\ child.awaits \in AsksAt(at[holder])
      /\ child.owes = child.awaits
  BY <1>1 DEF IInv, FreeChildOwesNothing, AskedOnce
<1>7. off => provider # "directml"
  BY <1>1, <1>2, <1>6 DEF IInv, SwitchedOffRunsOnCpu
<1>8. /\ DOMAIN c.queue = 1 .. Len(child.queue) + 1
      /\ DOMAIN child.queue = 1 .. Len(child.queue)
      /\ c.queue[Len(child.queue) + 1] = r
      /\ \A k \in DOMAIN child.queue : c.queue[k] = child.queue[k]
  BY <1>3, <1>4, <1>5
<1>9. \A k \in DOMAIN child.queue : child.queue[k].is # "reply"
  BY <1>1, <1>6 DEF Replied
<1>10. child' = c /\ faults' \in Nat
  BY <1>2 DEF IInv, TypeOK
<1> HIDE DEF c, r
<1>11. \A k \in DOMAIN c.queue : c.queue[k].is = "reply" =>
         k = Len(child.queue) + 1
  BY <1>4, <1>8, <1>9
<1>12. \A i \in DOMAIN c.queue : c.queue[i].is = "reply" =>
         /\ child.owes # "none" /\ c.owes = "none"
         /\ \A k \in DOMAIN c.queue : c.queue[k].is = "reply" => k = i
         /\ off => c.queue[i].provider # "directml"
  BY <1>1, <1>3, <1>5, <1>7, <1>8, <1>11
<1> QED BY <1>1, <1>5, <1>10, <1>12, ProcessKeeps

\* It dies, grows past its ceiling, or writes what is no frame.
LEMMA ChildFailsKeeps == ASSUME IInv, ChildFails PROVE IInv'
<1>1. /\ child.runs /\ child \in Children /\ faults' \in Nat
      /\ UNCHANGED <<locks, jobs, answer, holder, off, runtime, installed,
                     live, quit>>
  BY ChildType DEF ChildFails, IInv, TypeOK
<1>2. child.queue \in Seq(Events)
  BY <1>1 DEF Children
<1>3. CASE child' = [child EXCEPT !.alive = FALSE, !.owes = "none"]
  <2> DEFINE c == [child EXCEPT !.alive = FALSE, !.owes = "none"]
  <2>1. /\ c \in Children /\ c.awaits = child.awaits
        /\ c.provider = child.provider /\ c.asked = child.asked
        /\ c.owes = "none" /\ c.queue = child.queue
    BY <1>1 DEF Children, Requests
  <2> HIDE DEF c
  <2>2. child' = c
    BY <1>3 DEF c
  <2> QED BY <1>1, <2>1, <2>2, FaultKeeps
<1>4. ASSUME NEW e \in Faults, NEW ended \in BOOLEAN,
             child' = [Queues(child, e) EXCEPT !.faulted = TRUE, !.ended = ended]
      PROVE  IInv'
  <2> DEFINE c == [Queues(child, e) EXCEPT !.faulted = TRUE, !.ended = ended]
  <2>1. Append(child.queue, e) \in Seq(Events)
    BY <1>2 DEF Events
  <2>2. /\ c \in Children /\ c.awaits = child.awaits
        /\ c.provider = child.provider /\ c.asked = child.asked
        /\ c.owes = child.owes /\ c.queue = Append(child.queue, e)
    BY <1>1, <2>1 DEF Queues, Children
  <2> HIDE DEF c
  <2>3. child' = c
    BY <1>4 DEF c
  <2> QED BY <1>1, <2>2, <2>3, FaultKeeps
<1>5. CASE child' = [Queues(child, [is |-> "over"]) EXCEPT !.faulted = TRUE]
  <2>1. [is |-> "over"] \in Faults
    BY DEF Faults
  <2>2. child' = [Queues(child, [is |-> "over"])
                     EXCEPT !.faulted = TRUE, !.ended = child.ended]
    BY <1>1, <1>5 DEF Queues, Children
  <2>3. child.ended \in BOOLEAN
    BY <1>1 DEF Children
  <2> QED BY <1>4, <2>1, <2>2, <2>3
<1>6. CASE child' = [Queues(child, [is |-> "garbage"])
                        EXCEPT !.faulted = TRUE, !.ended = TRUE]
  BY <1>4, <1>6 DEF Faults
<1> QED BY <1>3, <1>5, <1>6 DEF ChildFails

\* The end of its stdout is one more fault (the reader thread).
LEMMA ReaderEndsKeeps == ASSUME IInv, ReaderEnds PROVE IInv'
<1> DEFINE e == [is |-> "closed"]
           c == [Queues(child, e) EXCEPT !.faulted = TRUE, !.ended = TRUE]
<1>1. /\ child.runs /\ child \in Children /\ faults' \in Nat
      /\ UNCHANGED <<locks, jobs, answer, holder, off, runtime, installed,
                     live, quit>>
  BY ChildType DEF ReaderEnds, IInv, TypeOK, world
<1>2. e \in Faults /\ child' = c
  BY DEF ReaderEnds, Faults
<1>3. Append(child.queue, e) \in Seq(Events)
  BY <1>1, <1>2 DEF Children, Events
<1>4. /\ c \in Children /\ c.awaits = child.awaits
      /\ c.provider = child.provider /\ c.asked = child.asked
      /\ c.owes = child.owes /\ c.queue = Append(child.queue, e)
  BY <1>1, <1>3 DEF Queues, Children
<1> HIDE DEF c, e
<1> QED BY <1>1, <1>2, <1>4, FaultKeeps

---------------------------------------------------------------------------
\* At the launch nobody claims, holds or runs anything.
LEMMA InitIInv == ASSUME Init PROVE IInv
<1> USE DEF Init
<1>1. TypeOK
  BY SpeechAssumption DEF TypeOK, Places, Tasks
<1>2. Counted
  <2>1. Claiming = {}
    BY DEF Claiming, Tasks
  <2> QED BY <2>1, FS_EmptySet DEF Counted
<1>3. \A t \in Tasks : at[t] = "idle" /\ answer[t] = "none" /\ t # NoOne
  BY SpeechAssumption DEF Tasks
<1>4. PreparingHeld /\ WarmedAreThrough /\ WarmUpsPlaced /\ CallsPlaced
  BY <1>3 DEF PreparingHeld, WarmedAreThrough, WarmUpsPlaced, CallsPlaced, Tasks
<1>5. /\ ReleaseSparesTheLanes /\ FreeChildOwesNothing /\ AskedOnce /\ Kept
      /\ SwitchedOffRunsOnCpu /\ OnCpu
  BY <1>3 DEF ReleaseSparesTheLanes, FreeChildOwesNothing, AskedOnce, Kept,
              SwitchedOffRunsOnCpu, OnCpu, NoChild, Tasks
<1> QED BY <1>1, <1>2, <1>4, <1>5 DEF IInv

\* Every step of a job, a task, the process and the world keeps it.
LEMMA NextIInv == ASSUME IInv, [Next]_vars PROVE IInv'
<1>1. ASSUME NEW j \in Jobs, JobSteps(j) PROVE IInv'
  BY <1>1, ClaimKeeps, TakesTurnKeeps, NoRecordingKeeps, NextLaneKeeps,
     TranscribedKeeps, DropsClaimKeeps, RecountsKeeps, ReleasesKeeps,
     ReleasedKeeps, DiarizedKeeps DEF JobSteps
<1>2. ASSUME NEW t \in Tasks, TaskSteps(t) PROVE IInv'
  BY <1>2, LooksForModelsKeeps, PreparesKeeps, PreparedKeeps, CallsHereKeep,
     EntersKeeps, HearsKeeps, DeadlineKeeps DEF TaskSteps
<1>3. ASSUME NEW t \in Tasks, SpawnFails(t) PROVE IInv'
  BY <1>3, SpawnFailsKeeps
<1>4. ASSUME NEW w \in WarmUps, RecordingStarts(w) PROVE IInv'
  BY <1>4, RecordingStartsKeeps
<1>5. CASE ChildAnswers \/ ChildFails \/ ReaderEnds
  BY <1>5, ChildAnswersKeeps, ChildFailsKeeps, ReaderEndsKeeps
<1>6. CASE RecordingEnds \/ ModelsChange \/ Quits \/ Idle \/ UNCHANGED vars
  BY <1>6, WorldKeeps DEF Idle
<1> QED BY <1>1, <1>2, <1>3, <1>4, <1>5, <1>6 DEF Next

\* What the invariant is made of.
THEOREM Invariant == Spec => []IInv
<1>1. Init => IInv
  BY InitIInv
<1>2. IInv /\ [Next]_vars => IInv'
  BY NextIInv
<1> QED BY <1>1, <1>2, PTL DEF Spec

\* Every variable has its type, whatever is loaded, killed or asked.
THEOREM TypeCorrect == Spec => []TypeOK
<1>1. IInv => TypeOK
  BY DEF IInv
<1> QED BY <1>1, Invariant, PTL

\* finish_speech: a release runs under no job between its warm-up and its last
\* lane, for the claims are counted again under the lock that warm-ups need.
THEOREM ReleasesSpareTheLanes == Spec => []ReleaseSparesTheLanes
<1>1. IInv => ReleaseSparesTheLanes
  BY DEF IInv
<1> QED BY <1>1, Invariant, PTL

\* SidecarProcess::wait_for: the next call finds no reply of an earlier one.
THEOREM FreeChildrenOweNothing == Spec => []FreeChildOwesNothing
<1>1. IInv => FreeChildOwesNothing
  BY DEF IInv
<1> QED BY <1>1, Invariant, PTL

\* finish_speech and SidecarSpeechEngine::diarize: once every job is over the
\* last claim's release or a diarization's own stop took the child down.
THEOREM NothingIsLeftLoaded == Spec => []NothingStaysLoaded
<1>1. IInv => NothingStaysLoaded
  <2> SUFFICES ASSUME IInv, \A j \in Jobs : at[j] \in {"idle", "over"}, child.runs
               PROVE  FALSE
    BY DEF NothingStaysLoaded
  <2>1. \A j \in Jobs : ~WillRelease(j)
    BY DEF WillRelease, ClaimPlaces
  <2>2. ~Diarizing
    <3>1. \A w \in WarmUps : at[w] # "speakers"
      BY DEF IInv, WarmUpsPlaced
    <3> QED BY <3>1 DEF IInv, TypeOK, Diarizing, Tasks
  <2> QED BY <2>1, <2>2 DEF IInv, Kept
<1> QED BY <1>1, Invariant, PTL

\* wants_directml and the retry of Shared::load: what ended a child once is not
\* asked for again by any load.
THEOREM SwitchedOffStaysOnCpu == Spec => []SwitchedOffRunsOnCpu
<1>1. IInv => SwitchedOffRunsOnCpu
  BY DEF IInv
<1> QED BY <1>1, Invariant, PTL
=============================================================================
