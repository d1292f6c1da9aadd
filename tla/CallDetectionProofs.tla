-------------------------- MODULE CallDetectionProofs --------------------------
(***************************************************************************)
(* Proofs about CallDetection, for any callers, openings, releases and     *)
(* every other bound: the recorder beside the detection that feeds it.     *)
(***************************************************************************)
EXTENDS CallDetection, RecorderProofs, FunctionTheorems

-----------------------------------------------------------------------------
(* The releases on their way.                                               *)

Events == {"opened", "released"}

\* Where a sequence of events holds a release.
ReleasesIn(some) == {i \in DOMAIN some : some[i] = "released"}

\* Releases of the microphone the recorder has yet to be told of.
Pending == Cardinality(ReleasesIn(events)) + (IF activity = "released" THEN 1 ELSE 0)

\* A release pays for the countdown it arms and for the one that may follow.
Budget == Owed + 2 * Pending <= 2 * releases

\* An event that is appended counts where it is a release.
LEMMA AppendedReleases ==
  ASSUME NEW some \in Seq(Events), NEW event \in Events
  PROVE  /\ IsFiniteSet(ReleasesIn(some)) /\ Cardinality(ReleasesIn(some)) \in Nat
         /\ Cardinality(ReleasesIn(Append(some, event))) =
              Cardinality(ReleasesIn(some)) + (IF event = "released" THEN 1 ELSE 0)
<1> DEFINE S == ReleasesIn(some)
           T == ReleasesIn(Append(some, event))
           n == Len(some) + 1
<1>1. /\ Len(some) \in Nat /\ DOMAIN some = 1..Len(some) /\ Append(some, event) \in Seq(Events)
      /\ DOMAIN Append(some, event) = 1..n /\ Append(some, event)[n] = event
      /\ \A i \in 1..Len(some) : Append(some, event)[i] = some[i]
  OBVIOUS
<1>2. IsFiniteSet(S) /\ Cardinality(S) \in Nat
  <2>1. S \subseteq 1..Len(some) /\ IsFiniteSet(1..Len(some))
    BY <1>1, FS_Interval DEF ReleasesIn
  <2> QED BY <2>1, FS_Subset, FS_CardinalityType
<1>3. n \notin S
  BY <1>1 DEF ReleasesIn
<1>4. T = IF event = "released" THEN S \cup {n} ELSE S
  BY <1>1 DEF ReleasesIn
<1>5. Cardinality(S \cup {n}) = Cardinality(S) + 1
  BY <1>2, <1>3, FS_AddElement
<1> QED BY <1>2, <1>4, <1>5

\* An event that is taken no longer counts.
LEMMA TakenRelease ==
  ASSUME NEW some \in Seq(Events), some # <<>>
  PROVE  Cardinality(ReleasesIn(some)) =
           Cardinality(ReleasesIn(Tail(some))) + (IF Head(some) = "released" THEN 1 ELSE 0)
<1> DEFINE S == ReleasesIn(some)
           T == ReleasesIn(Tail(some))
           U == S \ {1}
           f == [i \in T |-> i + 1]
<1>1. /\ Len(some) \in Nat \ {0} /\ DOMAIN some = 1..Len(some) /\ Head(some) = some[1]
      /\ Tail(some) \in Seq(Events) /\ DOMAIN Tail(some) = 1..(Len(some) - 1)
      /\ \A i \in 1..(Len(some) - 1) : Tail(some)[i] = some[i + 1]
  OBVIOUS
<1>2. /\ IsFiniteSet(S) /\ Cardinality(S) \in Nat /\ IsFiniteSet(T) /\ Cardinality(T) \in Nat
  BY <1>1, AppendedReleases DEF Events
<1>3. T \subseteq 1..(Len(some) - 1) /\ U \subseteq 2..Len(some)
      /\ \A i \in 1..(Len(some) - 1) : i \in T <=> i + 1 \in U
  BY <1>1 DEF ReleasesIn
<1>4. f \in Bijection(T, U)
  <2>1. f \in [T -> U]
    BY <1>1, <1>3
  <2>2. \A i, j \in T : f[i] = f[j] => i = j
    BY <1>1, <1>3
  <2>3. \A u \in U : \E i \in T : f[i] = u
    <3>1. SUFFICES ASSUME NEW u \in U PROVE \E i \in T : f[i] = u
      OBVIOUS
    <3>2. u \in 2..Len(some)
      BY <1>3
    <3>3. u - 1 \in 1..(Len(some) - 1) /\ (u - 1) + 1 = u
      BY <1>1, <3>2
    <3>4. u - 1 \in T
      BY <1>3, <3>3
    <3> QED BY <3>3, <3>4
  <2> QED BY <2>1, <2>2, <2>3, Fun_IsBij
<1>5. Cardinality(U) = Cardinality(T)
  BY <1>2, <1>4, FS_Bijection DEF ExistsBijection
<1>6. 1 \in S <=> Head(some) = "released"
  BY <1>1 DEF ReleasesIn
<1>7. 1 \in S => Cardinality(U) = Cardinality(S) - 1
  BY <1>2, FS_RemoveElement
<1>8. 1 \notin S => U = S
  OBVIOUS
<1> HIDE DEF S, T, U
<1>9. Cardinality(S) = Cardinality(T) + (IF Head(some) = "released" THEN 1 ELSE 0)
  <2>1. CASE 1 \in S
    BY <1>2, <1>5, <1>6, <1>7, <2>1
  <2>2. CASE 1 \notin S
    BY <1>2, <1>5, <1>6, <1>8, <2>2
  <2> QED BY <2>1, <2>2
<1> QED BY <1>9 DEF S, T

-----------------------------------------------------------------------------
(* The inductive invariant.                                                 *)

\* The detection's own types.
DetectionTypes ==
  /\ enabled \in BOOLEAN /\ prompt \in Prompts
  /\ mic \in {"off", "released", "open"}
  /\ events \in Seq(Events)
  /\ activity \in {"none", "opened", "released"}
  /\ opens \in 0..MaxOpens

DInv == IInv /\ Theirs /\ DetectionTypes /\ Budget /\ PromptComesDown

\* A release handed over pays for two.
LEMMA PaidFor ==
  ASSUME NEW owed \in Nat, NEW owes \in Nat, NEW pending \in Nat, NEW paid \in Nat,
         owed + 2 * pending <= 2 * paid, owes <= owed + 2
  PROVE  owes + 2 * (pending - 1) <= 2 * paid
OBVIOUS

\* What owes no more, or waits for less, is still paid for.
LEMMA StillPaid ==
  ASSUME NEW owed \in Nat, NEW owes \in Nat, NEW pending \in Nat, NEW pends \in Nat,
         NEW paid \in Nat, owed + 2 * pending <= 2 * paid, owes <= owed, pends <= pending
  PROVE  owes + 2 * pends <= 2 * paid
OBVIOUS

\* A countdown that may be followed is owed one more.
LEMMA OwedIs ==
  ASSUME NEW armed \in Nat, NEW more \in BOOLEAN
  PROVE  LET owed == armed + (IF more THEN 1 ELSE 0)
         IN  owed \in Nat /\ (owed = armed \/ owed = armed + 1)
OBVIOUS

\* What the events on their way and the recorder's releases are counted as.
LEMMA Counts ==
  ASSUME IInv, DetectionTypes
  PROVE  /\ Cardinality(ReleasesIn(events)) \in Nat /\ Pending \in Nat
         /\ arms \in Nat /\ Owed \in Nat /\ arms <= Owed
         /\ releases \in 0..MaxReleases /\ releases \in Nat /\ MaxReleases \in Nat
<1>1. Cardinality(ReleasesIn(events)) \in Nat
  BY AppendedReleases DEF DetectionTypes, Events
<1>2. arms \in Nat /\ releases \in 0..MaxReleases /\ MaxReleases \in Nat
  BY RecorderAssumption DEF IInv, TypeOK
<1> QED BY <1>1, <1>2 DEF Pending, Owed

\* The invariant holds at the start.
LEMMA InitDInv == DetectionInit => DInv
<1> SUFFICES ASSUME DetectionInit PROVE DInv
  OBVIOUS
<1>1. IInv /\ Theirs
  BY InitIInv, InitTheirs DEF DetectionInit
<1>2. DetectionTypes
  BY DetectionAssumption DEF DetectionInit, DetectionTypes, Prompts
<1>3. Budget
  <2>1. ReleasesIn(events) = {}
    BY DEF DetectionInit, ReleasesIn
  <2>2. Cardinality(ReleasesIn(events)) = 0
    BY <2>1, FS_EmptySet
  <2>3. Pending = 0
    BY <2>2 DEF Pending, DetectionInit
  <2>4. Owed = 0 /\ releases = 0
    BY DEF Owed, DetectionInit, Init
  <2> QED BY <2>3, <2>4 DEF Budget
<1>4. PromptComesDown
  BY DEF DetectionInit, PromptComesDown
<1> QED BY <1>1, <1>2, <1>3, <1>4 DEF DInv

\* The microphone's activity is handed to the recorder: each of its own, and
\* the countdown a release arms is paid for.
LEMMA HandOverKeeps ==
  ASSUME DInv, HandOver
  PROVE  IInv' /\ Theirs' /\ Budget' /\ PromptComesDown'
<1> USE DEF inner, watch, flags, session, bounds
<1> DEFINE t == Detector
<1>1. /\ IInv /\ Theirs /\ DetectionTypes /\ Budget /\ PromptComesDown
      /\ TypeOK /\ Calm /\ CallWatch /\ calls \in CallsType
      /\ t \in Threads /\ t[1] = "detect" /\ th[t].at = "ready" /\ Placed(t) = "ready"
  BY Kinds DEF DInv, IInv, Theirs, TypeOK, CallsType, HandOver, At, Placed, PlaceOf, Telling, Resting
<1>2. /\ "ready" \in Plain /\ "ready" \in Places
      /\ "ready" \notin Telling \cup Upcoming \cup Carrying \cup Held
                        \cup {"none", "asleep", "ended", "watching", "asking", "ending", "cancelTests"}
  BY CallersPlaces DEF Telling, Upcoming, Beginning, Carrying, Held
<1>3. activity # "none" /\ activity' = "none" /\ UNCHANGED <<prompt, events>>
  BY DEF HandOver
<1>4. /\ Pending \in Nat /\ Pending' \in Nat
      /\ Pending' = Pending - (IF activity = "released" THEN 1 ELSE 0)
  <2>1. ReleasesIn(events)' = ReleasesIn(events)
    BY <1>3 DEF ReleasesIn
  <2>2. Cardinality(ReleasesIn(events)) \in Nat
    BY <1>1, Counts
  <2> QED BY <1>3, <2>1, <2>2 DEF Pending
<1>5. CASE MicrophoneOpened
  <2>1. /\ th' = Disarmed(Announces(t, "ready")) /\ calls' \in CallsType /\ calls'.armed = 0
        /\ UNCHANGED <<inner, arms, flags, rec, session, bounds>>
    BY <1>1, <1>5, CallsAre DEF MicrophoneOpened
  <2>2. Moved(t, "ready", th[t].rec) /\ th'[t].at = "announce"
    BY <1>1, <1>2, <2>1, AnnouncesMoves
  <2>3. TypeOK'
    BY <1>1, <2>1, <2>2 DEF TypeOK, Moved, ThreadType, CallsType
  <2>4. IInv'
    BY <1>1, <1>2, <2>1, <2>2, <2>3, MoveKeeps DEF Calm, Room
  <2>5. Theirs' /\ Minds
    BY <1>1, <1>2, <2>1, <2>4, DisarmsRest
  <2>6. Budget'
    BY <1>1, <1>4, <2>1, <2>5, Counts DEF Budget, Minds, Owed
  <2>7. PromptComesDown'
    BY <1>1, <2>2 DEF PromptComesDown, At
  <2> QED BY <2>4, <2>5, <2>6, <2>7
<1>6. CASE activity = "released" /\ ReleasedCounts /\ MicrophoneReleased
  <2>1. /\ Arms(t, "ready", TRUE) /\ UNCHANGED <<inner, flags, rec, session, bounds>>
        /\ CallRecords /\ calls.seen /\ calls.armed = 0
    BY <1>6 DEF MicrophoneReleased, ReleasedCounts
  <2>2. arms + 2 <= 2 * MaxReleases /\ arms \in Nat /\ MaxReleases \in Nat
    <3>1. Pending >= 1
      BY <1>4, <1>6
    <3> QED BY <1>1, <1>4, <3>1, Counts DEF Budget
  <2>3. arms < 2 * MaxReleases /\ arms + 1 < 2 * MaxReleases
    BY <2>2
  <2>4. IInv'
    BY <1>1, <2>1, <2>3, ArmsKeeps
  <2>5. Theirs' /\ th'[t].at = "announce" /\ Owed' <= Owed + 2
    <3>1. /\ Theirs' /\ th'[t].at = "announce"
          /\ Owed' <= Owed + (IF calls.armed # 0 /\ calls.postponable THEN 0 ELSE 1)
                           + (IF TRUE THEN 1 ELSE 0)
      BY <1>1, <1>2, <2>1, <2>3, <2>4, ArmsRest
    <3>2. Owed \in Nat
      BY <1>1, Counts
    <3> QED BY <2>1, <3>1, <3>2
  <2>6. Budget'
    <3>1. IInv' /\ DetectionTypes'
      BY <1>1, <1>3, <2>4 DEF DetectionTypes, HandOver
    <3>2. Owed \in Nat /\ Owed' \in Nat /\ releases \in Nat /\ releases' = releases
      <4>1. arms' \in Nat
        BY <2>4, RecorderAssumption DEF IInv, TypeOK
      <4>2. Owed' = arms' \/ Owed' = arms' + 1
        BY <4>1, OwedIs DEF Owed
      <4>3. Owed' \in Nat
        BY <4>1, <4>2
      <4> QED BY <1>1, <2>1, <4>3, Counts
    <3>3. Pending' = Pending - 1
      BY <1>4, <1>6
    <3>4. Owed + 2 * Pending <= 2 * releases
      BY <1>1 DEF Budget
    <3>5. Owed' <= Owed + 2 /\ Pending \in Nat
      BY <1>4, <2>5
    <3>7. Owed' + 2 * Pending' <= 2 * releases'
      BY <3>2, <3>3, <3>4, <3>5, PaidFor
    <3> QED BY <3>7 DEF Budget
  <2>7. PromptComesDown'
    BY <1>1, <2>5 DEF PromptComesDown, At
  <2> QED BY <2>4, <2>5, <2>6, <2>7
<1>7. CASE UNCHANGED recorder
  <2>1. IInv' /\ Theirs' /\ Minds
    BY <1>1, <1>7, StutterKeeps DEF recorder
  <2>2. Owed' = Owed /\ releases' = releases
    BY <1>7 DEF recorder, vars, Owed
  <2>3. Budget'
    BY <1>1, <1>4, <2>2, Counts DEF Budget
  <2>4. PromptComesDown'
    BY <1>1, <1>3, <1>7 DEF recorder, vars, PromptComesDown, At, Busy
  <2> QED BY <2>1, <2>3, <2>4
<1> QED BY <1>5, <1>6, <1>7 DEF HandOver

\* A step that touches neither the prompt nor the events, and arms no
\* countdown that is not paid for.
LEMMA BudgetKeeps ==
  ASSUME DInv, IInv', Owed' <= Owed, releases' = releases, UNCHANGED <<events, activity>>
  PROVE  Budget'
<1>1. IInv /\ DetectionTypes /\ Budget
  BY DEF DInv
<1>2. Pending' = Pending
  BY DEF Pending, ReleasesIn
<1>3. Pending \in Nat /\ Owed \in Nat /\ releases \in Nat
  BY <1>1, Counts
<1>4. Owed' \in Nat
  <2>1. arms' \in Nat
    BY RecorderAssumption DEF IInv, TypeOK
  <2> QED BY <2>1, OwedIs DEF Owed
<1>5. Owed + 2 * Pending <= 2 * releases
  BY <1>1 DEF Budget
<1>6. Pending <= Pending
  BY <1>3
<1>7. Owed' + 2 * Pending <= 2 * releases
  BY <1>3, <1>4, <1>5, <1>6, StillPaid
<1> QED BY <1>2, <1>7 DEF Budget

\* A step of the recorder, which the detection does not see.
LEMMA WorksKeepsD ==
  ASSUME DInv, Works, UNCHANGED detection
  PROVE  DInv' /\ Minds
<1>1. IInv /\ Theirs /\ DetectionTypes /\ PromptComesDown
  BY DEF DInv
<1>2. IInv' /\ Theirs' /\ Minds
  BY <1>1, WorksKeep, WorksRest
<1>3. DetectionTypes'
  BY <1>1 DEF DetectionTypes, detection
<1>4. Budget'
  BY <1>2, BudgetKeeps DEF Minds, detection
<1>5. PromptComesDown'
  <2>1. SUFFICES ASSUME prompt # "none", Busy' PROVE \E u \in Threads : th'[u].at \in Telling
    BY DEF PromptComesDown, detection, At, Telling
  <2>2. Busy \/ \E u \in Threads : th'[u].at \in Telling
    BY <1>2, <2>1 DEF Minds
  <2>3. Busy => \E u \in Threads : th[u].at \in Telling
    BY <1>1, <2>1 DEF PromptComesDown, At, Telling
  <2> QED BY <1>2, <2>2, <2>3 DEF Minds
<1> QED BY <1>2, <1>3, <1>4, <1>5 DEF DInv

\* Telling of a change: its hook takes the prompt down last.
LEMMA TellsKeepsD ==
  ASSUME DInv, NEW t \in Threads, Announce(t) \/ RecorderChanged(t)
  PROVE  DInv'
<1> USE DEF inner, watch, flags, session, bounds
<1>1. IInv /\ Theirs /\ DetectionTypes /\ PromptComesDown
  BY DEF DInv
<1>2. /\ th[t].at \in Telling
      /\ th' = Through(t, th[t].then) \/ th' = [th EXCEPT ![t].at = "hook"]
      /\ live' = Busy \/ (live' = live /\ th[t].at = "hook")
      /\ sleepers' = {} \/ sleepers' = sleepers
      /\ UNCHANGED <<inner, watch, refused, tone, rec, session, bounds>>
      /\ UNCHANGED <<enabled, mic, events, activity, opens>>
    BY DEF Announce, RecorderChanged, Notified, At, Telling, detection
<1>3. sleepers' \subseteq Threads
  BY <1>1, <1>2 DEF IInv, TypeOK
<1>4. IInv'
  BY <1>1, <1>2, <1>3, ToldKeeps
<1>5. Theirs' /\ Owed' = Owed
  BY <1>1, <1>2, <1>4, ToldRest
<1>6. DetectionTypes'
  <2>1. prompt' = prompt \/ prompt' = "none"
    BY DEF Announce, RecorderChanged, detection
  <2> QED BY <1>1, <1>2, <2>1 DEF DetectionTypes, Prompts
<1>7. Budget'
  <2>1. Owed \in Nat
    BY <1>1, Counts
  <2>2. Owed' <= Owed
    BY <1>5, <2>1
  <2> QED BY <1>2, <1>4, <2>2, BudgetKeeps
<1>8. PromptComesDown'
  <2>1. CASE Announce(t)
    <3>1. th' = [th EXCEPT ![t].at = "hook"] /\ th \in [Threads -> ThreadType]
      BY <1>1, <2>1 DEF Announce, Notified, IInv, TypeOK, ThreadType
    <3>2. th'[t].at = "hook"
      BY <3>1 DEF ThreadType
    <3> QED BY <3>2 DEF PromptComesDown, At
  <2>2. CASE RecorderChanged(t)
    <3>1. Busy' <=> Busy
      BY <1>2 DEF Busy
    <3> QED BY <2>2, <3>1 DEF RecorderChanged, PromptComesDown
  <2> QED BY <2>1, <2>2
<1> QED BY <1>4, <1>5, <1>6, <1>7, <1>8 DEF DInv

\* The prompt's Record starts a call recording, once the prompt is down.
LEMMA RecordKeepsD ==
  ASSUME DInv, NEW c \in Callers, RecordFromPrompt(c)
  PROVE  DInv'
<1> USE DEF inner, watch, flags, session
<1> DEFINE t == Caller(c)
<1>1. /\ IInv /\ Theirs /\ DetectionTypes /\ TypeOK /\ Calm
      /\ t \in Threads /\ t[1] = "call" /\ th[t].at = "ready"
      /\ UNCHANGED <<inner, watch, flags, rec, session, releases, faults>>
  BY Kinds DEF DInv, IInv, RecordFromPrompt, At
<1>2. PICK app \in BOOLEAN : AsksToStart(c, "call", app)
  BY DEF RecordFromPrompt
<1>3. "call" \in Modes \cup {"call"}
  OBVIOUS
<1>4. /\ Moved(t, "start", starts + 1) /\ th'[t].at = "start"
      /\ starts + 1 \in Recordings /\ starts' \in 0..MaxStarts
  BY <1>1, <1>2, <1>3, AsksToStartMoves
<1>5. TypeOK'
  BY <1>1, <1>4 DEF TypeOK, Moved, ThreadType
<1>6. IInv'
  BY <1>1, <1>4, <1>5, MoveKeeps, CallersPlaces DEF Held, Calm, Room, Telling
<1>7. Theirs' /\ Minds
  BY <1>1, <1>2, <1>3, <1>6, AsksToStartRest DEF At
<1>8. UNCHANGED <<enabled, mic, events, activity, opens>> /\ prompt' = "none"
  BY DEF RecordFromPrompt
<1>9. DetectionTypes' /\ PromptComesDown'
  BY <1>1, <1>8 DEF DetectionTypes, Prompts, PromptComesDown
<1>10. Budget'
  BY <1>6, <1>7, <1>8, BudgetKeeps DEF Minds
<1> QED BY <1>6, <1>7, <1>9, <1>10 DEF DInv

\* No step of the recorder: its invariant stays.
LEMMA AsideKeepsD ==
  ASSUME DInv, UNCHANGED recorder, DetectionTypes', Pending' \in Nat, Pending' <= Pending,
         prompt' # "none" => prompt' = prompt \/ ~Busy
  PROVE  DInv'
<1>1. IInv /\ Theirs /\ DetectionTypes /\ Budget /\ PromptComesDown
  BY DEF DInv
<1>2. IInv' /\ Theirs'
  BY <1>1, StutterKeeps DEF recorder
<1>3. Owed' = Owed /\ releases' = releases /\ th' = th /\ (Busy' <=> Busy)
  BY DEF recorder, vars, inner, watch, bounds, Owed, Busy
<1>4. Owed \in Nat /\ Pending \in Nat /\ releases \in Nat /\ Owed + 2 * Pending <= 2 * releases
  BY <1>1, Counts DEF Budget
<1>5. Budget'
  <2>1. Owed <= Owed
    BY <1>4
  <2>2. Owed + 2 * Pending' <= 2 * releases
    BY <1>4, <2>1, StillPaid
  <2> QED BY <1>3, <2>2 DEF Budget
<1>6. PromptComesDown'
  BY <1>1, <1>3 DEF PromptComesDown, At
<1> QED BY <1>1, <1>2, <1>5, <1>6 DEF DInv

\* An app takes the microphone: no release yet.
LEMMA AppOpensKeepsD == ASSUME DInv, AppOpens PROVE DInv'
<1>1. /\ IInv /\ DetectionTypes /\ events \in Seq(Events) /\ "opened" \in Events
      /\ opens \in 0..MaxOpens /\ opens < MaxOpens
  BY DEF DInv, DetectionTypes, AppOpens, Events
<1>2. Cardinality(ReleasesIn(Append(events, "opened"))) = Cardinality(ReleasesIn(events))
  BY <1>1, AppendedReleases
<1>3. Pending' = Pending
  BY <1>2 DEF AppOpens, Pending, ReleasesIn
<1>4. Pending' \in Nat /\ Pending' <= Pending
  BY <1>1, <1>3, Counts
<1>5. opens' \in 0..MaxOpens
  BY <1>1, DetectionAssumption DEF AppOpens
<1>6. DetectionTypes'
  BY <1>1, <1>5 DEF AppOpens, DetectionTypes, Prompts
<1> QED BY <1>4, <1>6, AsideKeepsD DEF AppOpens

\* An app lets go of the microphone: one more release, on its way.
LEMMA AppLetsGoKeepsD == ASSUME DInv, AppLetsGo PROVE DInv'
<1> USE DEF inner, watch, flags, session
<1>1. /\ IInv /\ Theirs /\ DetectionTypes /\ Budget /\ PromptComesDown /\ TypeOK
      /\ events \in Seq(Events) /\ "released" \in Events
      /\ releases < MaxReleases /\ releases' = releases + 1
      /\ UNCHANGED <<inner, watch, flags, th, rec, session, starts, faults, enabled, prompt, activity, opens>>
  BY DEF DInv, IInv, DetectionTypes, AppLetsGo, Events
<1>2. TypeOK'
  <2>1. releases' \in 0..MaxReleases
    BY <1>1, RecorderAssumption DEF TypeOK
  <2> QED BY <1>1, <2>1 DEF TypeOK
<1>3. IInv'
  BY <1>1, <1>2, Still DEF IInv, Calm, Room
<1>4. \A t \in Threads : Placed(t)' = Placed(t)
  BY <1>1 DEF Placed
<1>5. Theirs'
  BY <1>1, <1>4, Kinds DEF Theirs, CallWatch, CallRecords, Following, Fresh
<1>6. DetectionTypes'
  BY <1>1 DEF AppLetsGo, DetectionTypes
<1>7. Budget'
  <2>1. Cardinality(ReleasesIn(Append(events, "released"))) = Cardinality(ReleasesIn(events)) + 1
        /\ Cardinality(ReleasesIn(events)) \in Nat
    BY <1>1, AppendedReleases
  <2>2. Pending' = Pending + 1
    <3> DEFINE n == Cardinality(ReleasesIn(events))
               k == IF activity = "released" THEN 1 ELSE 0
    <3>1. Pending = n + k
      BY DEF Pending
    <3>2. events' = Append(events, "released") /\ activity' = activity
      BY <1>1 DEF AppLetsGo
    <3>3. ReleasesIn(events)' = ReleasesIn(Append(events, "released"))
      BY <3>2 DEF ReleasesIn
    <3>4. Pending' = (n + 1) + k
      BY <2>1, <3>2, <3>3 DEF Pending
    <3>5. k \in Nat /\ n \in Nat
      BY <2>1
    <3> HIDE DEF n, k
    <3> QED BY <3>1, <3>4, <3>5
  <2>3. Owed' = Owed
    BY <1>1 DEF Owed
  <2>4. Owed \in Nat /\ Pending \in Nat /\ releases \in Nat /\ Owed + 2 * Pending <= 2 * releases
    BY <1>1, Counts DEF Budget
  <2>5. Owed + 2 * (Pending + 1) <= 2 * (releases + 1)
    BY <2>4
  <2> QED BY <1>1, <2>2, <2>3, <2>5 DEF Budget
<1>8. PromptComesDown'
  BY <1>1 DEF PromptComesDown, At, Busy
<1> QED BY <1>3, <1>5, <1>6, <1>7, <1>8 DEF DInv

\* The setting, the detector that follows it, and a prompt that goes.
LEMMA SettingKeepsD ==
  ASSUME DInv, SwitchOff \/ StopDetector \/ SwitchOn \/ PromptCloses \/ UNCHANGED allVars
  PROVE  DInv'
<1>1. IInv /\ DetectionTypes
  BY DEF DInv
<1>2. /\ UNCHANGED <<recorder, events, activity, opens>> /\ prompt' \in {prompt, "none"}
      /\ enabled' \in {enabled, TRUE, FALSE} /\ mic' \in {mic, "off", "released"}
  BY DEF SwitchOff, StopDetector, SwitchOn, PromptCloses, allVars, detection
<1>3. DetectionTypes'
  BY <1>1, <1>2 DEF DetectionTypes, Prompts
<1>4. Pending' = Pending
  BY <1>2 DEF Pending, ReleasesIn
<1>5. Pending' \in Nat /\ Pending' <= Pending
  BY <1>1, <1>4, Counts
<1> QED BY <1>2, <1>3, <1>5, AsideKeepsD

\* An event: a release goes where its activity does, or ends there.
LEMMA HandleKeepsD == ASSUME DInv, Handle PROVE DInv'
<1>1. /\ IInv /\ DetectionTypes /\ events \in Seq(Events) /\ events # <<>> /\ activity = "none"
      /\ UNCHANGED <<recorder, enabled, mic, opens>> /\ events' = Tail(events)
      /\ activity' = IF Busy THEN Head(events) ELSE "none"
  BY DEF DInv, DetectionTypes, Handle
<1>2. Tail(events) \in Seq(Events) /\ Head(events) \in Events
  BY <1>1
<1>3. /\ Cardinality(ReleasesIn(events)) =
           Cardinality(ReleasesIn(Tail(events))) + (IF Head(events) = "released" THEN 1 ELSE 0)
      /\ Cardinality(ReleasesIn(Tail(events))) \in Nat
  <2>1. "opened" \in Events
    BY DEF Events
  <2> QED BY <1>1, <1>2, <2>1, TakenRelease, AppendedReleases
<1>4. Pending' \in Nat /\ Pending' <= Pending
  <2> DEFINE n == Cardinality(ReleasesIn(Tail(events)))
  <2>1. Pending = n + (IF Head(events) = "released" THEN 1 ELSE 0)
    BY <1>1, <1>3 DEF Pending
  <2>2. Pending' = n + (IF activity' = "released" THEN 1 ELSE 0)
    BY <1>1 DEF Pending, ReleasesIn
  <2>3. activity' = "released" => Head(events) = "released"
    BY <1>1
  <2> QED BY <1>3, <2>1, <2>2, <2>3
<1>5. DetectionTypes' /\ (prompt' # "none" => prompt' = prompt \/ ~Busy)
  <2>1. activity' \in {"none", "opened", "released"}
    BY <1>1, <1>2 DEF Events
  <2>2. prompt' \in {"none", "named", "unnamed"} /\ (prompt' # "none" => prompt' = prompt \/ ~Busy)
    BY <1>1 DEF Handle, DetectionTypes, Prompts
  <2> QED BY <1>1, <1>2, <2>1, <2>2 DEF DetectionTypes, Prompts
<1> QED BY <1>1, <1>4, <1>5, AsideKeepsD

\* What the detection hands over, with its own types.
LEMMA HandOverKeepsD == ASSUME DInv, HandOver PROVE DInv'
<1>1. IInv' /\ Theirs' /\ Budget' /\ PromptComesDown'
  BY HandOverKeeps
<1>2. DetectionTypes'
  BY DEF DInv, DetectionTypes, HandOver
<1> QED BY <1>1, <1>2 DEF DInv

-----------------------------------------------------------------------------
(* What holds of every behaviour.                                           *)

\* What a step does not end.
EndsOwn ==
  /\ \A t \in Threads :
       t[1] \in {"watch", "countdown"} /\ active' = 0 /\ th'[t].at = "announce"
         /\ th'[t].why # th[t].why
         => th[t].rec = active
  /\ \A n \in Countdowns :
       active # 0 /\ active' = 0 /\ At(Countdown(n), "out") /\ ~At(Countdown(n), "out")'
         => ~(outage[active].recovering /\ calls.postponable)

\* Every step keeps the invariant, and ends no recording but its own.
LEMMA DetectionNextKeeps ==
  ASSUME DInv, [DetectionNext]_allVars
  PROVE  DInv' /\ EndsOwn
<1>1. IInv /\ Theirs
  BY DEF DInv
<1>2. CASE Works /\ UNCHANGED detection
  BY <1>2, WorksKeepsD DEF Minds, EndsOwn, At
<1>3. ASSUME NEW t \in Threads, Announce(t) \/ RecorderChanged(t) PROVE DInv' /\ EndsOwn
  <2>1. DInv'
    BY <1>3, TellsKeepsD
  <2>2. /\ th[t].at \in Telling
        /\ th' = Through(t, th[t].then) \/ th' = [th EXCEPT ![t].at = "hook"]
        /\ UNCHANGED <<state, active, watch, rec, starts, releases>>
    BY <1>3 DEF Announce, RecorderChanged, Notified, At, Telling, inner, bounds
  <2>3. \A u \in Threads : th'[u].at = "announce" => th'[u] = th[u]
    BY <1>1, <2>1, <2>2, ToldRest DEF DInv
  <2> QED BY <2>1, <2>2, <2>3 DEF EndsOwn
<1>4. CASE AppOpens \/ AppLetsGo \/ SwitchOff \/ StopDetector \/ SwitchOn \/ Handle
           \/ PromptCloses \/ UNCHANGED allVars
  <2>1. DInv'
    BY <1>4, AppOpensKeepsD, AppLetsGoKeepsD, SettingKeepsD, HandleKeepsD
  <2>2. UNCHANGED <<active, th>>
    BY <1>4 DEF AppOpens, AppLetsGo, SwitchOff, StopDetector, SwitchOn, Handle, PromptCloses,
                allVars, recorder, vars, inner
  <2> QED BY <2>1, <2>2 DEF EndsOwn
<1>5. CASE HandOver
  <2>1. DInv'
    BY <1>5, HandOverKeepsD
  <2>2. active' = active
    BY <1>5 DEF HandOver, MicrophoneOpened, MicrophoneReleased, recorder, vars, inner
  <2>3. CASE MicrophoneOpened
    <3>1. Moved(Detector, "ready", th[Detector].rec)
      <4>1. /\ TypeOK /\ Calm /\ Detector \in Threads /\ th[Detector].at = "ready"
            /\ "ready" \in Places /\ "ready" \notin Telling \cup Resting
        BY <1>1, <1>5, Kinds, CallersPlaces DEF IInv, HandOver, At, Plain
      <4> QED BY <2>3, <4>1, AnnouncesMoves DEF MicrophoneOpened
    <3>2. \A u \in Threads : u # Detector => th'[u] = th[u] \/ th'[u].at \in Resting
      BY <3>1 DEF Moved, Left
    <3> QED BY <2>1, <2>2, <3>2, Kinds DEF EndsOwn, Resting
  <2>4. CASE MicrophoneReleased /\ ReleasedCounts
    <3>1. active' # 0
      BY <2>2, <2>4 DEF ReleasedCounts, CallRecords
    <3> QED BY <2>1, <3>1 DEF EndsOwn
  <2>5. CASE UNCHANGED recorder
    <3>1. UNCHANGED <<active, th>>
      BY <2>5 DEF recorder, vars, inner
    <3> QED BY <2>1, <3>1 DEF EndsOwn
  <2> QED BY <1>5, <2>3, <2>4, <2>5 DEF HandOver
<1>6. ASSUME NEW c \in Callers, RecordFromPrompt(c) PROVE DInv' /\ EndsOwn
  <2>1. DInv'
    BY <1>6, RecordKeepsD
  <2>2. active' = active /\ \A u \in Threads : u = Caller(c) \/ th'[u] = th[u]
    BY <1>1, <1>6 DEF RecordFromPrompt, AsksToStart, inner, IInv, TypeOK
  <2> QED BY <2>1, <2>2, Kinds DEF EndsOwn
<1> QED BY <1>2, <1>3, <1>4, <1>5, <1>6 DEF DetectionNext

\* What is true of every reachable state of the recorder and the detection.
THEOREM DetectionInvariant == DetectionSpec => []DInv
<1>1. DetectionInit => DInv
  BY InitDInv
<1>2. DInv /\ [DetectionNext]_allVars => DInv'
  BY DetectionNextKeeps
<1> QED BY <1>1, <1>2, PTL DEF DetectionSpec

\* The detection's state has its types, the recorder's beside it.
THEOREM DetectionTypeCorrect == DetectionSpec => []DetectionTypeOK
<1>1. DInv => DetectionTypeOK
  BY DEF DInv, IInv, DetectionTypes, DetectionTypeOK, Events
<1> QED BY <1>1, DetectionInvariant, PTL

\* A prompt that is up while a recording is under way is about to be taken
\* down, whatever overtook what (handle, recorder_changed).
THEOREM PromptsComeDown == DetectionSpec => []PromptComesDown
<1>1. DInv => PromptComesDown
  BY DEF DInv
<1> QED BY <1>1, DetectionInvariant, PTL

\* The armed countdown is that of the call in progress, and no other is left
\* to end anything (CallWatch::disarm, reset, arm).
THEOREM ArmedCountdownsAreTheirCalls == DetectionSpec => []ArmedCountdownIsItsCalls
<1>1. DInv => ArmedCountdownIsItsCalls
  BY DEF DInv, Theirs, CallWatch, ArmedCountdownIsItsCalls, At
<1> QED BY <1>1, DetectionInvariant, PTL

\* The notices of a recording move no countdown of another's: their thread
\* is joined before the next may record (finish_stop, follow_the_notices).
THEOREM NoticesMoveTheirOwn == DetectionSpec => []NoticesAreTheirOwn
<1>1. ASSUME DInv PROVE NoticesAreTheirOwn
  <2>1. Owners /\ Following
    BY <1>1 DEF DInv, IInv, Theirs
  <2>2. \A t \in Threads : Placed(t) \in Carrying => active = 0
    BY <2>1 DEF Owners, Carrying, Beginning, Ending
  <2> QED BY <2>1, <2>2 DEF NoticesAreTheirOwn, Following, At
<1> QED BY <1>1, DetectionInvariant, PTL

\* While the capture recovers, the countdown a release armed ends nothing
\* (postpone).
THEOREM RecoveriesPostpone == DetectionSpec => RecoveryPostpones
<1>1. DInv /\ [DetectionNext]_allVars =>
        [\A n \in Countdowns :
           active # 0 /\ active' = 0 /\ At(Countdown(n), "out") /\ ~At(Countdown(n), "out")'
             => ~(outage[active].recovering /\ calls.postponable)]_allVars
  BY DetectionNextKeeps DEF EndsOwn
<1> QED BY <1>1, DetectionInvariant, PTL DEF DetectionSpec, RecoveryPostpones

\* With the microphone's activity too, a watcher and a countdown end no
\* recording but their own (stop_recording, call_ended).
THEOREM DetectedStopsAreOfTheirOwn == DetectionSpec => StopsEndTheirOwn
<1>1. DInv /\ [DetectionNext]_allVars =>
        [\A t \in Threads :
           t[1] \in {"watch", "countdown"} /\ active' = 0 /\ th'[t].at = "announce"
             /\ th'[t].why # th[t].why
             => th[t].rec = active]_vars
  BY DetectionNextKeeps DEF EndsOwn
<1> QED BY <1>1, DetectionInvariant, PTL DEF DetectionSpec, StopsEndTheirOwn

\* The recorder's own promises hold beside the detection (IdleGate::try_hold,
\* stop_for_quit, notify, run_tone_test, HeldStarts::drop).
THEOREM RecorderHoldsBesideDetection ==
  DetectionSpec => [](/\ InstallStopsNoRecording /\ QuitLeavesNothing /\ LiveFlagFollows
                      /\ NoToneInARecording /\ TestsAreToldToStop /\ RefusalGoesWithItsHold)
<1>1. IInv => InstallStopsNoRecording
  BY Kinds DEF IInv, Holding, InstallStopsNoRecording, At, Placed, PlaceOf, Telling, Resting
<1>2. IInv => QuitLeavesNothing
  BY Kinds DEF IInv, Leaving, Owners, QuitLeavesNothing, At, Placed, PlaceOf, Busy, Telling, Resting
<1>3. IInv => LiveFlagFollows /\ NoToneInARecording /\ TestsAreToldToStop /\ RefusalGoesWithItsHold
  BY DEF IInv, Silence
<1>4. DInv => /\ InstallStopsNoRecording /\ QuitLeavesNothing /\ LiveFlagFollows
              /\ NoToneInARecording /\ TestsAreToldToStop /\ RefusalGoesWithItsHold
  BY <1>1, <1>2, <1>3 DEF DInv
<1> QED BY <1>4, DetectionInvariant, PTL
=============================================================================
