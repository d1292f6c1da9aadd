---------------------------- MODULE RecorderProofs ----------------------------
(***************************************************************************)
(* Proofs about Recorder, for any callers, exits, tests and installers and *)
(* every bound.  They hold beside the detection, which feeds the recorder  *)
(* the microphone's activity (CallDetectionProofs): no lemma takes for     *)
(* granted that no countdown is armed.                                     *)
(***************************************************************************)
EXTENDS Recorder, FiniteSetTheorems, TLAPS

-----------------------------------------------------------------------------
(* Threads and what moves them.                                             *)

ThreadType ==
  [at : Places, then : Places, rec : 0..MaxStarts,
   why : {"none", "manual", "quit", "callEnded", "deviceLost", "failed"},
   mode : Modes \cup {"none", "call"}, app : BOOLEAN, tries : 0..CommitAttempts]

RecordingType ==
  [session : {"none", "open", "runs", "failed", "stopped", "dropped"},
   lost : BOOLEAN, spoiled : BOOLEAN, mode : Modes \cup {"none", "call"},
   row : {"none", "recording", "queued", "failed"}, overTone : BOOLEAN]

CallsType == [seen : BOOLEAN, armed : 0..(2 * MaxReleases), postponable : BOOLEAN]

\* A thread at one of these tells of a change, and goes on to its `then`.
Telling == {"announce", "hook"}

\* A countdown at one of these does nothing: it sleeps, was cancelled, or was
\* never spawned.
Resting == {"none", "asleep", "ended"}

\* Where a thread stands: what tells of a change counts as what follows, and
\* what does nothing as ended.
PlaceOf(x) ==
  LET place == IF x.at \in Telling THEN x.then ELSE x.at
  IN  IF place \in Resting THEN "ended" ELSE place
Placed(t) == PlaceOf(th[t])

\* A thread that another's step leaves alone, but for a countdown that is
\* armed or cancelled.
Left(u) ==
  \/ th'[u] = th[u]
  \/ /\ u[1] = "countdown" /\ th[u].at \in Resting /\ th'[u].at \in Resting
     /\ th'[u].then = th[u].then

\* A step moves t to place p, about recording r, and no other thread.
Moved(t, p, r) ==
  /\ th' \in [Threads -> ThreadType]
  /\ PlaceOf(th'[t]) = p /\ th'[t].rec = r /\ th'[t].then \notin Telling
  /\ \A u \in Threads : u # t => Left(u)

\* A countdown that may be postponed leaves room for the one that follows it.
Room == calls.armed # 0 /\ calls.postponable => arms < 2 * MaxReleases

\* What tells of a change goes on to something else, and the notice threads
\* only follow their notices.
Calm ==
  /\ \A t \in Threads : th[t].then \notin Telling
  /\ \A r \in Recordings : Placed(Notices(r)) \in {"following", "resuming", "ended"}
  /\ Room

\* The threads of each kind are threads, and each kind is its own.
LEMMA Kinds ==
  /\ \A c \in Callers : Caller(c) \in Threads /\ Caller(c)[1] = "call"
  /\ \A r \in Recordings : Watcher(r) \in Threads /\ Notices(r) \in Threads
       /\ Watcher(r)[1] = "watch" /\ Notices(r)[1] = "notices"
  /\ \A n \in Countdowns : Countdown(n) \in Threads /\ Countdown(n)[1] = "countdown"
  /\ \A i \in Installers : Installer(i) \in Threads /\ Installer(i)[1] = "install"
  /\ \A x \in Exits : Exit(x) \in Threads /\ Exit(x)[1] = "exit"
  /\ Detector \in Threads /\ Detector[1] = "detect"
BY DEF Threads, Caller, Watcher, Notices, Countdown, Installer, Exit, Detector

\* A thread left alone stands where it stood, and tells what it told.
LEMMA LeftStays ==
  ASSUME NEW u, Left(u)
  PROVE  /\ Placed(u)' = Placed(u) /\ th'[u].then = th[u].then
         /\ u[1] # "countdown" => th'[u] = th[u]
         /\ Placed(u) # "ended" => th'[u] = th[u]
         /\ th[u].at \in Telling => th'[u] = th[u]
BY DEF Left, Placed, PlaceOf, Resting, Telling

\* What a move leaves alone, told once.
LEMMA MovedIs ==
  ASSUME NEW t \in Threads, NEW p, NEW r, Moved(t, p, r)
  PROVE  /\ th' \in [Threads -> ThreadType] /\ Placed(t)' = p /\ th'[t].rec = r
         /\ th'[t].then \notin Telling
         /\ \A u \in Threads : u # t =>
              /\ Placed(u)' = Placed(u) /\ th'[u].then = th[u].then
              /\ u[1] # "countdown" => th'[u] = th[u]
              /\ Placed(u) # "ended" => th'[u] = th[u]
              /\ th[u].at \in Telling => th'[u] = th[u]
<1>1. \A u \in Threads : u # t => Left(u)
  BY DEF Moved
<1> QED BY <1>1, LeftStays DEF Moved, Placed

\* disarm() cancels the armed countdown where it sleeps, and nothing else.
LEMMA DisarmedIs ==
  ASSUME TypeOK, NEW threads \in [Threads -> ThreadType]
  PROVE  /\ Disarmed(threads) \in [Threads -> ThreadType]
         /\ \A u \in Threads :
              \/ Disarmed(threads)[u] = threads[u]
              \/ /\ calls.armed # 0 /\ u = Countdown(calls.armed) /\ threads[u].at = "asleep"
                 /\ Disarmed(threads)[u] = [threads[u] EXCEPT !.at = "ended"]
         /\ calls.armed # 0 => Disarmed(threads)[Countdown(calls.armed)].at # "asleep"
<1> DEFINE n == calls.armed
           u == Countdown(n)
<1>1. n # 0 => n \in Countdowns /\ u \in Threads
  BY Kinds, RecorderAssumption DEF TypeOK, Countdowns
<1>2. CASE n # 0 /\ threads[u].at = "asleep"
  <2>1. Disarmed(threads) = [threads EXCEPT ![u] = [threads[u] EXCEPT !.at = "ended"]]
    BY <1>2 DEF Disarmed
  <2>2. [threads[u] EXCEPT !.at = "ended"] \in ThreadType
    BY <1>1, <1>2 DEF ThreadType, Places
  <2>3. [threads[u] EXCEPT !.at = "ended"].at = "ended"
    <3>1. threads[u] \in ThreadType
      BY <1>1, <1>2
    <3> QED BY <3>1 DEF ThreadType
  <2> QED BY <1>1, <1>2, <2>1, <2>2, <2>3
<1>3. CASE ~(n # 0 /\ threads[u].at = "asleep")
  BY <1>3 DEF Disarmed
<1> QED BY <1>2, <1>3

\* What is left of the auto-stop once its countdown is gone.
LEMMA CallsAre ==
  ASSUME calls \in CallsType
  PROVE  /\ NoCountdown \in CallsType /\ NoCountdown.armed = 0
         /\ KeptRecording \in CallsType /\ KeptRecording.armed = 0
         /\ Forgotten \in CallsType /\ Forgotten.armed = 0
         /\ [NoCountdown EXCEPT !.seen = TRUE] \in CallsType
         /\ [NoCountdown EXCEPT !.seen = TRUE].armed = 0
<1>1. 0 \in 0..(2 * MaxReleases)
  BY RecorderAssumption
<1>2. NoCountdown \in CallsType /\ NoCountdown.armed = 0
  BY <1>1 DEF NoCountdown, CallsType
<1>3. Forgotten \in CallsType /\ Forgotten.armed = 0
  BY <1>1 DEF Forgotten, CallsType
<1> QED BY <1>2, <1>3 DEF KeptRecording, CallsType

\* A thread that goes on moves alone.
LEMMA GoesMoves ==
  ASSUME TypeOK, Calm, NEW t \in Threads, NEW p \in Places, p \notin Telling \cup {"none", "asleep"},
         Goes(t, p)
  PROVE  Moved(t, p, th[t].rec) /\ th'[t].at = p
<1>1. th \in [Threads -> ThreadType] /\ th[t] \in ThreadType
  BY DEF TypeOK, ThreadType
<1>2. [th[t] EXCEPT !.at = p] \in ThreadType
  BY <1>1 DEF ThreadType
<1>3. th' = [th EXCEPT ![t] = [th[t] EXCEPT !.at = p]]
  BY DEF Goes
<1>4. th'[t].at = p /\ th'[t].rec = th[t].rec /\ th'[t].then = th[t].then
  BY <1>1, <1>3 DEF ThreadType
<1> QED BY <1>1, <1>2, <1>3, <1>4 DEF Moved, PlaceOf, Calm, Resting, Left

\* A thread that announces a change, the armed countdown cancelled with it:
\* what becomes of it and of the others.
LEMMA AnnouncedIs ==
  ASSUME TypeOK, NEW t \in Threads, NEW p \in Places
  PROVE  LET after == Disarmed(Announces(t, p))
         IN  /\ after \in [Threads -> ThreadType]
             /\ after[t].at = "announce" /\ after[t].then = p
             /\ after[t].rec = th[t].rec /\ after[t].why = th[t].why
             /\ \A u \in Threads : u # t =>
                  \/ after[u] = th[u]
                  \/ /\ u[1] = "countdown" /\ th[u].at = "asleep"
                     /\ after[u].at = "ended" /\ after[u].then = th[u].then
                     /\ calls.armed # 0 /\ u = Countdown(calls.armed)
             /\ calls.armed # 0 => after[Countdown(calls.armed)].at # "asleep"
<1>1. th \in [Threads -> ThreadType] /\ th[t] \in ThreadType
  BY DEF TypeOK, ThreadType
<1> DEFINE x == [th[t] EXCEPT !.at = "announce", !.then = p]
           threads == Announces(t, p)
           after == Disarmed(threads)
<1>2. threads = [th EXCEPT ![t] = x] /\ "announce" \in Places
  BY <1>1 DEF Announces, Places
<1>3. x \in ThreadType /\ x.at = "announce" /\ x.then = p /\ x.rec = th[t].rec /\ x.why = th[t].why
  BY <1>1, <1>2 DEF ThreadType
<1> HIDE DEF x
<1>4. threads \in [Threads -> ThreadType] /\ threads[t] = x
      /\ \A u \in Threads : u # t => threads[u] = th[u]
  BY <1>1, <1>2, <1>3
<1> HIDE DEF threads
<1>6. /\ after \in [Threads -> ThreadType] /\ after[t] = x
      /\ calls.armed # 0 => after[Countdown(calls.armed)].at # "asleep"
  BY <1>3, <1>4, DisarmedIs
<1>7. ASSUME NEW u \in Threads, u # t
      PROVE  \/ after[u] = th[u]
             \/ /\ u[1] = "countdown" /\ th[u].at = "asleep"
                /\ after[u].at = "ended" /\ after[u].then = th[u].then
                /\ calls.armed # 0 /\ u = Countdown(calls.armed)
  <2>1. th[u] \in ThreadType /\ threads[u] = th[u]
    BY <1>1, <1>4, <1>7
  <2>2. [th[u] EXCEPT !.at = "ended"].at = "ended" /\ [th[u] EXCEPT !.at = "ended"].then = th[u].then
    BY <2>1 DEF ThreadType
  <2>3. Countdown(calls.armed)[1] = "countdown"
    BY DEF Countdown
  <2>4. \/ after[u] = threads[u]
        \/ /\ calls.armed # 0 /\ u = Countdown(calls.armed) /\ threads[u].at = "asleep"
           /\ after[u] = [threads[u] EXCEPT !.at = "ended"]
    BY <1>4, <1>7, DisarmedIs
  <2> QED BY <2>1, <2>2, <2>3, <2>4
<1> HIDE DEF after
<1>8. /\ after[t].at = "announce" /\ after[t].then = p
      /\ after[t].rec = th[t].rec /\ after[t].why = th[t].why
  BY <1>3, <1>6
<1> QED BY <1>6, <1>7, <1>8 DEF after, threads

\* A thread that is about to announce counts as where it goes from there,
\* whether or not it cancels a countdown first.
LEMMA AnnouncesMoves ==
  ASSUME TypeOK, Calm, NEW t \in Threads, NEW p \in Places, p \notin Telling \cup {"none", "asleep"},
         th' = Announces(t, p) \/ th' = Disarmed(Announces(t, p))
  PROVE  Moved(t, p, th[t].rec) /\ th'[t].at = "announce"
<1>1. CASE th' = Announces(t, p)
  <2>1. th \in [Threads -> ThreadType] /\ th[t] \in ThreadType
    BY DEF TypeOK, ThreadType
  <2> DEFINE x == [th[t] EXCEPT !.at = "announce", !.then = p]
  <2>2. th' = [th EXCEPT ![t] = x]
    BY <1>1, <2>1 DEF Announces
  <2>5. "announce" \in Places
    BY DEF Places
  <2>3. x \in ThreadType /\ x.at = "announce" /\ x.then = p /\ x.rec = th[t].rec
    BY <2>1, <2>5 DEF ThreadType
  <2> HIDE DEF x
  <2>4. th' \in [Threads -> ThreadType] /\ th'[t] = x /\ \A u \in Threads : u # t => th'[u] = th[u]
    BY <2>1, <2>2, <2>3
  <2> QED BY <2>3, <2>4 DEF Moved, PlaceOf, Telling, Resting, Left
<1>2. CASE th' = Disarmed(Announces(t, p))
  <2>1. /\ th' \in [Threads -> ThreadType]
        /\ th'[t].at = "announce" /\ th'[t].then = p /\ th'[t].rec = th[t].rec
        /\ \A u \in Threads : u # t => Left(u)
    BY <1>2, AnnouncedIs DEF Left, Resting
  <2> QED BY <2>1 DEF Moved, PlaceOf, Telling, Resting
<1> QED BY <1>1, <1>2

\* A thread that has told of a change, or tells the detection of it, stands
\* where it counted as standing.
LEMMA ToldMoves ==
  ASSUME TypeOK, Calm, NEW t \in Threads, th[t].at \in Telling,
         th' = Through(t, th[t].then) \/ th' = [th EXCEPT ![t].at = "hook"]
  PROVE  /\ Moved(t, Placed(t), th'[t].rec)
         /\ Placed(t) \notin {"ready", "gone", "ended"} => th'[t].rec = th[t].rec
         /\ th'[t].at = "hook" \/ th'[t].at \notin Telling
<1>1. th \in [Threads -> ThreadType] /\ th[t] \in ThreadType /\ th[t].then \notin Telling
  BY DEF TypeOK, ThreadType, Calm
<1> DEFINE p == th[t].then
           x == IF p \in {"ready", "gone", "ended"} THEN [NoThread EXCEPT !.at = p]
                                                    ELSE [th[t] EXCEPT !.at = p, !.then = "none"]
           y == [th[t] EXCEPT !.at = "hook"]
<1>2. th' = [th EXCEPT ![t] = x] \/ th' = [th EXCEPT ![t] = y]
  BY <1>1 DEF Through
<1>3. p \in Places /\ "none" \in Places /\ "none" \notin Telling /\ "hook" \in Places
  BY <1>1 DEF ThreadType, Places, Telling
<1>4. NoThread \in ThreadType
  BY <1>3, RecorderAssumption DEF NoThread, ThreadType
<1>5. x \in ThreadType /\ y \in ThreadType
  BY <1>1, <1>3, <1>4 DEF ThreadType
<1>6. /\ x.at = p /\ x.then = "none" /\ (p \notin {"ready", "gone", "ended"} => x.rec = th[t].rec)
      /\ y.at = "hook" /\ y.then = p /\ y.rec = th[t].rec
  BY <1>1, <1>3 DEF NoThread, ThreadType
<1>7. /\ Placed(t) = (IF p \in Resting THEN "ended" ELSE p)
      /\ PlaceOf(x) = Placed(t) /\ PlaceOf(y) = Placed(t)
  BY <1>1, <1>6 DEF Placed, PlaceOf, Telling
<1> HIDE DEF x, y
<1>8. th'[t] \in {x, y} /\ th' \in [Threads -> ThreadType] /\ \A u \in Threads : u # t => Left(u)
  BY <1>1, <1>2, <1>5 DEF Left
<1>9. Placed(t) \notin {"ready", "gone", "ended"} => p \notin {"ready", "gone", "ended"}
  BY <1>7 DEF Resting
<1> QED BY <1>1, <1>3, <1>6, <1>7, <1>8, <1>9 DEF Moved

\* A thread that begins a stop owns the recorder.
LEMMA BeginsStopMoves ==
  ASSUME TypeOK, Calm, NEW t \in Threads,
         NEW why \in {"manual", "quit", "callEnded", "deviceLost", "failed"}, BeginsStop(t, why)
  PROVE  /\ Moved(t, "stopSession", active) /\ th'[t].at = "announce" /\ th'[t].why = why
         /\ state' = "stopping" /\ active' = 0 /\ calls' = Forgotten
         /\ \A u \in Threads :
              u # t => th'[u] = th[u] \/ (th[u].at = "asleep" /\ th'[u].at = "ended")
         /\ calls.armed # 0 => th'[Countdown(calls.armed)].at # "asleep"
<1> DEFINE after == Disarmed(Announces(t, "stopSession"))
           y == after[t]
           x == [y EXCEPT !.rec = active, !.why = why, !.tries = 0]
<1>1. "stopSession" \in Places /\ 0 \in 0..CommitAttempts /\ active \in 0..MaxStarts
  BY RecorderAssumption DEF Places, TypeOK
<1>2. /\ after \in [Threads -> ThreadType] /\ y \in ThreadType
      /\ y.at = "announce" /\ y.then = "stopSession"
      /\ \A u \in Threads : u # t =>
           \/ after[u] = th[u]
           \/ /\ u[1] = "countdown" /\ th[u].at = "asleep"
              /\ after[u].at = "ended" /\ after[u].then = th[u].then
      /\ calls.armed # 0 => after[Countdown(calls.armed)].at # "asleep"
  BY <1>1, AnnouncedIs
<1>3. th' = [after EXCEPT ![t].rec = active, ![t].why = why, ![t].tries = 0]
  BY DEF BeginsStop
<1> HIDE DEF after
<1>4. th' = [after EXCEPT ![t] = x]
  BY <1>2, <1>3
<1>5. x \in ThreadType /\ x.at = "announce" /\ x.then = "stopSession" /\ x.rec = active /\ x.why = why
  BY <1>1, <1>2 DEF ThreadType
<1> HIDE DEF x
<1>6. th' \in [Threads -> ThreadType] /\ th'[t] = x /\ \A u \in Threads : u # t => th'[u] = after[u]
  BY <1>2, <1>4, <1>5
<1>7. \A u \in Threads : u # t => Left(u)
  BY <1>2, <1>6 DEF Left, Resting
<1>8. calls.armed # 0 => Countdown(calls.armed) \in Threads
  BY Kinds, RecorderAssumption DEF TypeOK, Countdowns
<1>9. Moved(t, "stopSession", active) /\ th'[t].at = "announce" /\ th'[t].why = why
  BY <1>5, <1>6, <1>7 DEF Moved, PlaceOf, Telling, Resting
<1>10. \A u \in Threads : u # t => th'[u] = th[u] \/ (th[u].at = "asleep" /\ th'[u].at = "ended")
  BY <1>2, <1>6
<1>11. calls.armed # 0 => th'[Countdown(calls.armed)].at # "asleep"
  BY <1>2, <1>6, <1>8, <1>9
<1> QED BY <1>9, <1>10, <1>11 DEF BeginsStop

\* A countdown that is armed in the place of another, or a recording that is
\* kept because none could be spawned (arm_auto_stop).
LEMMA ArmsMoves ==
  ASSUME TypeOK, Calm, NEW t \in Threads, NEW p \in Places, p \notin Telling \cup {"none", "asleep"},
         NEW postponable \in BOOLEAN, Arms(t, p, postponable),
         arms < 2 * MaxReleases, th[Countdown(arms + 1)].at = "none", t # Countdown(arms + 1)
  PROVE  /\ Moved(t, p, th[t].rec) /\ th'[t].at = "announce" /\ th'[t].then = p
         /\ arms' = arms + 1 /\ arms' \in 0..(2 * MaxReleases) /\ calls' \in CallsType
         /\ \/ /\ calls' = [calls EXCEPT !.armed = arms + 1, !.postponable = postponable]
               /\ th'[Countdown(arms + 1)].at = "asleep" /\ th'[Countdown(arms + 1)].rec = active
            \/ calls' = KeptRecording /\ th'[Countdown(arms + 1)].at = "none"
         /\ \A u \in Threads : u # t /\ u # Countdown(arms + 1) =>
              th'[u] = th[u] \/ (th[u].at = "asleep" /\ th'[u].at = "ended")
         /\ calls.armed # 0 /\ calls.armed # arms + 1 => th'[Countdown(calls.armed)].at # "asleep"
<1> DEFINE n == arms + 1
           w == Countdown(n)
           after == Disarmed(Announces(t, p))
           x == [after[w] EXCEPT !.at = "asleep", !.rec = active]
<1>a. arms \in 0..(2 * MaxReleases) /\ calls \in CallsType /\ active \in 0..MaxStarts /\ arms' = n
  BY DEF TypeOK, CallsType, Arms
<1>b. n \in 1..(2 * MaxReleases) /\ n # 0
  BY <1>a, RecorderAssumption
<1>1. /\ n \in 1..(2 * MaxReleases) /\ w \in Threads /\ w[1] = "countdown"
      /\ calls \in CallsType /\ active \in 0..MaxStarts /\ n # 0 /\ arms' = n
  BY <1>a, <1>b, Kinds DEF Countdowns
<1>2. /\ after \in [Threads -> ThreadType]
      /\ after[t].at = "announce" /\ after[t].then = p /\ after[t].rec = th[t].rec
      /\ \A u \in Threads : u # t =>
           \/ after[u] = th[u]
           \/ /\ u[1] = "countdown" /\ th[u].at = "asleep"
              /\ after[u].at = "ended" /\ after[u].then = th[u].then
      /\ after[w] = th[w]
      /\ calls.armed # 0 => after[Countdown(calls.armed)].at # "asleep"
  BY <1>1, AnnouncedIs
<1>3. /\ x \in ThreadType /\ x.at = "asleep" /\ x.then = th[w].then /\ x.rec = active
  <2>1. after[w] \in ThreadType /\ "asleep" \in Places
    BY <1>1, <1>2 DEF Places
  <2> QED BY <1>1, <1>2, <2>1 DEF ThreadType
<1>4. \/ calls' = [calls EXCEPT !.armed = n, !.postponable = postponable]
         /\ th' = [after EXCEPT ![w].at = "asleep", ![w].rec = active]
      \/ calls' = KeptRecording /\ th' = after
  BY DEF Arms
<1> HIDE DEF after
<1>5. \/ calls' = [calls EXCEPT !.armed = n, !.postponable = postponable] /\ th' = [after EXCEPT ![w] = x]
      \/ calls' = KeptRecording /\ th' = after
  BY <1>1, <1>2, <1>4
<1> HIDE DEF x
<1>6. /\ th' \in [Threads -> ThreadType] /\ th'[t] = after[t]
      /\ \A u \in Threads : u # w => th'[u] = after[u]
      /\ th'[w] = x \/ th'[w] = th[w]
  BY <1>1, <1>2, <1>3, <1>5
<1>7. \A u \in Threads : u # t => Left(u)
  BY <1>1, <1>2, <1>3, <1>6 DEF Left, Resting
<1>8. calls' \in CallsType
  <2>1. n \in 0..(2 * MaxReleases) /\ 0 \in 0..(2 * MaxReleases)
    BY <1>1, RecorderAssumption
  <2>2. [calls EXCEPT !.armed = n, !.postponable = postponable] \in CallsType
    BY <1>1, <2>1 DEF CallsType
  <2>3. KeptRecording = [calls EXCEPT !.armed = 0, !.postponable = FALSE, !.seen = FALSE]
    BY DEF KeptRecording, NoCountdown
  <2>4. KeptRecording \in CallsType
    BY <1>1, <2>1, <2>3 DEF CallsType
  <2> QED BY <1>5, <2>2, <2>4
<1>9. calls.armed # 0 => Countdown(calls.armed) \in Threads
  BY Kinds, RecorderAssumption DEF TypeOK, Countdowns
<1>10. calls.armed # n => Countdown(calls.armed) # w
  BY DEF Countdown
<1>11. Moved(t, p, th[t].rec) /\ th'[t].at = "announce" /\ th'[t].then = p
  BY <1>2, <1>6, <1>7 DEF Moved, PlaceOf, Telling, Resting
<1>12. \/ calls' = [calls EXCEPT !.armed = n, !.postponable = postponable] /\ th'[w] = x
       \/ calls' = KeptRecording /\ th'[w] = th[w]
  BY <1>1, <1>2, <1>5
<1> QED BY <1>1, <1>2, <1>3, <1>6, <1>8, <1>9, <1>10, <1>11, <1>12


\* A caller that asks to start has the next start's number.
LEMMA AsksToStartMoves ==
  ASSUME TypeOK, NEW c \in Callers, NEW mode \in Modes \cup {"call"}, NEW app \in BOOLEAN,
         AsksToStart(c, mode, app)
  PROVE  /\ Moved(Caller(c), "start", starts + 1) /\ th'[Caller(c)].at = "start"
         /\ starts + 1 \in Recordings /\ starts' \in 0..MaxStarts
<1>1. th \in [Threads -> ThreadType] /\ Caller(c) \in Threads /\ starts \in 0..MaxStarts
  BY Kinds DEF TypeOK, ThreadType
<1> DEFINE x == [NoThread EXCEPT !.at = "start", !.rec = starts + 1, !.mode = mode, !.app = app]
<1>2. th' = [th EXCEPT ![Caller(c)] = x] /\ starts < MaxStarts /\ starts' = starts + 1
  BY DEF AsksToStart
<1>3. "start" \in Places /\ "none" \in Places /\ 0 \in 0..CommitAttempts
      /\ starts + 1 \in 1..MaxStarts /\ starts + 1 \in 0..MaxStarts
      /\ mode \in Modes \cup {"none", "call"}
  BY <1>1, <1>2, RecorderAssumption DEF Places
<1>4. x \in ThreadType /\ x.at = "start" /\ x.then = "none" /\ x.rec = starts + 1
  BY <1>3 DEF NoThread, ThreadType
<1> QED BY <1>1, <1>2, <1>3, <1>4 DEF Moved, PlaceOf, Recordings, Telling, Resting, Left
-----------------------------------------------------------------------------
(* The inductive invariant.                                                 *)

Beginning == {"tones", "toneWait", "open", "begin", "session", "record", "refuse"}
Ending == {"stopSession", "recover", "save", "join", "toIdle"}
Toned == {"open", "begin", "session", "record"}
Held == {"look", "held", "drop"}

\* A place that gives its thread nothing the parts below speak of.
Plain == Places \ (Beginning \cup Ending \cup Held \cup
                   {"start", "watcher", "settle", "gone", "cancelTests", "none", "asleep"} \cup Telling)

\* One start or stop has the recorder, and only while the state says so.
Owners ==
  /\ \A t \in Threads : Placed(t) \in Beginning => state = "starting"
  /\ \A t \in Threads : Placed(t) \in Beginning \cup {"start", "watcher"} => th[t].rec \in Recordings
  /\ \A t \in Threads : Placed(t) \in Ending => state = "stopping"
  /\ \A t, u \in Threads :
       Placed(t) \in Beginning \cup Ending /\ Placed(u) \in Beginning \cup Ending => t = u
  /\ active # 0 <=> state = "recording"

\* The installers whose HeldStarts lives; `holds` counts them.
Holders == {i \in Installers : Placed(Installer(i)) \in Held}

Holding ==
  /\ IsFiniteSet(Holders) /\ holds = Cardinality(Holders)
  /\ \A i \in Installers : Placed(Installer(i)) = "held" => ~Busy

\* An exit that waits or stops has told the recorder to quit, and one that
\* is over has left it idle.
Leaving ==
  /\ \A x \in Exits : Placed(Exit(x)) \in Ending \cup {"settle", "gone"} => quitting
  /\ \A x \in Exits : Placed(Exit(x)) = "gone" => state = "idle"

\* A start that is past its wait has the tests' end, or is marked.
Silence ==
  /\ \A t \in Threads :
       Placed(t) \in Toned => tone.running = {} \/ rec[th[t].rec].overTone
  /\ NoToneInARecording

IInv ==
  /\ TypeOK /\ Calm /\ Owners /\ Holding /\ Leaving /\ Silence
  /\ LiveFlagFollows /\ RefusalGoesWithItsHold /\ TestsAreToldToStop

\* The places where a thread has a recording that is not, or no longer, the
\* recorder's `active`: its notice thread may run.
Carrying == {"record", "stopSession", "recover", "save", "join"}

\* The notice thread of a recording runs only while somebody has it.
Following ==
  \A r \in Recordings : th[Notices(r)].at \notin {"none", "ended"} =>
    active = r \/ \E t \in Threads : Placed(t) \in Carrying /\ th[t].rec = r

\* The armed countdown is that of the call in progress, and has still to
\* decide; every other was cancelled, or was not spawned yet.
CallWatch ==
  /\ \A n \in Countdowns : /\ n > arms => th[Countdown(n)].at = "none"
                           /\ th[Countdown(n)].then # "asleep"
  /\ calls.armed # 0 =>
       /\ CallRecords /\ calls.seen
       /\ th[Countdown(calls.armed)].at \in {"asleep", "out"}
       /\ th[Countdown(calls.armed)].rec = active
  /\ \A n \in Countdowns : th[Countdown(n)].at = "asleep" => calls.armed = n

\* A start, from the command until its watcher is spawned.
Upcoming == {"start", "watcher"} \cup Beginning

\* Each start has a recording of its own, whose watcher is not spawned yet;
\* one that watches, watches its own.
Fresh ==
  /\ \A r \in Recordings : r > starts => th[Watcher(r)].at = "none"
  /\ \A t \in Threads : Placed(t) \in Upcoming =>
       t[1] = "call" /\ th[t].rec <= starts /\ th[Watcher(th[t].rec)].at = "none"
  /\ \A t, u \in Threads :
       Placed(t) \in Upcoming /\ Placed(u) \in Upcoming /\ th[t].rec = th[u].rec => t = u
  /\ \A r \in Recordings :
       Placed(Watcher(r)) \in {"watching", "asking", "ending"} => th[Watcher(r)].rec = r

\* Each thread has its own: the notices, the countdowns and the watchers.
Theirs == CallWatch /\ Following /\ Fresh

\* The places, told apart once.
LEMMA PlainPlaces ==
  ASSUME NEW p \in Plain
  PROVE  /\ p \in Places /\ p \notin Beginning /\ p \notin Ending /\ p \notin Held
         /\ p \notin Toned /\ p # "gone" /\ p # "settle" /\ p # "start" /\ p # "watcher"
         /\ p # "cancelTests" /\ p # "held" /\ p \notin Telling \cup {"none", "asleep"}
BY DEF Plain, Beginning, Toned, Held

\* The invariant holds at the start.
LEMMA InitIInv == Init => IInv
<1> SUFFICES ASSUME Init PROVE IInv
  OBVIOUS
<1> USE DEF Init
<1>1. \A t \in Threads : /\ th[t].at \in {"ready", "none"} /\ th[t].then = "none"
                         /\ Placed(t) \in {"ready", "ended"}
  BY DEF NoThread, Placed, PlaceOf, Telling, Resting
<1>2. TypeOK
  <2>1. th \in [Threads -> ThreadType]
    <3>1. "none" \in Places /\ "ready" \in Places
      BY DEF Places
    <3>2. NoThread \in ThreadType
      BY <3>1, RecorderAssumption DEF ThreadType, NoThread
    <3>3. \A p \in {"none", "ready"} : [NoThread EXCEPT !.at = p] \in ThreadType
      BY <3>1, <3>2 DEF ThreadType
    <3> QED BY <3>3
  <2>2. rec \in [Recordings -> RecordingType]
    BY DEF RecordingType, NoRecording
  <2>3. capture \in [Recordings -> [changes : 0..MaxChanges, changing : BOOLEAN, warned : BOOLEAN]]
    BY RecorderAssumption DEF Steady
  <2>4. notices \in [Recordings -> Seq({"changed", "restarting", "resumed", "delivering"})]
    OBVIOUS
  <2>5. outage \in [Recordings -> [recovering : BOOLEAN, restarting : BOOLEAN]]
    BY DEF NoOutage
  <2>6. /\ active \in 0..MaxStarts /\ holds \in Nat
        /\ calls \in [seen : BOOLEAN, armed : 0..(2 * MaxReleases), postponable : BOOLEAN]
        /\ arms \in 0..(2 * MaxReleases) /\ sleepers \subseteq Threads
        /\ starts \in 0..MaxStarts /\ releases \in 0..MaxReleases /\ faults \in 0..MaxFaults
    BY RecorderAssumption
  <2> QED BY <2>1, <2>2, <2>3, <2>4, <2>5, <2>6 DEF TypeOK, ThreadType, RecordingType
<1>3. Calm
  <2>1. \A r \in Recordings : th[Notices(r)].at = "none"
    BY Kinds DEF NoThread
  <2>2. \A r \in Recordings : Placed(Notices(r)) = "ended"
    BY <2>1 DEF Placed, PlaceOf, Telling, Resting
  <2> QED BY <1>1, <2>2 DEF Calm, Room, Telling
<1>4. Owners
  BY <1>1 DEF Owners, Beginning, Ending
<1>5. Holding
  <2>1. Holders = {}
    BY <1>1, Kinds DEF Holders, Held
  <2> QED BY <1>1, <2>1, Kinds, FS_EmptySet DEF Holding
<1>6. Leaving
  BY <1>1, Kinds DEF Leaving, Ending
<1>7. Silence
  BY <1>1 DEF Silence, NoToneInARecording, Toned
<1>8. LiveFlagFollows /\ RefusalGoesWithItsHold /\ TestsAreToldToStop
  BY DEF LiveFlagFollows, Busy, RefusalGoesWithItsHold, TestsAreToldToStop
<1> QED BY <1>2, <1>3, <1>4, <1>5, <1>6, <1>7, <1>8 DEF IInv

-----------------------------------------------------------------------------
(* One thread moves.                                                        *)

\* A thread that moves among the places of one part, or to one that asks no
\* more than what holds, disturbs nothing while the state stays as it is.
LEMMA MoveKeeps ==
  ASSUME IInv, TypeOK', NEW t \in Threads, NEW p \in Places, NEW r, Moved(t, p, r),
         th[t].at \notin Held \cup Telling,
         t[1] = "notices" => p \in {"following", "resuming", "ended"},
         \/ p \in Plain \cup {"cancelTests"}
         \/ p = "start" /\ r \in Recordings
         \/ p = "settle" /\ quitting'
         \/ p = "gone" /\ quitting /\ state = "idle"
         \/ /\ p \in Beginning /\ th[t].at \in Beginning /\ r = th[t].rec
            /\ p \in Toned => th[t].at \in Toned \/ tone.running = {} \/ rec'[r].overTone
         \/ p \in Ending /\ th[t].at \in Ending,
         UNCHANGED <<state, active, holds, live>>, Room',
         quitting => quitting', tone'.running = tone.running,
         error' = "installing" => error = "installing" \/ holds > 0,
         \/ UNCHANGED <<quitting, refused, tone>>
            /\ th[t].at # "cancelTests" /\ th'[t].at # "cancelTests"
         \/ TestsAreToldToStop',
         state = "stopping" \/ \A q \in Recordings : rec[q].overTone => rec'[q].overTone
  PROVE  IInv'
<1>1. /\ Placed(t) = (IF th[t].at \in Resting THEN "ended" ELSE th[t].at)
      /\ Placed(t)' = p /\ th'[t].rec = r /\ th'[t].then \notin Telling
  BY MovedIs DEF Placed, PlaceOf
<1>12. \A u \in Threads : u # t =>
         /\ Placed(u)' = Placed(u) /\ th'[u].then = th[u].then
         /\ (u[1] # "countdown" => th'[u] = th[u])
         /\ (Placed(u) # "ended" => th'[u] = th[u])
         /\ (th[u].at \in Telling => th'[u] = th[u])
  BY MovedIs
<1>13. "ended" \notin Beginning \cup Ending \cup Held \cup {"start", "watcher", "settle", "gone"}
  BY DEF Beginning, Ending, Held
<1>14. th[t].at \in Beginning \cup Ending \cup Toned => Placed(t) = th[t].at
  BY <1>1 DEF Beginning, Ending, Toned, Resting
<1>2. p \in Plain => /\ p \notin Beginning /\ p \notin Ending /\ p \notin Held
                     /\ p \notin Toned /\ p \notin {"gone", "settle", "start", "watcher", "held"}
  BY PlainPlaces
<1>3. \A q : /\ q \in Beginning => q \notin Ending \cup Held \cup {"gone", "settle", "start", "watcher"}
             /\ q \in Ending => q \notin Beginning \cup Held \cup Toned
                                       \cup {"gone", "settle", "start", "watcher"}
             /\ q \in {"start", "settle", "gone", "cancelTests"} =>
                  q \notin Beginning \cup Ending \cup Held \cup Toned
             /\ q \in Toned => q \in Beginning
  BY DEF Beginning, Ending, Held, Toned
<1>4. Calm'
  BY <1>1, <1>12, Kinds DEF IInv, Calm
<1>5. Owners'
  <2>1. p \in Beginning => th[t].at \in Beginning /\ r = th[t].rec
    BY <1>2, <1>3
  <2>2. p \in Ending => th[t].at \in Ending
    BY <1>2, <1>3
  <2>3. p = "start" => r \in Recordings
    BY <1>2, <1>3
  <2>4. p # "watcher"
    BY <1>2, <1>3
  <2> QED BY <1>1, <1>12, <1>13, <1>14, <2>1, <2>2, <2>3, <2>4 DEF IInv, Owners
<1>6. Holding'
  <2>1. p \notin Held
    BY <1>2, <1>3
  <2>2. Holders' = Holders
    BY <1>1, <1>12, <1>13, <2>1, Kinds DEF Holders
  <2> QED BY <1>1, <1>12, <2>1, <2>2, Kinds DEF IInv, Holding, Busy, Held
<1>7. Leaving'
  <2>1. p \in Ending => th[t].at \in Ending
    BY <1>2, <1>3
  <2>2. p = "gone" => quitting /\ state = "idle"
    BY <1>2, <1>3
  <2>3. p = "settle" => quitting'
    BY <1>2, <1>3
  <2> QED BY <1>1, <1>12, <1>13, <1>14, <2>1, <2>2, <2>3, Kinds DEF IInv, Leaving
<1>8. Silence'
  <2>1. CASE state = "stopping"
    BY <1>5, <2>1 DEF Owners, Silence, NoToneInARecording, IInv, Toned, Beginning
  <2>2. CASE \A q \in Recordings : rec[q].overTone => rec'[q].overTone
    <3>1. \A u \in Threads : u # t /\ Placed(u)' \in Toned =>
                              Placed(u) \in Toned /\ th'[u].rec = th[u].rec
      BY <1>3, <1>12, <1>13
    <3>2. \A u \in Threads : Placed(u)' \in Toned => th'[u].rec \in Recordings
      BY <1>5 DEF Owners, Toned, Beginning
    <3>3. active # 0 => active \in Recordings
      BY RecorderAssumption DEF IInv, TypeOK, Recordings
    <3>4. p \in Toned => /\ th[t].at \in Toned \/ tone.running = {} \/ rec'[r].overTone
                         /\ r = th[t].rec
      BY <1>2, <1>3
    <3>5. \A u \in Threads :
            Placed(u)' \in Toned => tone.running = {} \/ rec'[th'[u].rec].overTone
      BY <1>1, <1>14, <2>2, <3>1, <3>2, <3>4 DEF IInv, Silence
    <3>6. NoToneInARecording'
      BY <2>2, <3>3 DEF IInv, Silence, NoToneInARecording
    <3> QED BY <3>5, <3>6 DEF Silence
  <2> QED BY <2>1, <2>2
<1>9. LiveFlagFollows'
  BY <1>12 DEF IInv, LiveFlagFollows, At, Busy, Telling
<1>10. RefusalGoesWithItsHold'
  BY DEF IInv, RefusalGoesWithItsHold
<1>11. TestsAreToldToStop'
  BY <1>12, Kinds DEF IInv, TestsAreToldToStop, At
<1> QED BY <1>4, <1>5, <1>6, <1>7, <1>8, <1>9, <1>10, <1>11 DEF IInv

\* A step that moves no thread and leaves the status alone disturbs nothing.
LEMMA Still ==
  ASSUME IInv, TypeOK', UNCHANGED <<inner, live, tone, refused, th>>, Room',
         \A r \in Recordings : rec'[r].overTone = rec[r].overTone
  PROVE  IInv'
<1>1. \A t \in Threads : Placed(t)' = Placed(t)
  BY DEF Placed
<1> USE DEF inner
<1>2. Calm' /\ Owners' /\ Leaving'
  BY <1>1, Kinds DEF IInv, Calm, Owners, Leaving
<1>3. Holding'
  <2>1. Holders' = Holders
    BY <1>1, Kinds DEF Holders
  <2> QED BY <1>1, <2>1, Kinds DEF IInv, Holding, Busy
<1>4. Silence'
  <2>1. \A t \in Threads : Placed(t) \in Toned => th[t].rec \in Recordings
    BY DEF IInv, Owners, Toned, Beginning
  <2>2. active # 0 => active \in Recordings
    BY RecorderAssumption DEF IInv, TypeOK, Recordings
  <2> QED BY <1>1, <2>1, <2>2 DEF IInv, Silence, NoToneInARecording
<1>5. LiveFlagFollows' /\ RefusalGoesWithItsHold' /\ TestsAreToldToStop'
  BY DEF IInv, LiveFlagFollows, RefusalGoesWithItsHold, TestsAreToldToStop, At, Busy
<1> QED BY <1>2, <1>3, <1>4, <1>5 DEF IInv

\* Telling of a change, by the flag or by the detection's hook, leaves its
\* thread where it counts as standing, and the flag with the state (notify).
LEMMA ToldKeeps ==
  ASSUME IInv, NEW t \in Threads, th[t].at \in Telling,
         th' = Through(t, th[t].then) \/ th' = [th EXCEPT ![t].at = "hook"],
         live' = Busy \/ (live' = live /\ th[t].at = "hook"),
         sleepers' \subseteq Threads,
         UNCHANGED <<inner, watch, refused, tone, rec, session, bounds>>
  PROVE  IInv'
<1> USE DEF inner, watch, session, bounds
<1>1. /\ Moved(t, Placed(t), th'[t].rec) /\ TypeOK
      /\ Placed(t) \notin {"ready", "gone", "ended"} => th'[t].rec = th[t].rec
      /\ th'[t].at = "hook" \/ th'[t].at \notin Telling
  BY ToldMoves DEF IInv
<1>2. /\ th' \in [Threads -> ThreadType] /\ th'[t].then \notin Telling
      /\ \A u \in Threads : Placed(u)' = Placed(u)
      /\ \A u \in Threads : u # t => /\ th'[u].then = th[u].then
                                     /\ (u[1] # "countdown" => th'[u] = th[u])
                                     /\ (Placed(u) # "ended" => th'[u] = th[u])
                                     /\ (th[u].at \in Telling => th'[u] = th[u])
  BY <1>1, MovedIs
<1>3. TypeOK'
  BY <1>1, <1>2, ZenonT(40) DEF TypeOK, ThreadType, Busy
<1>4. Calm'
  BY <1>2, Kinds DEF IInv, Calm, Room
<1>5. \A u \in Threads : Placed(u) \in Beginning \cup {"start", "watcher"} => th'[u].rec = th[u].rec
  BY <1>1, <1>2 DEF Beginning
<1>6. Owners'
  BY <1>2, <1>5 DEF IInv, Owners
<1>7. Holding'
  <2>1. Holders' = Holders
    BY <1>2, Kinds DEF Holders
  <2> QED BY <1>2, <2>1, Kinds DEF IInv, Holding, Busy
<1>8. Leaving'
  BY <1>2, Kinds DEF IInv, Leaving
<1>9. Silence'
  BY <1>2, <1>5 DEF IInv, Silence, NoToneInARecording, Toned, Beginning
<1>10. LiveFlagFollows' /\ RefusalGoesWithItsHold'
  <2>1. live' # Busy' => /\ live # Busy /\ th[t].at = "hook"
    BY DEF Busy
  <2>2. live # Busy => \E u \in Threads : th[u].at = "announce"
    BY DEF IInv, LiveFlagFollows, At
  <2>3. \A u \in Threads : u # t /\ th[u].at = "announce" => th'[u].at = "announce"
    BY <1>2 DEF Telling
  <2> QED BY <2>1, <2>2, <2>3 DEF IInv, LiveFlagFollows, RefusalGoesWithItsHold, At
<1>11. TestsAreToldToStop'
  <2>1. \A x \in Exits : Exit(x) # t => th'[Exit(x)] = th[Exit(x)]
    BY <1>2, Kinds
  <2>2. \A x \in Exits : Exit(x) = t => th[Exit(x)].at # "cancelTests"
    BY DEF Telling
  <2> QED BY <2>1, <2>2 DEF IInv, TestsAreToldToStop, At
<1> QED BY <1>3, <1>4, <1>6, <1>7, <1>8, <1>9, <1>10, <1>11 DEF IInv

\* Whoever takes the recording in progress becomes the one that stops it:
\* while something records nobody else starts or stops (begin_stop).
LEMMA BeginsStopKeeps ==
  ASSUME IInv, NEW t \in Threads, t[1] \in {"call", "exit", "watch", "countdown"},
         NEW why \in {"manual", "quit", "callEnded", "deviceLost", "failed"},
         active # 0, BeginsStop(t, why), t[1] = "exit" => quitting,
         th[t].at \notin Telling \cup {"cancelTests"},
         UNCHANGED <<arms, quitting, holds, error, flags, rec, session, bounds>>
  PROVE  IInv'
<1> USE DEF flags, session, bounds
<1>1. /\ Moved(t, "stopSession", active) /\ th'[t].at = "announce"
      /\ state' = "stopping" /\ active' = 0 /\ calls' = Forgotten
  BY BeginsStopMoves DEF IInv
<1>2. /\ th' \in [Threads -> ThreadType] /\ th'[t].then \notin Telling
      /\ Placed(t)' = "stopSession" /\ th'[t].rec = active
      /\ \A u \in Threads : u # t => /\ Placed(u)' = Placed(u) /\ th'[u].then = th[u].then
                                     /\ (u[1] # "countdown" => th'[u] = th[u])
                                     /\ (Placed(u) # "ended" => th'[u] = th[u])
                                     /\ (th[u].at \in Telling => th'[u] = th[u])
  BY <1>1, MovedIs
<1>3. state = "recording"
  BY DEF IInv, Owners
<1>4. \A u \in Threads : Placed(u) \notin Beginning \cup Ending
  BY <1>3 DEF IInv, Owners
<1>5. "stopSession" \in Ending /\ "stopSession" \notin Beginning \cup {"start", "watcher", "gone"} \cup Held
  BY DEF Beginning, Ending, Held
<1>6. TypeOK'
  BY <1>1, <1>2, RecorderAssumption DEF IInv, TypeOK, ThreadType, Forgotten
<1>7. Calm'
  BY <1>1, <1>2, Kinds DEF IInv, Calm, Room, Forgotten
<1>8. Owners'
  BY <1>1, <1>2, <1>4, <1>5 DEF IInv, Owners
<1>9. Holding'
  <2>1. \A i \in Installers : Installer(i) # t /\ Placed(Installer(i))' = Placed(Installer(i))
    BY <1>2, Kinds
  <2>2. Holders' = Holders
    BY <2>1 DEF Holders
  <2> QED BY <1>1, <1>3, <2>1, <2>2 DEF IInv, Holding, Busy
<1>10. Leaving'
  BY <1>1, <1>2, <1>3, <1>5, Kinds DEF IInv, Leaving
<1>11. Silence'
  BY <1>1, <1>2, <1>4, <1>5 DEF Silence, NoToneInARecording, Toned, Beginning, Ending
<1>12. LiveFlagFollows' /\ RefusalGoesWithItsHold'
  BY <1>1, <1>3 DEF IInv, LiveFlagFollows, RefusalGoesWithItsHold, Busy, At
<1>13. TestsAreToldToStop'
  BY <1>1, <1>2, Kinds DEF IInv, TestsAreToldToStop, At
<1> QED BY <1>6, <1>7, <1>8, <1>9, <1>10, <1>11, <1>12, <1>13 DEF IInv

\* A stop that is over, or a start that was refused, leaves the recorder idle
\* and announces it (idle, start).
LEMMA IdleAgain ==
  ASSUME IInv, TypeOK', NEW t \in Threads, NEW p \in {"ready", "gone", "ended"},
         Moved(t, p, th[t].rec), th'[t].at = "announce",
         th[t].at \in {"toIdle", "refuse"},
         t[1] # "notices", p = "gone" => quitting,
         state' = "idle", error' = "none", Room',
         UNCHANGED <<active, quitting, holds, live, refused, tone, rec>>
  PROVE  IInv'
<1>1. /\ th'[t].then \notin Telling /\ Placed(t)' = p /\ Placed(t) = th[t].at
      /\ \A u \in Threads : u # t => /\ Placed(u)' = Placed(u) /\ th'[u].then = th[u].then
                                     /\ (u[1] # "countdown" => th'[u] = th[u])
                                     /\ (Placed(u) # "ended" => th'[u] = th[u])
  BY MovedIs DEF Placed, PlaceOf, Telling, Resting
<1>2. /\ p \notin Beginning \cup Ending \cup Held \cup Toned \cup {"start", "watcher", "settle"}
      /\ th[t].at \in Beginning \cup Ending /\ th[t].at \notin Held
  BY DEF Beginning, Ending, Held, Toned
<1>12. "ended" \notin {"start", "watcher"}
  OBVIOUS
<1>3. state # "recording" /\ active = 0
  BY <1>1, <1>2 DEF IInv, Owners
<1>4. \A u \in Threads : Placed(u)' \notin Beginning \cup Ending
  BY <1>1, <1>2 DEF IInv, Owners
<1>5. Calm'
  BY <1>1, Kinds DEF IInv, Calm
<1>6. Owners'
  BY <1>1, <1>2, <1>3, <1>4, <1>12 DEF IInv, Owners
<1>7. Holding'
  <2>1. Holders' = Holders
    BY <1>1, <1>2, Kinds DEF Holders
  <2> QED BY <2>1 DEF IInv, Holding, Busy
<1>8. Leaving'
  BY <1>1, <1>2, <1>4, Kinds DEF IInv, Leaving
<1>9. Silence'
  BY <1>3, <1>4 DEF Silence, NoToneInARecording, Toned, Beginning
<1>10. LiveFlagFollows' /\ RefusalGoesWithItsHold'
  BY DEF IInv, LiveFlagFollows, RefusalGoesWithItsHold, Busy, At
<1>11. TestsAreToldToStop'
  BY <1>1, Kinds DEF IInv, TestsAreToldToStop, At
<1> QED BY <1>5, <1>6, <1>7, <1>8, <1>9, <1>10, <1>11 DEF IInv

-----------------------------------------------------------------------------
(* The steps of a caller.                                                   *)

\* The places a caller moves to, told apart once.
LEMMA CallersPlaces ==
  /\ "ready" \in Plain /\ "stop" \in Plain /\ "keep" \in Plain /\ "clear" \in Plain
  /\ {"tones", "toneWait", "open", "begin", "session", "record", "refuse", "start", "watcher"}
       \subseteq Places
  /\ Plain \subseteq Places
  /\ {"ready", "stop", "keep", "clear", "tones", "refuse"} \cap (Telling \cup Resting) = {}
BY DEF Plain, Places, Beginning, Ending, Held, Telling, Resting

\* A caller that asks keeps the invariant.
LEMMA AsksKeeps ==
  ASSUME IInv, NEW c \in Callers, NEW command \in Commands, Asks(c, command)
  PROVE  IInv'
<1> USE DEF inner, watch, flags, session
<1> DEFINE t == Caller(c)
<1>1. /\ t \in Threads /\ t[1] = "call" /\ th[t].at = "ready" /\ TypeOK /\ Calm
      /\ UNCHANGED <<inner, watch, flags, rec, session, releases, faults>>
  BY Kinds DEF IInv, Asks, At
<1>2. ASSUME NEW mode \in Modes \cup {"call"}, AsksToStart(c, mode, FALSE)
      PROVE  IInv'
  <2>1. /\ Moved(t, "start", starts + 1) /\ th'[t].at = "start"
        /\ starts + 1 \in Recordings /\ starts' \in 0..MaxStarts
    BY <1>1, <1>2, AsksToStartMoves
  <2>2. TypeOK'
    BY <1>1, <2>1 DEF TypeOK, Moved, ThreadType
  <2> QED BY <1>1, <2>1, <2>2, MoveKeeps, CallersPlaces DEF Held, Calm, Room, Telling
<1>3. ASSUME NEW p \in {"stop", "keep", "clear"}, Goes(t, p), UNCHANGED starts
      PROVE  IInv'
  <2>1. Moved(t, p, th[t].rec) /\ th'[t].at = p /\ p \in Plain
    BY <1>1, <1>3, GoesMoves, CallersPlaces DEF Resting
  <2>2. TypeOK'
    BY <1>1, <1>3, <2>1 DEF TypeOK, Moved, ThreadType
  <2> QED BY <1>1, <1>3, <2>1, <2>2, MoveKeeps, CallersPlaces DEF Held, Calm, Room, Telling
<1>4. command \in {"start", "toggle", "stop", "keep", "clear"}
  BY RecorderAssumption
<1> QED BY <1>2, <1>3, <1>4 DEF Asks

\* Commands other than a start: keep_recording, clear_messages, stop.
LEMMA CommandKeeps ==
  ASSUME IInv, NEW c \in Callers, KeepRecording(c) \/ ClearMessages(c) \/ Stop(c)
  PROVE  IInv'
<1> USE DEF inner, watch, flags, session, bounds
<1> DEFINE t == Caller(c)
<1>1. t \in Threads /\ t[1] = "call" /\ TypeOK /\ Calm /\ "ready" \in Plain /\ "ready" \in Places
  BY Kinds, CallersPlaces DEF IInv
<1>2. CASE KeepRecording(c)
  <2>1. /\ th' = Disarmed(Announces(t, "ready")) /\ calls' \in CallsType /\ calls'.armed = 0
    BY <1>1, <1>2, CallsAre DEF KeepRecording, TypeOK, CallsType
  <2>2. Moved(t, "ready", th[t].rec) /\ th'[t].at = "announce"
    BY <1>1, <2>1, AnnouncesMoves, CallersPlaces DEF Resting
  <2>3. TypeOK'
    BY <1>1, <1>2, <2>1, <2>2 DEF TypeOK, Moved, ThreadType, CallsType, KeepRecording
  <2> QED BY <1>1, <1>2, <2>1, <2>2, <2>3, MoveKeeps DEF Held, Calm, Room, Telling, KeepRecording, At
<1>3. CASE ClearMessages(c)
  <2>1. Moved(t, "ready", th[t].rec) /\ th'[t].at = "announce"
    BY <1>1, <1>3, AnnouncesMoves, CallersPlaces DEF ClearMessages, Resting
  <2>2. TypeOK'
    BY <1>1, <1>3, <2>1 DEF TypeOK, Moved, ThreadType, ClearMessages
  <2> QED BY <1>1, <1>3, <2>1, <2>2, MoveKeeps DEF Held, Calm, Room, Telling, ClearMessages, At
<1>4. CASE Stop(c)
  <2>1. CASE active # 0
    <3>1. BeginsStop(t, "manual") /\ UNCHANGED <<arms, quitting, holds, error, flags, rec, session, bounds>>
      BY <1>4, <2>1 DEF Stop
    <3> QED BY <1>1, <1>4, <2>1, <3>1, BeginsStopKeeps DEF Stop, At, Telling
  <2>2. CASE active = 0
    <3>1. Moved(t, "ready", th[t].rec) /\ th'[t].at = "ready"
      BY <1>1, <1>4, <2>2, GoesMoves, CallersPlaces DEF Stop, Resting
    <3>2. TypeOK'
      BY <1>1, <1>4, <2>2, <3>1 DEF TypeOK, Moved, ThreadType, Stop
    <3> QED BY <1>1, <1>4, <2>2, <3>1, <3>2, MoveKeeps DEF Held, Calm, Room, Telling, Stop, At
  <2> QED BY <2>1, <2>2
<1> QED BY <1>2, <1>3, <1>4

\* A start that is let in finds the recorder idle, so it alone has it; one
\* that a hold refuses leaves its message under that hold (start).
LEMMA StartKeeps ==
  ASSUME IInv, NEW c \in Callers, Start(c)
  PROVE  IInv'
<1> USE DEF inner, watch, flags, session, bounds
<1> DEFINE t == Caller(c)
<1>1. /\ t \in Threads /\ t[1] = "call" /\ TypeOK /\ Calm /\ th[t].at = "start"
      /\ "ready" \in Plain /\ "ready" \in Places /\ "tones" \in Places
      /\ UNCHANGED <<active, quitting, holds, arms, flags, rec, session, bounds>>
  BY Kinds, CallersPlaces DEF IInv, Start, At
<1>2. CASE ~MayStart
  <2>1. Moved(t, "ready", th[t].rec) /\ th'[t].at = "ready" /\ UNCHANGED <<state, error, calls>>
    BY <1>1, <1>2, GoesMoves, CallersPlaces DEF Start, Resting
  <2>2. TypeOK'
    BY <1>1, <2>1 DEF TypeOK, Moved, ThreadType
  <2> QED BY <1>1, <2>1, <2>2, MoveKeeps DEF Held, Calm, Room, Telling
<1>3. CASE MayStart /\ (refused \/ holds > 0)
  <2>1. /\ Moved(t, "ready", th[t].rec) /\ th'[t].at = "announce" /\ UNCHANGED <<state, calls>>
        /\ error' = (IF refused THEN "none" ELSE "installing")
    BY <1>1, <1>3, AnnouncesMoves, CallersPlaces DEF Start, Resting
  <2>2. TypeOK'
    BY <1>1, <2>1 DEF TypeOK, Moved, ThreadType
  <2> QED BY <1>1, <1>3, <2>1, <2>2, MoveKeeps DEF Held, Calm, Room, Telling
<1>4. CASE MayStart /\ ~refused /\ holds = 0
  <2>1. /\ state = "idle" /\ ~quitting /\ holds = 0 /\ state' = "starting" /\ error' = "none"
        /\ th' = Disarmed(Announces(t, "tones")) /\ calls' = [Forgotten EXCEPT !.seen = th[t].app]
    BY <1>1, <1>4 DEF Start, MayStart, TypeOK
  <2>2. /\ th' \in [Threads -> ThreadType] /\ th'[t].then \notin Telling /\ th'[t].at = "announce"
        /\ Placed(t) = "start" /\ Placed(t)' = "tones" /\ th'[t].rec = th[t].rec
        /\ \A u \in Threads : u # t => /\ Placed(u)' = Placed(u) /\ th'[u].then = th[u].then
                                     /\ (u[1] # "countdown" => th'[u] = th[u])
                                     /\ (Placed(u) # "ended" => th'[u] = th[u])
                                     /\ (th[u].at \in Telling => th'[u] = th[u])
    <3>1. Moved(t, "tones", th[t].rec) /\ th'[t].at = "announce"
      BY <1>1, <2>1, AnnouncesMoves DEF Telling
    <3> QED BY <1>1, <3>1, MovedIs DEF Placed, PlaceOf, Telling, Resting
  <2>3. th[t].app \in BOOLEAN
    BY <1>1 DEF TypeOK
  <2>4. TypeOK'
    <3>1. calls' \in [seen : BOOLEAN, armed : 0..(2 * MaxReleases), postponable : BOOLEAN]
      <4>1. calls' = [seen |-> th[t].app, armed |-> 0, postponable |-> FALSE]
        BY <2>1 DEF Forgotten
      <4> QED BY <2>3, <4>1, RecorderAssumption
    <3> QED BY <1>1, <2>1, <2>2, <3>1 DEF TypeOK, ThreadType
  <2>5. Calm'
    BY <1>1, <2>1, <2>2, <2>3, Kinds DEF Calm, Room, Forgotten
  <2>6. \A u \in Threads : Placed(u) \notin Beginning \cup Ending
    BY <2>1 DEF IInv, Owners
  <2>7. "tones" \in Beginning /\ "tones" \notin Ending \cup Held \cup Toned
    BY DEF Beginning, Ending, Held, Toned
  <2>8. Owners'
    BY <1>1, <2>1, <2>2, <2>6, <2>7 DEF IInv, Owners
  <2>9. Holding'
    <3>1. \A i \in Installers : Placed(Installer(i))' = Placed(Installer(i))
      BY <1>1, <2>2, Kinds
    <3>2. Holders' = Holders
      BY <3>1 DEF Holders
    <3>3. Holders = {}
      BY <2>1, FS_EmptySet DEF IInv, Holding
    <3>4. \A i \in Installers : Placed(Installer(i)) # "held"
      BY <3>3 DEF Holders, Held
    <3> QED BY <1>1, <3>1, <3>2, <3>4 DEF IInv, Holding
  <2>10. Leaving'
    BY <1>1, <2>1, <2>2, Kinds DEF IInv, Leaving
  <2>11. Silence'
    BY <1>1, <2>1, <2>2, <2>6, <2>7 DEF IInv, Silence, NoToneInARecording, Toned, Beginning, Owners
  <2>12. LiveFlagFollows' /\ RefusalGoesWithItsHold'
    BY <1>1, <2>1, <2>2 DEF LiveFlagFollows, RefusalGoesWithItsHold, At
  <2>13. TestsAreToldToStop'
    BY <1>1, <2>2, Kinds DEF IInv, TestsAreToldToStop, At
  <2> QED BY <2>4, <2>5, <2>8, <2>9, <2>10, <2>11, <2>12, <2>13 DEF IInv
<1> QED BY <1>1, <1>2, <1>3, <1>4 DEF TypeOK

\* A start in its own places: the tests told to stop and waited for, the
\* session and its meeting (stop_tone_tests, start_inner).
LEMMA StartingKeeps ==
  ASSUME IInv, NEW c \in Callers,
         StopToneTests(c) \/ ToneTestPatience(c) \/ OpenSession(c) \/ BeginMeeting(c)
  PROVE  IInv'
<1> USE DEF inner, watch, flags, session, bounds
<1> DEFINE t == Caller(c)
<1>1. t \in Threads /\ t[1] = "call" /\ TypeOK /\ Calm /\ th[t] \in ThreadType
  BY Kinds DEF IInv, TypeOK, ThreadType
<1>2. /\ \A p \in {"tones", "toneWait", "open", "begin", "session", "refuse"} :
           p \in Places /\ p \in Beginning /\ p \notin Held \cup Telling \cup {"cancelTests"}
      /\ {"begin", "session"} \subseteq Toned /\ {"open", "begin"} \subseteq Toned
      /\ "refuse" \notin Toned /\ "toneWait" \notin Toned
  BY DEF Places, Beginning, Held, Toned, Telling, Resting
<1>3. th[t].at \in Beginning => th[t].rec \in Recordings
  BY <1>1, <1>2 DEF IInv, Owners, Placed, PlaceOf, Beginning, Telling, Resting
<1>4. ASSUME NEW p \in {"toneWait", "open", "begin", "session", "refuse"}, Goes(t, p)
      PROVE  Moved(t, p, th[t].rec) /\ th'[t].at = p /\ p \in Places /\ p \in Beginning
             /\ th'[t].at # "cancelTests" /\ th' \in [Threads -> ThreadType]
  BY <1>1, <1>2, <1>4, GoesMoves DEF Moved
<1>5. CASE StopToneTests(c)
  <2>1. /\ th[t].at \in {"tones", "toneWait"}
        /\ tone'.running = tone.running /\ (tone.raised => tone'.raised)
        /\ tone' \in [running : SUBSET Tests, raised : BOOLEAN]
        /\ UNCHANGED <<inner, watch, live, refused, rec, session, bounds>>
        /\ sleepers' \subseteq Threads
    BY <1>1, <1>5 DEF StopToneTests, At, TypeOK
  <2>2. PICK p \in {"toneWait", "open"} : Goes(t, p) /\ (p = "open" => tone.running = {})
    BY <1>5 DEF StopToneTests
  <2>3. TypeOK'
    BY <1>1, <1>4, <2>1, <2>2 DEF TypeOK, ThreadType
  <2>4. TestsAreToldToStop'
    <3>1. \A x \in Exits : th'[Exit(x)] = th[Exit(x)]
      BY <1>1, <1>4, <2>2, Kinds, MovedIs
    <3> QED BY <2>1, <3>1 DEF IInv, TestsAreToldToStop, At
  <2> QED BY <1>1, <1>2, <1>4, <2>1, <2>2, <2>3, <2>4, MoveKeeps DEF Calm, Room, Telling
<1>6. CASE ToneTestPatience(c)
  <2>1. /\ th[t].at = "toneWait" /\ Goes(t, "open") /\ th[t].rec \in Recordings
        /\ rec' = [rec EXCEPT ![th[t].rec].overTone = TRUE] /\ sleepers' \subseteq Threads
        /\ UNCHANGED <<inner, watch, live, refused, tone, session, bounds>>
    BY <1>1, <1>2, <1>3, <1>6 DEF ToneTestPatience, At, TypeOK
  <2>2. /\ rec' \in [Recordings -> RecordingType] /\ rec'[th[t].rec].overTone
        /\ \A q \in Recordings : rec[q].overTone => rec'[q].overTone
    <3>1. rec \in [Recordings -> RecordingType]
      BY <1>1 DEF TypeOK, RecordingType
    <3>2. rec[th[t].rec] \in RecordingType
      BY <2>1, <3>1
    <3>3. [rec[th[t].rec] EXCEPT !.overTone = TRUE] \in RecordingType
      BY <3>2 DEF RecordingType
    <3> QED BY <2>1, <3>1, <3>2, <3>3 DEF RecordingType
  <2>3. TypeOK'
    BY <1>1, <1>4, <2>1, <2>2 DEF TypeOK, ThreadType, RecordingType
  <2> QED BY <1>1, <1>2, <1>4, <2>1, <2>2, <2>3, MoveKeeps DEF Calm, Room, Telling
<1>7. CASE OpenSession(c)
  <2>1. /\ th[t].at = "open" /\ faults' \in 0..MaxFaults
        /\ UNCHANGED <<inner, watch, flags, rec, session, starts, releases>>
    BY <1>1, <1>7, RecorderAssumption, SMTT(30) DEF OpenSession, At, Fails, TypeOK
  <2>2. PICK p \in {"begin", "refuse"} : Goes(t, p)
    BY <1>7 DEF OpenSession
  <2>3. TypeOK'
    BY <1>1, <1>4, <2>1, <2>2 DEF TypeOK, ThreadType
  <2> QED BY <1>1, <1>2, <1>4, <2>1, <2>2, <2>3, MoveKeeps DEF Calm, Room, Telling
<1>8. CASE BeginMeeting(c)
  <2>1. /\ th[t].at = "begin" /\ (faults' = faults \/ Fails)
        /\ UNCHANGED <<inner, watch, flags, session, starts, releases>>
    BY <1>8 DEF BeginMeeting, At
  <2>5. faults' \in 0..MaxFaults
    BY <1>1, <2>1, RecorderAssumption DEF Fails, TypeOK
  <2>2. PICK p \in {"session", "refuse"} : Goes(t, p)
    BY <1>8 DEF BeginMeeting
  <2>3. /\ rec' \in [Recordings -> RecordingType]
        /\ \A q \in Recordings : rec[q].overTone => rec'[q].overTone
    <3>1. rec \in [Recordings -> RecordingType] /\ th[t].mode \in Modes \cup {"none", "call"}
          /\ th[t].rec \in Recordings
      BY <1>1, <1>2, <1>3, <2>1 DEF TypeOK, RecordingType, ThreadType
    <3> DEFINE r == th[t].rec
               x == [rec[r] EXCEPT !.session = "open", !.mode = th[t].mode, !.row = "recording"]
    <3>2. rec[r] \in RecordingType
      BY <3>1
    <3>3. x \in RecordingType /\ x.overTone = rec[r].overTone
      BY <3>1, <3>2 DEF RecordingType
    <3>4. rec' = [rec EXCEPT ![r] = x] \/ rec' = rec
      BY <1>8 DEF BeginMeeting
    <3> QED BY <3>1, <3>3, <3>4
  <2>4. TypeOK'
    BY <1>1, <1>4, <2>1, <2>5, <2>2, <2>3 DEF TypeOK, ThreadType, RecordingType
  <2> QED BY <1>1, <1>2, <1>4, <2>1, <2>2, <2>3, <2>4, MoveKeeps DEF Calm, Room, Telling
<1> QED BY <1>5, <1>6, <1>7, <1>8

\* The session's start also starts its notice thread (session.start).
LEMMA StartSessionKeeps ==
  ASSUME IInv, Following, NEW c \in Callers, StartSession(c)
  PROVE  IInv'
<1> USE DEF inner, watch, flags, session, bounds
<1> DEFINE t == Caller(c)
           r == th[t].rec
           n == Notices(r)
<1>1. /\ t \in Threads /\ t[1] = "call" /\ TypeOK /\ Calm /\ th[t].at = "session"
      /\ th \in [Threads -> ThreadType] /\ th[t] \in ThreadType
      /\ rec \in [Recordings -> RecordingType] /\ (faults' = faults \/ Fails)
      /\ UNCHANGED <<inner, watch, flags, session, starts, releases>>
  BY Kinds DEF IInv, TypeOK, ThreadType, RecordingType, StartSession, At
<1>2. Placed(t) = "session" /\ "session" \in Beginning /\ "session" \in Toned
  BY <1>1 DEF Placed, PlaceOf, Beginning, Toned, Telling, Resting
<1>3. r \in Recordings /\ rec[r] \in RecordingType /\ n \in Threads /\ n[1] = "notices" /\ n # t
  BY <1>1, <1>2, Kinds DEF IInv, Owners
<1>4. faults' \in 0..MaxFaults
  BY <1>1, RecorderAssumption DEF Fails, TypeOK
<1>5. CASE Goes(t, "refuse") /\ Fails
           /\ \E row \in {"failed", "recording"} :
                rec' = [rec EXCEPT ![r].session = "none", ![r].row = row]
  <2>1. "refuse" \in Places /\ "refuse" \in Beginning /\ "refuse" \notin Toned /\ "session" \notin Held
    BY DEF Places, Beginning, Toned, Held
  <2>2. Moved(t, "refuse", r) /\ th'[t].at = "refuse" /\ th' \in [Threads -> ThreadType]
    BY <1>1, <1>5, <2>1, GoesMoves DEF Moved, Telling
  <2>3. /\ rec' \in [Recordings -> RecordingType]
        /\ \A q \in Recordings : rec[q].overTone => rec'[q].overTone
    <3>1. PICK row \in {"failed", "recording"} :
            rec' = [rec EXCEPT ![r] = [rec[r] EXCEPT !.session = "none", !.row = row]]
      BY <1>5
    <3>2. [rec[r] EXCEPT !.session = "none", !.row = row] \in RecordingType
      BY <1>3 DEF RecordingType
    <3> QED BY <1>1, <1>3, <3>1, <3>2 DEF RecordingType
  <2>4. TypeOK'
    BY <1>1, <1>4, <2>2, <2>3 DEF TypeOK, ThreadType, RecordingType
  <2> QED BY <1>1, <1>2, <2>1, <2>2, <2>3, <2>4, MoveKeeps DEF Calm, Room, Telling
<1>6. CASE /\ rec' = [rec EXCEPT ![r].session = "runs"]
           /\ th' = [th EXCEPT ![t].at = "record", ![n].at = "following", ![n].rec = r]
  <2>1. "record" \in Places /\ "following" \in Places /\ r \in 0..MaxStarts
    BY <1>3, RecorderAssumption DEF Places, Recordings
  <2>2. th[n] \in ThreadType /\ th[n].at \notin Telling
    <3>1. active = 0 /\ \A u \in Threads : Placed(u) \in Carrying => u = t
      BY <1>1, <1>2 DEF IInv, Owners, Carrying, Beginning, Ending
    <3>2. th[n].at \in {"none", "ended"}
      BY <1>2, <1>3, <3>1 DEF Following, Carrying, Recordings
    <3> QED BY <1>1, <1>3, <3>2 DEF Telling
  <2>3. /\ th' \in [Threads -> ThreadType] /\ th'[t].at = "record" /\ th'[t].rec = r
        /\ th'[n].at = "following" /\ th'[n].then = th[n].then /\ th'[t].then = th[t].then
        /\ \A u \in Threads : u # t /\ u # n => th'[u] = th[u]
    <3> DEFINE x == [th[t] EXCEPT !.at = "record"]
               y == [th[n] EXCEPT !.at = "following", !.rec = r]
    <3>1. /\ x \in ThreadType /\ x.at = "record" /\ x.rec = r /\ x.then = th[t].then
          /\ y \in ThreadType /\ y.at = "following" /\ y.then = th[n].then
      BY <1>1, <2>1, <2>2 DEF ThreadType
    <3>2. th' = [th EXCEPT ![t] = x, ![n] = y]
      BY <1>1, <1>3, <1>6
    <3> QED BY <1>1, <1>3, <3>1, <3>2
  <2>4. /\ rec' \in [Recordings -> RecordingType]
        /\ \A q \in Recordings : rec'[q].overTone = rec[q].overTone
    <3>1. rec' = [rec EXCEPT ![r] = [rec[r] EXCEPT !.session = "runs"]]
      BY <1>6
    <3>2. [rec[r] EXCEPT !.session = "runs"] \in RecordingType
      BY <1>3 DEF RecordingType
    <3> QED BY <1>1, <1>3, <3>1, <3>2 DEF RecordingType
  <2>5. /\ Placed(t)' = "record" /\ Placed(n)' = "following"
        /\ \A u \in Threads : u # t /\ u # n => Placed(u)' = Placed(u)
    BY <2>3 DEF Placed, PlaceOf, Telling, Resting
  <2>6. /\ "record" \in Beginning /\ "record" \in Toned
        /\ "record" \notin Ending \cup Held \cup {"gone", "settle", "start", "watcher"}
        /\ "following" \notin Beginning \cup Ending \cup Held \cup Toned
                                \cup {"gone", "settle", "start", "watcher"}
    BY DEF Beginning, Ending, Held, Toned
  <2>7. TypeOK'
    BY <1>1, <1>4, <2>3, <2>4, SMTT(40) DEF TypeOK, ThreadType, RecordingType
  <2>8. Calm'
    BY <1>1, <1>3, <2>3, <2>5, Kinds DEF Calm, Room, Telling
  <2>9. Owners'
    BY <1>1, <1>2, <1>3, <2>3, <2>5, <2>6 DEF IInv, Owners
  <2>10. /\ \A i \in Installers : Installer(i) # t /\ Installer(i) # n
         /\ \A x \in Exits : Exit(x) # t /\ Exit(x) # n
    BY <1>1, <1>3, Kinds
  <2>11. Holding'
    <3>1. \A i \in Installers : Placed(Installer(i))' = Placed(Installer(i))
      BY <2>5, <2>10, Kinds
    <3>2. Holders' = Holders
      BY <3>1 DEF Holders
    <3> QED BY <1>1, <3>1, <3>2 DEF IInv, Holding, Busy
  <2>12. Leaving'
    BY <1>1, <2>5, <2>10, Kinds DEF IInv, Leaving
  <2>13. Silence'
    <3>1. \A u \in Threads : Placed(u)' \in Toned =>
            Placed(u) \in Toned /\ th'[u].rec = th[u].rec /\ th[u].rec \in Recordings
      BY <1>1, <1>2, <1>3, <2>3, <2>5, <2>6 DEF IInv, Owners, Toned, Beginning
    <3>2. active # 0 => active \in Recordings
      BY <1>1, RecorderAssumption DEF TypeOK, Recordings
    <3> QED BY <1>1, <2>4, <3>1, <3>2 DEF IInv, Silence, NoToneInARecording
  <2>14. LiveFlagFollows'
    BY <1>1, <2>2, <2>3 DEF IInv, LiveFlagFollows, Busy, At, Telling
  <2>15. RefusalGoesWithItsHold' /\ TestsAreToldToStop'
    BY <1>1, <2>3, <2>10, Kinds DEF IInv, RefusalGoesWithItsHold, TestsAreToldToStop, At
  <2> QED BY <2>7, <2>8, <2>9, <2>11, <2>12, <2>13, <2>14, <2>15 DEF IInv
<1> QED BY <1>5, <1>6 DEF StartSession

\* The recording in progress, and its watcher; or the refusal (start_inner).
LEMMA StartedKeeps ==
  ASSUME IInv, NEW c \in Callers, GoRecording(c) \/ SpawnWatcher(c) \/ RefuseStart(c)
  PROVE  IInv'
<1> USE DEF inner, watch, flags, session, bounds
<1> DEFINE t == Caller(c)
           r == th[t].rec
<1>1. /\ t \in Threads /\ t[1] = "call" /\ TypeOK /\ Calm
      /\ th \in [Threads -> ThreadType] /\ th[t] \in ThreadType
  BY Kinds DEF IInv, TypeOK, ThreadType
<1>2. CASE GoRecording(c)
  <2>1. /\ th[t].at = "record" /\ Placed(t) = "record" /\ Goes(t, "watcher")
        /\ state' = "recording" /\ active' = r /\ error' = "none"
        /\ UNCHANGED <<quitting, holds, watch, flags, rec, session, bounds>>
    BY <1>2 DEF GoRecording, At, Placed, PlaceOf, Telling, Resting
  <2>2. /\ "record" \in Beginning /\ "record" \in Toned /\ "record" \notin Held
        /\ "watcher" \in Places
        /\ "watcher" \notin Beginning \cup Ending \cup Held \cup Toned \cup {"gone", "settle"}
    BY DEF Beginning, Ending, Held, Toned, Places
  <2>3. /\ r \in Recordings /\ state = "starting" /\ active = 0
        /\ \A u \in Threads : u # t => Placed(u) \notin Beginning \cup Ending
        /\ tone.running = {} \/ rec[r].overTone
    BY <1>1, <2>1, <2>2 DEF IInv, Owners, Silence
  <2>4. /\ th' \in [Threads -> ThreadType] /\ th'[t].then \notin Telling /\ th'[t].at = "watcher"
        /\ th'[t].rec = r /\ Placed(t)' = "watcher"
        /\ \A u \in Threads : u # t => /\ Placed(u)' = Placed(u) /\ th'[u].then = th[u].then
                                     /\ (u[1] # "countdown" => th'[u] = th[u])
                                     /\ (Placed(u) # "ended" => th'[u] = th[u])
                                     /\ (th[u].at \in Telling => th'[u] = th[u])
    BY <1>1, <2>1, <2>2, GoesMoves, MovedIs DEF Placed, PlaceOf, Telling, Resting
  <2>5. TypeOK'
    BY <1>1, <2>1, <2>3, <2>4, RecorderAssumption DEF TypeOK, ThreadType, Recordings
  <2>6. Calm'
    BY <1>1, <2>1, <2>4, Kinds DEF Calm, Room
  <2>7. Owners'
    BY <2>1, <2>2, <2>3, <2>4 DEF IInv, Owners, Recordings
  <2>8. Holding'
    <3>1. Holders' = Holders
      BY <1>1, <2>1, <2>2, <2>4, Kinds DEF Holders
    <3> QED BY <1>1, <2>1, <2>2, <2>3, <2>4, <3>1, Kinds DEF IInv, Holding, Busy, Held
  <2>9. Leaving'
    BY <1>1, <2>1, <2>2, <2>3, <2>4, Kinds DEF IInv, Leaving
  <2>10. Silence'
    BY <2>1, <2>2, <2>3, <2>4 DEF Silence, NoToneInARecording, Toned, Beginning
  <2>11. LiveFlagFollows' /\ RefusalGoesWithItsHold'
    BY <1>1, <2>1, <2>3, <2>4 DEF IInv, LiveFlagFollows, RefusalGoesWithItsHold, Busy, At, Telling
  <2>12. TestsAreToldToStop'
    BY <1>1, <2>1, <2>4, Kinds DEF IInv, TestsAreToldToStop, At
  <2> QED BY <2>5, <2>6, <2>7, <2>8, <2>9, <2>10, <2>11, <2>12 DEF IInv
<1>3. CASE SpawnWatcher(c)
  <2> DEFINE w == Watcher(r)
  <2>1. /\ th[t].at = "watcher" /\ Placed(t) = "watcher"
        /\ UNCHANGED <<inner, watch, flags, rec, session, bounds>>
    BY <1>3 DEF SpawnWatcher, At, Placed, PlaceOf, Telling, Resting
  <2>2. /\ r \in Recordings /\ w \in Threads /\ w[1] = "watch" /\ w # t /\ r \in 0..MaxStarts
        /\ th[w] \in ThreadType
    BY <1>1, <2>1, Kinds, RecorderAssumption DEF IInv, Owners, Recordings
  <2>3. PICK p \in {"watching", "ended"} :
          th' = [Announces(t, "ready") EXCEPT ![w].at = p, ![w].rec = r]
    BY <1>3 DEF SpawnWatcher
  <2>4. {"watching", "ended", "announce", "ready"} \subseteq Places
    BY DEF Places
  <2>5. /\ th' \in [Threads -> ThreadType] /\ th'[t].at = "announce" /\ th'[t].then = "ready"
        /\ th'[t].rec = r /\ th'[w].at = p /\ th'[w].then = th[w].then
        /\ \A u \in Threads : u # t /\ u # w => th'[u] = th[u]
    <3> DEFINE x == [th[t] EXCEPT !.at = "announce", !.then = "ready"]
               y == [th[w] EXCEPT !.at = p, !.rec = r]
    <3>1. /\ x \in ThreadType /\ x.at = "announce" /\ x.then = "ready" /\ x.rec = r
          /\ y \in ThreadType /\ y.at = p /\ y.then = th[w].then
      BY <1>1, <2>2, <2>4 DEF ThreadType
    <3>2. th' = [th EXCEPT ![t] = x, ![w] = y]
      BY <1>1, <2>2, <2>3 DEF Announces
    <3> QED BY <1>1, <2>2, <3>1, <3>2
  <2>6. /\ Placed(t)' = "ready" /\ Placed(w)' = p
        /\ \A u \in Threads : u # t /\ u # w => Placed(u)' = Placed(u)
    BY <2>3, <2>5 DEF Placed, PlaceOf, Telling, Resting
  <2>7. {"watching", "ended", "ready"} \cap
          (Beginning \cup Ending \cup Held \cup Toned \cup {"start", "watcher", "gone", "settle"}) = {}
    BY DEF Beginning, Ending, Held, Toned
  <2>8. TypeOK'
    BY <1>1, <2>1, <2>5, SMTT(30) DEF TypeOK, ThreadType
  <2>9. Calm'
    <3>1. \A q \in Recordings : Notices(q) # t /\ Notices(q) # w
      BY <1>1, <2>2, Kinds
    <3> QED BY <1>1, <2>1, <2>5, <2>6, <3>1, Kinds DEF Calm, Room, Telling
  <2>10. Owners'
    BY <2>1, <2>3, <2>5, <2>6, <2>7 DEF IInv, Owners
  <2>11. /\ \A i \in Installers : Installer(i) # t /\ Installer(i) # w
         /\ \A x \in Exits : Exit(x) # t /\ Exit(x) # w
    BY <1>1, <2>2, Kinds
  <2>12. Holding'
    <3>1. \A i \in Installers : Placed(Installer(i))' = Placed(Installer(i))
      BY <2>6, <2>11, Kinds
    <3>2. Holders' = Holders
      BY <3>1 DEF Holders
    <3> QED BY <2>1, <3>1, <3>2 DEF IInv, Holding, Busy
  <2>13. Leaving'
    BY <2>1, <2>6, <2>11, Kinds DEF IInv, Leaving
  <2>14. Silence'
    <3>1. \A u \in Threads : Placed(u)' \in Toned => Placed(u) \in Toned /\ th'[u] = th[u]
      BY <2>3, <2>5, <2>6, <2>7
    <3> QED BY <2>1, <3>1 DEF IInv, Silence, NoToneInARecording
  <2>15. LiveFlagFollows' /\ RefusalGoesWithItsHold'
    BY <1>1, <2>1, <2>5 DEF IInv, LiveFlagFollows, RefusalGoesWithItsHold, At
  <2>16. TestsAreToldToStop'
    BY <2>1, <2>5, <2>11, Kinds DEF IInv, TestsAreToldToStop, At
  <2> QED BY <2>8, <2>9, <2>10, <2>12, <2>13, <2>14, <2>15, <2>16 DEF IInv
<1>4. CASE RefuseStart(c)
  <2>1. /\ th[t].at = "refuse" /\ "ready" \in Places /\ th' = Announces(t, "ready")
        /\ state' = "idle" /\ error' = "none"
        /\ UNCHANGED <<active, quitting, holds, watch, flags, rec, session, bounds>>
    BY <1>4 DEF RefuseStart, At, Places
  <2>2. Moved(t, "ready", r) /\ th'[t].at = "announce"
    BY <1>1, <2>1, AnnouncesMoves DEF Telling
  <2>3. TypeOK'
    BY <1>1, <2>1, <2>2 DEF TypeOK, Moved, ThreadType
  <2> QED BY <1>1, <2>1, <2>2, <2>3, IdleAgain DEF Calm, Room
<1> QED BY <1>2, <1>3, <1>4

-----------------------------------------------------------------------------
(* The steps of an exit, and of whoever finishes a stop.                    *)

\* A step of the exit keeps the invariant.
LEMMA ExitKeeps ==
  ASSUME IInv, NEW x \in Exits, RefuseStarts(x) \/ CancelTests(x) \/ Quit(x) \/ Settle(x)
  PROVE  IInv'
<1> USE DEF inner, watch, flags, session, bounds
<1> DEFINE t == Exit(x)
<1>1. t \in Threads /\ t[1] = "exit" /\ TypeOK /\ Calm
  BY Kinds DEF IInv
<1>2. /\ {"cancelTests", "quit", "settle", "gone", "stopSession"} \subseteq Places
      /\ "quit" \in Plain
      /\ {"ready", "quit", "cancelTests", "settle"} \cap (Held \cup Telling \cup Resting) = {}
      /\ {"cancelTests", "quit", "settle", "gone"} \cap (Telling \cup Resting) = {}
  BY DEF Places, Plain, Beginning, Ending, Held, Telling, Resting
<1>3. ASSUME NEW p \in {"cancelTests", "quit", "settle", "gone"}, Goes(t, p)
      PROVE  Moved(t, p, th[t].rec) /\ th'[t].at = p /\ th' \in [Threads -> ThreadType]
  BY <1>1, <1>2, <1>3, GoesMoves DEF Moved, Resting
<1>4. CASE RefuseStarts(x)
  <2>1. /\ th[t].at = "ready" /\ refused' = TRUE /\ Goes(t, "cancelTests")
        /\ UNCHANGED <<inner, watch, live, tone, sleepers, rec, session, bounds>>
    BY <1>4 DEF RefuseStarts, At
  <2>2. TypeOK'
    BY <1>1, <1>3, <2>1 DEF TypeOK, ThreadType
  <2>3. TestsAreToldToStop'
    BY <1>3, <2>1 DEF IInv, TestsAreToldToStop, At
  <2> QED BY <1>1, <1>2, <1>3, <2>1, <2>2, <2>3, MoveKeeps DEF Calm, Room, Telling
<1>5. CASE CancelTests(x)
  <2>1. /\ th[t].at = "cancelTests" /\ tone' = [tone EXCEPT !.raised = TRUE] /\ Goes(t, "quit")
        /\ tone'.running = tone.running /\ tone'.raised
        /\ UNCHANGED <<inner, watch, live, refused, sleepers, rec, session, bounds>>
    BY <1>1, <1>5 DEF CancelTests, At, TypeOK
  <2>2. TypeOK'
    BY <1>1, <1>3, <2>1 DEF TypeOK, ThreadType
  <2>3. TestsAreToldToStop'
    BY <2>1 DEF TestsAreToldToStop
  <2> QED BY <1>1, <1>2, <1>3, <2>1, <2>2, <2>3, MoveKeeps DEF Calm, Room, Telling
<1>6. CASE Quit(x)
  <2>1. /\ th[t].at \in {"ready", "quit"} /\ tone' = [tone EXCEPT !.raised = TRUE]
        /\ Goes(t, "settle") /\ quitting' = TRUE
        /\ tone'.running = tone.running /\ tone'.raised
        /\ UNCHANGED <<state, active, holds, error, watch, live, refused, sleepers, rec, session, bounds>>
    BY <1>1, <1>6 DEF Quit, At, TypeOK
  <2>2. TypeOK'
    BY <1>1, <1>3, <2>1 DEF TypeOK, ThreadType
  <2>3. TestsAreToldToStop'
    BY <2>1 DEF TestsAreToldToStop
  <2> QED BY <1>1, <1>2, <1>3, <2>1, <2>2, <2>3, MoveKeeps DEF Calm, Room, Telling
<1>7. CASE Settle(x)
  <2>1. /\ th[t].at = "settle" /\ Placed(t) = "settle" /\ quitting
        /\ UNCHANGED <<arms, live, refused, tone, rec, session, bounds>>
    BY <1>1, <1>7 DEF Settle, At, Placed, PlaceOf, IInv, Leaving, Telling, Resting
  <2>2. CASE ~Settled
    <3>1. sleepers' \subseteq Threads /\ UNCHANGED <<inner, calls, th>>
      BY <1>1, <1>7, <2>2 DEF Settle, TypeOK
    <3>2. TypeOK'
      BY <1>1, <2>1, <3>1 DEF TypeOK
    <3> QED BY <1>1, <2>1, <3>1, <3>2, Still DEF Calm, Room
  <2>3. CASE Settled /\ active # 0
    <3>1. BeginsStop(t, "quit") /\ UNCHANGED <<quitting, holds, error, sleepers>>
      BY <1>7, <2>3 DEF Settle
    <3> QED BY <1>1, <2>1, <2>3, <3>1, BeginsStopKeeps DEF Telling
  <2>4. CASE Settled /\ active = 0
    <3>1. Goes(t, "gone") /\ UNCHANGED <<inner, calls, sleepers>>
      BY <1>7, <2>4 DEF Settle
    <3>2. state = "idle"
      BY <1>1, <2>4 DEF Settled, IInv, Owners, TypeOK
    <3>3. TypeOK'
      BY <1>1, <1>3, <2>1, <3>1 DEF TypeOK, ThreadType
    <3> QED BY <1>1, <1>2, <1>3, <2>1, <3>1, <3>2, <3>3, MoveKeeps DEF Calm, Room, Telling
  <2> QED BY <2>2, <2>3, <2>4
<1> QED BY <1>4, <1>5, <1>6, <1>7

\* A stop, whoever began it, has the recorder until it is idle again
\* (finish_stop).
LEMMA FinishKeeps ==
  ASSUME IInv, NEW t \in Threads, Finish(t)
  PROVE  IInv'
<1> USE DEF inner, watch, flags, session, bounds
<1>1. /\ TypeOK /\ Calm /\ th[t] \in ThreadType /\ th[t].at \in Ending /\ Placed(t) = th[t].at
      /\ rec \in [Recordings -> RecordingType] /\ th \in [Threads -> ThreadType]
  BY DEF IInv, TypeOK, ThreadType, RecordingType, Finish, StopSession, Save, RecoverFailedStop,
         JoinNotices, EndStop, At, Ending, Placed, PlaceOf, Telling, Resting
<1>2. state = "stopping" /\ th[t].at \notin Held \cup Telling \cup Resting \cup {"cancelTests"} /\ t[1] # "notices"
  <2>1. t[1] = "notices" => \E r \in Recordings : t = Notices(r)
    BY DEF Threads, Notices, Caller, Watcher, Countdown, Installer, Exit, Detector
  <2> QED BY <1>1, <2>1 DEF IInv, Owners, Ending, Held, Calm, Telling, Resting
<1>3. {"save", "recover", "join", "toIdle"} \subseteq Places \cap Ending
      /\ {"save", "recover", "join", "toIdle"} \cap (Telling \cup Resting) = {}
      /\ "cancelTests" \notin Ending
  BY DEF Places, Ending, Telling, Resting
<1>4. ASSUME NEW p \in {"save", "recover", "join", "toIdle"}, Goes(t, p)
      PROVE  Moved(t, p, th[t].rec) /\ th'[t].at = p /\ th' \in [Threads -> ThreadType]
  BY <1>1, <1>3, <1>4, GoesMoves DEF Moved, Resting
<1>5. faults' = faults \/ Fails => faults' \in 0..MaxFaults
  BY <1>1, RecorderAssumption DEF Fails, TypeOK
<1>6. ASSUME NEW p \in {"save", "recover", "join", "toIdle"}, Goes(t, p), TypeOK',
             UNCHANGED <<inner, watch, flags>>
      PROVE  IInv'
  BY <1>1, <1>2, <1>3, <1>4, <1>6, MoveKeeps DEF Calm, Room, Telling
<1>7. ASSUME NEW row \in {"queued", "recording", "failed"}, LetsGo(t, row)
      PROVE  rec' \in [Recordings -> RecordingType]
  <2> DEFINE r == th[t].rec
             x == [rec[r] EXCEPT !.row = row, !.session = "dropped", !.mode = "none",
                                 !.overTone = FALSE]
  <2>1. rec' = [rec EXCEPT ![r] = x]
    BY <1>7 DEF LetsGo
  <2>2. r \in Recordings => x \in RecordingType
    <3>1. r \in Recordings => rec[r] \in RecordingType
      BY <1>1
    <3> QED BY <3>1 DEF RecordingType
  <2> QED BY <1>1, <2>1, <2>2
<1>8. CASE StopSession(t)
  <2>1. PICK p \in {"save", "recover"} : Goes(t, p) /\ (faults' = faults \/ Fails)
    BY <1>8 DEF StopSession
  <2>2. /\ capture' = [capture EXCEPT ![th[t].rec] = Steady]
        /\ rec' = [rec EXCEPT ![th[t].rec].session = "stopped"]
        /\ UNCHANGED <<inner, watch, flags, notices, outage, starts, releases>>
    BY <1>8 DEF StopSession
  <2>3. capture' \in [Recordings -> [changes : 0..MaxChanges, changing : BOOLEAN, warned : BOOLEAN]]
    <3>1. Steady \in [changes : 0..MaxChanges, changing : BOOLEAN, warned : BOOLEAN]
      BY RecorderAssumption DEF Steady
    <3> QED BY <1>1, <2>2, <3>1 DEF TypeOK
  <2>4. rec' \in [Recordings -> RecordingType]
    <3>1. \A r \in Recordings : [rec[r] EXCEPT !.session = "stopped"] \in RecordingType
      <4>1. \A y \in RecordingType : [y EXCEPT !.session = "stopped"] \in RecordingType
        BY DEF RecordingType
      <4> QED BY <1>1, <4>1
    <3> QED BY <1>1, <2>2, <3>1
  <2>5. TypeOK'
    <3>1. th' \in [Threads -> ThreadType] /\ faults' \in 0..MaxFaults
      BY <1>4, <1>5, <2>1
    <3> QED BY <1>1, <2>2, <2>3, <2>4, <3>1, SMTT(40) DEF TypeOK, ThreadType, RecordingType
  <2> QED BY <1>6, <2>1, <2>2, <2>5
<1>9. CASE Save(t)
  <2>1. UNCHANGED <<inner, watch, flags, session, starts, releases>> /\ (faults' = faults \/ Fails)
    BY <1>9 DEF Save
  <2>2. CASE LetsGo(t, "queued") \/ LetsGo(t, "recording")
    <3>1. Goes(t, "join")
      BY <2>2 DEF LetsGo
    <3>2. TypeOK'
      BY <1>1, <1>4, <1>5, <1>7, <2>1, <2>2, <3>1, SMTT(40) DEF TypeOK, ThreadType, RecordingType
    <3> QED BY <1>6, <2>1, <3>1, <3>2
  <2>3. CASE /\ th[t].tries + 1 < CommitAttempts /\ ~quitting
             /\ th' = [th EXCEPT ![t].tries = th[t].tries + 1] /\ UNCHANGED rec
    <3>1. th[t].at = "save"
      BY <1>9 DEF Save, At
    <3>2. Moved(t, "save", th[t].rec) /\ th'[t].at = "save" /\ th' \in [Threads -> ThreadType]
      <4> DEFINE x == [th[t] EXCEPT !.tries = th[t].tries + 1]
      <4>1. th[t].tries + 1 \in 0..CommitAttempts
        BY <1>1, <2>3, RecorderAssumption DEF ThreadType
      <4>2. x \in ThreadType /\ x.at = "save" /\ x.rec = th[t].rec /\ x.then = th[t].then
        BY <1>1, <3>1, <4>1 DEF ThreadType
      <4> QED BY <1>1, <2>3, <4>2 DEF Moved, PlaceOf, Calm, Telling, Resting, Left
    <3>3. TypeOK'
      BY <1>1, <1>5, <2>1, <2>3, <3>2 DEF TypeOK, ThreadType
    <3> QED BY <1>1, <1>2, <1>3, <2>1, <2>3, <3>1, <3>2, <3>3, MoveKeeps DEF Calm, Room, Telling
  <2> QED BY <1>9, <2>2, <2>3 DEF Save
<1>10. CASE RecoverFailedStop(t)
  <2>1. PICK row \in {"queued", "recording", "failed"} : LetsGo(t, row)
    BY <1>10 DEF RecoverFailedStop
  <2>2. Goes(t, "join") /\ UNCHANGED <<inner, watch, flags, session, bounds>>
    BY <1>10, <2>1 DEF LetsGo, RecoverFailedStop
  <2>3. TypeOK'
    BY <1>1, <1>4, <1>7, <2>1, <2>2 DEF TypeOK, ThreadType, RecordingType
  <2> QED BY <1>6, <2>2, <2>3
<1>11. CASE JoinNotices(t)
  <2>1. Goes(t, "toIdle") /\ UNCHANGED <<inner, watch, flags, rec, session, bounds>>
    BY <1>11 DEF JoinNotices
  <2>2. TypeOK'
    BY <1>1, <1>4, <2>1 DEF TypeOK, ThreadType
  <2> QED BY <1>6, <2>1, <2>2
<1>12. CASE EndStop(t)
  <2>1. /\ th[t].at = "toIdle" /\ state' = "idle" /\ error' = "none" /\ calls' = Forgotten
        /\ th' = Disarmed(Announces(t, Rest(t)))
        /\ UNCHANGED <<active, quitting, holds, arms, flags, rec, session, bounds>>
    BY <1>12 DEF EndStop, At
  <2>2. Rest(t) \in {"ready", "gone", "ended"} /\ Rest(t) \in Places /\ Rest(t) \notin Telling \cup {"none", "asleep"}
        /\ (Rest(t) = "gone" => t[1] = "exit")
    BY DEF Rest, Places, Telling
  <2>3. Rest(t) = "gone" => quitting
    <3>1. t[1] = "exit" => \E x \in Exits : t = Exit(x)
      BY DEF Threads, Notices, Caller, Watcher, Countdown, Installer, Exit, Detector
    <3> QED BY <1>1, <2>2, <3>1 DEF IInv, Leaving
  <2>4. Moved(t, Rest(t), th[t].rec) /\ th'[t].at = "announce" /\ th' \in [Threads -> ThreadType]
    BY <1>1, <2>1, <2>2, AnnouncesMoves DEF Moved
  <2>5. calls' \in [seen : BOOLEAN, armed : 0..(2 * MaxReleases), postponable : BOOLEAN]
    BY <2>1, RecorderAssumption DEF Forgotten
  <2>6. TypeOK'
    BY <1>1, <2>1, <2>4, <2>5 DEF TypeOK, ThreadType
  <2> QED BY <1>2, <2>1, <2>2, <2>3, <2>4, <2>6, IdleAgain DEF Room, Forgotten
<1> QED BY <1>8, <1>9, <1>10, <1>11, <1>12 DEF Finish

-----------------------------------------------------------------------------
(* The steps of a watcher, a notice thread, a countdown and the capture.    *)

\* A step of the tests' watcher keeps the invariant.
LEMMA WatcherKeeps ==
  ASSUME IInv, NEW r \in Recordings, WatcherStep(r)
  PROVE  IInv'
<1> USE DEF inner, watch, flags, session, bounds
<1> DEFINE t == Watcher(r)
<1>1. t \in Threads /\ t[1] = "watch" /\ TypeOK /\ Calm
  BY Kinds DEF IInv
<1>2. /\ {"asking", "watching", "ending", "ended"} \subseteq Plain \cap Places
      /\ {"asking", "watching", "ending", "ended"}
           \cap (Held \cup Telling \cup {"cancelTests", "none", "asleep"}) = {}
  BY DEF Places, Plain, Beginning, Ending, Held, Telling
<1>3. th[t].at \in {"asking", "watching", "ending"}
      /\ UNCHANGED <<flags, rec, session, starts, releases>> /\ (faults' = faults \/ Fails)
  BY DEF WatcherStep, WatchFailed, WatchReads, WatchAnswers, WatchStops, WatchEnds, At
<1>4. faults' \in 0..MaxFaults
  BY <1>1, <1>3, RecorderAssumption DEF Fails, TypeOK
<1>5. ASSUME NEW p \in {"asking", "watching", "ending", "ended"}, Goes(t, p), UNCHANGED <<inner, watch>>
      PROVE  IInv'
  <2>1. Moved(t, p, th[t].rec) /\ th'[t].at = p
    BY <1>1, <1>2, <1>5, GoesMoves
  <2>2. TypeOK'
    BY <1>1, <1>3, <1>4, <1>5, <2>1 DEF TypeOK, Moved, ThreadType
  <2> QED BY <1>1, <1>2, <1>3, <1>5, <2>1, <2>2, MoveKeeps DEF Calm, Room, Telling
<1>6. ASSUME NEW why \in {"deviceLost", "failed"}, StopsRecording(r, why), UNCHANGED bounds
      PROVE  IInv'
  <2>1. CASE active = r
    <3>1. active # 0 /\ BeginsStop(t, why) /\ UNCHANGED <<arms, quitting, holds, error>>
      BY <1>6, <2>1 DEF StopsRecording, Recordings
    <3> QED BY <1>1, <1>3, <1>6, <3>1, BeginsStopKeeps DEF Telling
  <2>2. CASE active # r
    BY <1>5, <1>6, <2>2 DEF StopsRecording
  <2> QED BY <2>1, <2>2
<1>7. CASE WatchFailed(r)
  BY <1>6, <1>7 DEF WatchFailed
<1>8. CASE WatchStops(r)
  BY <1>6, <1>8 DEF WatchStops
<1>9. CASE WatchReads(r) \/ WatchAnswers(r) \/ WatchEnds(r)
  BY <1>5, <1>9 DEF WatchReads, WatchAnswers, WatchEnds
<1> QED BY <1>7, <1>8, <1>9 DEF WatcherStep

\* What a notice leaves of an outage has its type (Outage::follow).
LEMMA FollowedType ==
  ASSUME NEW out \in [recovering : BOOLEAN, restarting : BOOLEAN],
         NEW notice \in {"changed", "restarting", "resumed", "delivering"}
  PROVE  Followed(out, notice) \in [recovering : BOOLEAN, restarting : BOOLEAN]
BY DEF Followed, NoOutage

\* A countdown armed where there is room for it, and for the one that may
\* follow it, keeps the invariant (arm_auto_stop).
LEMMA ArmsKeeps ==
  ASSUME IInv, CallWatch, NEW t \in Threads, NEW p \in {"ready", "ended", "following"},
         NEW postponable \in BOOLEAN, Arms(t, p, postponable),
         arms < 2 * MaxReleases, postponable => arms + 1 < 2 * MaxReleases,
         t[1] = "notices" => p = "following",
         th[t].at \in {"ready", "out", "resuming"},
         UNCHANGED <<inner, flags, rec, session, bounds>>
  PROVE  IInv' /\ arms + 1 \in Countdowns /\ t # Countdown(arms + 1)
<1> USE DEF inner, flags, session, bounds
<1>1. /\ TypeOK /\ Calm /\ arms < 2 * MaxReleases /\ p \in Places /\ p \in Plain
      /\ p \notin Telling \cup {"none", "asleep"} /\ th[t].at \notin Telling \cup Held \cup {"cancelTests"}
  BY DEF IInv, Calm, Room, Places, Plain, Telling, Held, Beginning, Ending
<1>2. arms + 1 \in Countdowns /\ arms + 1 > arms
  BY <1>1, RecorderAssumption DEF TypeOK, Countdowns
<1>3. th[Countdown(arms + 1)].at = "none" /\ t # Countdown(arms + 1)
  BY <1>2 DEF CallWatch
<1>4. /\ Moved(t, p, th[t].rec) /\ th'[t].at = "announce"
      /\ arms' \in 0..(2 * MaxReleases) /\ calls' \in CallsType
      /\ calls' = [calls EXCEPT !.armed = arms + 1, !.postponable = postponable] \/ calls' = KeptRecording
      /\ arms' = arms + 1
  <2>1. arms' = arms + 1
    BY DEF Arms
  <2>2. /\ Moved(t, p, th[t].rec) /\ th'[t].at = "announce" /\ th'[t].then = p
        /\ arms' = arms + 1 /\ arms' \in 0..(2 * MaxReleases) /\ calls' \in CallsType
        /\ \/ /\ calls' = [calls EXCEPT !.armed = arms + 1, !.postponable = postponable]
              /\ th'[Countdown(arms + 1)].at = "asleep" /\ th'[Countdown(arms + 1)].rec = active
           \/ calls' = KeptRecording /\ th'[Countdown(arms + 1)].at = "none"
    BY <1>1, <1>3, ArmsMoves, ZenonT(60)
  <2> QED BY <2>1, <2>2
<1>5. Room'
  <2>1. calls \in CallsType
    BY <1>1 DEF TypeOK, CallsType
  <2>2. [calls EXCEPT !.armed = arms + 1, !.postponable = postponable].postponable = postponable
    BY <2>1 DEF CallsType
  <2>3. KeptRecording.armed = 0
    BY <2>1, CallsAre
  <2> QED BY <1>4, <2>2, <2>3 DEF Room
<1>6. TypeOK'
  BY <1>1, <1>4 DEF TypeOK, Moved, ThreadType, CallsType
<1>7. IInv'
  BY <1>1, <1>4, <1>5, <1>6, MoveKeeps
<1> QED BY <1>2, <1>3, <1>7

\* A step of the notice thread keeps the invariant.
LEMMA NoticesKeeps ==
  ASSUME IInv, CallWatch, NEW r \in Recordings, NoticesStep(r)
  PROVE  IInv'
<1> USE DEF inner, watch, flags, bounds
<1> DEFINE t == Notices(r)
           Kind == {"changed", "restarting", "resumed", "delivering"}
<1>1. t \in Threads /\ t[1] = "notices" /\ TypeOK /\ Calm
  BY Kinds DEF IInv
<1>2. /\ {"following", "resuming", "ended"} \subseteq Plain \cap Places
      /\ {"following", "resuming", "ended"}
           \cap (Held \cup Telling \cup {"cancelTests", "none", "asleep"}) = {}
  BY DEF Places, Plain, Beginning, Ending, Held, Telling
<1>3. ASSUME NEW p \in {"following", "resuming", "ended"}, Goes(t, p),
             th[t].at \in {"following", "resuming"},
             UNCHANGED <<inner, watch, flags, rec, capture, bounds>>,
             notices' \in [Recordings -> Seq(Kind)],
             outage' \in [Recordings -> [recovering : BOOLEAN, restarting : BOOLEAN]]
      PROVE  IInv'
  <2>1. Moved(t, p, th[t].rec) /\ th'[t].at = p
    BY <1>1, <1>2, <1>3, GoesMoves
  <2>2. TypeOK'
    BY <1>1, <1>3, <2>1 DEF TypeOK, Moved, ThreadType
  <2> QED BY <1>1, <1>2, <1>3, <2>1, <2>2, MoveKeeps DEF Calm, Room
<1>4. /\ notices \in [Recordings -> Seq(Kind)] /\ notices[r] \in Seq(Kind)
      /\ outage \in [Recordings -> [recovering : BOOLEAN, restarting : BOOLEAN]]
      /\ outage[r] \in [recovering : BOOLEAN, restarting : BOOLEAN]
  BY <1>1 DEF TypeOK
<1>5. CASE FollowNotice(r)
  <2>1. notices[r] # <<>>
    BY <1>5 DEF FollowNotice
  <2>2. Head(notices[r]) \in Kind /\ Tail(notices[r]) \in Seq(Kind)
    BY <1>4, <2>1
  <2>3. Followed(outage[r], Head(notices[r])) \in [recovering : BOOLEAN, restarting : BOOLEAN]
    BY <1>4, <2>2, FollowedType
  <2>4. /\ notices' \in [Recordings -> Seq(Kind)]
        /\ outage' \in [Recordings -> [recovering : BOOLEAN, restarting : BOOLEAN]]
    BY <1>4, <1>5, <2>2, <2>3 DEF FollowNotice
  <2>5. PICK p \in {"following", "resuming"} : Goes(t, p)
    BY <1>5 DEF FollowNotice
  <2>6. th[t].at = "following" /\ UNCHANGED <<inner, watch, flags, rec, capture, bounds>>
    BY <1>5 DEF FollowNotice, At
  <2> QED BY <1>3, <2>4, <2>5, <2>6
<1>6. CASE ResumeAutoStop(r)
  <2>1. th[t].at = "resuming" /\ UNCHANGED <<inner, flags, rec, session, bounds>>
    BY <1>6 DEF ResumeAutoStop, At
  <2>2. CASE Goes(t, "following") /\ UNCHANGED watch
    BY <1>3, <1>4, <2>1, <2>2 DEF session
  <2>3. CASE calls.armed # 0 /\ calls.postponable /\ Arms(t, "following", FALSE)
    <3>1. arms < 2 * MaxReleases
      BY <1>1, <2>3 DEF Calm, Room
    <3> QED BY <1>1, <2>1, <2>3, <3>1, ArmsKeeps
  <2> QED BY <1>6, <2>2, <2>3 DEF ResumeAutoStop
<1>7. CASE NoticesEnd(r)
  <2>1. NoOutage \in [recovering : BOOLEAN, restarting : BOOLEAN] /\ <<>> \in Seq(Kind)
    BY DEF NoOutage
  <2>2. /\ notices' \in [Recordings -> Seq(Kind)]
        /\ outage' \in [Recordings -> [recovering : BOOLEAN, restarting : BOOLEAN]]
    BY <1>4, <1>7, <2>1 DEF NoticesEnd
  <2>3. /\ Goes(t, "ended") /\ th[t].at = "following"
        /\ UNCHANGED <<inner, watch, flags, rec, capture, bounds>>
    BY <1>7 DEF NoticesEnd, At
  <2> QED BY <1>3, <2>2, <2>3
<1> QED BY <1>5, <1>6, <1>7 DEF NoticesStep

\* A countdown that runs out begins the stop it is armed for, puts another in
\* its place, or ends.
LEMMA CountdownKeeps ==
  ASSUME IInv, CallWatch, NEW n \in Countdowns, CountdownStep(n)
  PROVE  IInv'
<1> USE DEF inner, watch, flags, session, bounds
<1> DEFINE t == Countdown(n)
<1>1. t \in Threads /\ t[1] = "countdown" /\ TypeOK /\ Calm /\ n # 0
  BY Kinds, RecorderAssumption DEF IInv, Countdowns
<1>2. /\ {"out", "ended"} \subseteq Plain \cap Places
      /\ {"asleep", "out", "ended"} \cap (Held \cup Telling \cup {"cancelTests"}) = {}
  BY DEF Places, Plain, Beginning, Ending, Held, Telling
<1>3. ASSUME NEW p \in {"out", "ended"}, Goes(t, p), th[t].at \in {"asleep", "out"},
             UNCHANGED <<inner, watch, flags, rec, session, bounds>>
      PROVE  IInv'
  <2>1. Moved(t, p, th[t].rec) /\ th'[t].at = p
    BY <1>1, <1>2, <1>3, GoesMoves
  <2>2. TypeOK'
    BY <1>1, <1>3, <2>1 DEF TypeOK, Moved, ThreadType
  <2> QED BY <1>1, <1>2, <1>3, <2>1, <2>2, MoveKeeps DEF Calm, Room
<1>4. CASE CountdownRunsOut(n)
  BY <1>3, <1>4 DEF CountdownRunsOut, At
<1>5. CASE CallEnded(n)
  <2>1. th[t].at = "out" /\ UNCHANGED <<flags, rec, session, bounds>>
    BY <1>5 DEF CallEnded, At
  <2>2. CASE Postpones(n) /\ Arms(t, "ended", FALSE) /\ UNCHANGED inner
    <3>1. arms < 2 * MaxReleases
      BY <1>1, <2>2, RecorderAssumption DEF Calm, Room, Postpones, Countdowns
    <3> QED BY <1>1, <2>1, <2>2, <3>1, ArmsKeeps
  <2>3. CASE Elapsed(n) /\ BeginsStop(t, "callEnded") /\ UNCHANGED <<arms, quitting, holds, error>>
    <3>1. active # 0
      BY <2>3 DEF Elapsed, IInv, Owners
    <3> QED BY <1>1, <1>2, <2>1, <2>3, <3>1, BeginsStopKeeps
  <2>4. CASE Goes(t, "ended") /\ UNCHANGED <<inner, watch>>
    BY <1>3, <2>1, <2>4
  <2> QED BY <1>5, <2>2, <2>3, <2>4 DEF CallEnded
<1> QED BY <1>4, <1>5 DEF CountdownStep

\* What the capture reports keeps the invariant.
LEMMA CaptureKeeps ==
  ASSUME IInv, NEW r \in Recordings, CaptureStep(r)
  PROVE  IInv'
<1> USE DEF inner, watch, flags, bounds
<1> DEFINE Kind == {"changed", "restarting", "resumed", "delivering"}
           CaptureType == [changes : 0..MaxChanges, changing : BOOLEAN, warned : BOOLEAN]
<1>1. /\ TypeOK /\ Calm /\ rec \in [Recordings -> RecordingType] /\ rec[r] \in RecordingType
      /\ notices \in [Recordings -> Seq(Kind)] /\ capture \in [Recordings -> CaptureType]
      /\ capture[r] \in CaptureType
  BY DEF IInv, TypeOK, RecordingType
<1>2. UNCHANGED <<inner, watch, flags, th, outage, starts, releases>> /\ (faults' = faults \/ Fails)
  BY DEF CaptureStep, SessionFails, WriteFails, DeviceChanges, StillRestarting, DeviceResumes,
         Delivers, session
<1>3. faults' \in 0..MaxFaults
  BY <1>1, <1>2, RecorderAssumption DEF Fails, TypeOK
<1>4. /\ rec' \in [Recordings -> RecordingType]
      /\ \A q \in Recordings : rec'[q].overTone = rec[q].overTone
  <2> DEFINE x == [rec[r] EXCEPT !.session = "failed", !.lost = TRUE]
             y == [rec[r] EXCEPT !.spoiled = TRUE]
  <2>1. x \in RecordingType /\ x.overTone = rec[r].overTone
    BY <1>1 DEF RecordingType
  <2>2. y \in RecordingType /\ y.overTone = rec[r].overTone
    BY <1>1 DEF RecordingType
  <2>3. rec' = rec \/ rec' = [rec EXCEPT ![r] = x] \/ rec' = [rec EXCEPT ![r] = y]
    BY DEF CaptureStep, SessionFails, WriteFails, DeviceChanges, StillRestarting, DeviceResumes,
           Delivers
  <2> QED BY <1>1, <2>1, <2>2, <2>3
<1>5. notices' \in [Recordings -> Seq(Kind)]
  <2>1. notices' = notices \/ \E some \in Seq(Kind) : Sends(r, some)
    <3>1. /\ <<"changed">> \in Seq(Kind) /\ <<"restarting">> \in Seq(Kind) /\ <<"resumed">> \in Seq(Kind)
          /\ <<"resumed", "delivering">> \in Seq(Kind) /\ <<"delivering">> \in Seq(Kind)
      OBVIOUS
    <3>2. CASE SessionFails(r) \/ WriteFails(r)
      BY <3>2 DEF SessionFails, WriteFails, session
    <3>3. CASE DeviceChanges(r) \/ StillRestarting(r) \/ DeviceResumes(r) \/ Delivers(r)
      BY <3>1, <3>3 DEF DeviceChanges, StillRestarting, DeviceResumes, Delivers
    <3> QED BY <3>2, <3>3 DEF CaptureStep
  <2>2. ASSUME NEW some \in Seq(Kind) PROVE notices[r] \o some \in Seq(Kind)
    BY <1>1, <2>2
  <2> QED BY <1>1, <2>1, <2>2 DEF Sends
<1>6. capture' \in [Recordings -> CaptureType]
  <2> DEFINE c == capture[r]
  <2>1. CASE DeviceChanges(r)
    <3>1. capture' = [capture EXCEPT ![r] = [c EXCEPT !.changing = TRUE, !.changes = c.changes + 1]]
          /\ c.changes < MaxChanges
      BY <2>1 DEF DeviceChanges
    <3>2. c.changes + 1 \in 0..MaxChanges
      BY <1>1, <3>1, RecorderAssumption
    <3>3. [c EXCEPT !.changing = TRUE, !.changes = c.changes + 1] \in CaptureType
      BY <1>1, <3>2
    <3> QED BY <1>1, <3>1, <3>3
  <2>2. CASE StillRestarting(r)
    BY <1>1, <2>2 DEF StillRestarting
  <2>3. CASE DeviceResumes(r)
    <3>1. /\ [c EXCEPT !.changing = FALSE] \in CaptureType
          /\ [c EXCEPT !.changing = FALSE, !.warned = FALSE] \in CaptureType
      BY <1>1
    <3>2. \/ capture' = [capture EXCEPT ![r] = [c EXCEPT !.changing = FALSE]]
          \/ capture' = [capture EXCEPT ![r] = [c EXCEPT !.changing = FALSE, !.warned = FALSE]]
      BY <2>3 DEF DeviceResumes
    <3> QED BY <1>1, <3>1, <3>2
  <2>4. CASE Delivers(r)
    BY <1>1, <2>4 DEF Delivers
  <2>5. CASE SessionFails(r) \/ WriteFails(r)
    BY <1>1, <2>5 DEF SessionFails, WriteFails, session
  <2> QED BY <2>1, <2>2, <2>3, <2>4, <2>5 DEF CaptureStep
<1>7. TypeOK'
  BY <1>1, <1>2, <1>3, <1>4, <1>5, <1>6 DEF TypeOK, RecordingType
<1> QED BY <1>1, <1>2, <1>4, <1>7, Still DEF Calm, Room

-----------------------------------------------------------------------------
(* The system audio tests and the installs.                                 *)

\* A test is let in only by an idle recorder that refuses no start and does
\* not quit, so it plays into nothing and nobody had to tell it to stop.
LEMMA TestsKeep ==
  ASSUME IInv, NEW test \in Tests, BeginTest(test) \/ EndTest(test)
  PROVE  IInv'
<1> USE DEF inner, watch, flags, session, bounds
<1>1. /\ TypeOK /\ Calm
      /\ UNCHANGED <<inner, watch, live, refused, th, rec, session, bounds>>
      /\ sleepers' \subseteq Threads
  BY DEF IInv, TypeOK, BeginTest, EndTest
<1>2. tone' \in [running : SUBSET Tests, raised : BOOLEAN]
  <2>1. CASE BeginTest(test)
    BY <1>1, <2>1 DEF BeginTest, TypeOK
  <2>2. CASE EndTest(test)
    BY <1>1, <2>2 DEF EndTest, TypeOK
  <2> QED BY <2>1, <2>2
<1>3. TypeOK'
  BY <1>1, <1>2 DEF TypeOK
<1>4. \A t \in Threads : Placed(t)' = Placed(t)
  BY <1>1 DEF Placed
<1>5. Calm' /\ Owners' /\ Leaving'
  BY <1>1, <1>4, Kinds DEF IInv, Calm, Room, Owners, Leaving
<1>6. Holding'
  <2>1. Holders' = Holders
    BY <1>4, Kinds DEF Holders
  <2> QED BY <1>1, <1>4, <2>1, Kinds DEF IInv, Holding, Busy
<1>7. Silence' /\ TestsAreToldToStop'
  <2>1. CASE BeginTest(test)
    <3>1. state = "idle" /\ ~quitting /\ ~refused
      BY <2>1 DEF BeginTest
    <3>2. active = 0 /\ \A t \in Threads : Placed(t) \notin Toned
      BY <3>1 DEF IInv, Owners, Beginning, Toned
    <3> QED BY <1>1, <1>4, <3>1, <3>2 DEF Silence, NoToneInARecording, TestsAreToldToStop
  <2>2. CASE EndTest(test)
    <3>1. tone'.running \subseteq tone.running /\ tone'.raised = tone.raised
      BY <1>1, <2>2 DEF EndTest, TypeOK
    <3> QED BY <1>1, <1>4, <3>1 DEF IInv, Silence, NoToneInARecording, TestsAreToldToStop, At
  <2> QED BY <2>1, <2>2
<1>8. LiveFlagFollows' /\ RefusalGoesWithItsHold'
  BY <1>1 DEF IInv, LiveFlagFollows, RefusalGoesWithItsHold, Busy, At
<1> QED BY <1>3, <1>5, <1>6, <1>7, <1>8 DEF IInv

\* An installer that moves among its own places: what IInv needs besides what
\* becomes of the hold.
LEMMA InstallerMoves ==
  ASSUME IInv, TypeOK', NEW i \in Installers, NEW p \in Held \cup {"ready"},
         Moved(Installer(i), p, th[Installer(i)].rec), th'[Installer(i)].at \in Held \cup {"ready", "announce"},
         th[Installer(i)].at \in Held \cup {"hold"},
         UNCHANGED <<state, active, quitting, live, refused, tone, watch, rec>>,
         Holding', RefusalGoesWithItsHold'
  PROVE  IInv'
<1> DEFINE t == Installer(i)
<1>1. /\ t \in Threads /\ t[1] = "install" /\ Calm
      /\ th[t].at \notin Telling \cup {"cancelTests"}
  BY Kinds DEF IInv, Held, Telling
<1>2. /\ th'[t].then \notin Telling /\ th'[t].rec = th[t].rec /\ Placed(t)' = p
      /\ \A u \in Threads : u # t => /\ Placed(u)' = Placed(u) /\ th'[u].then = th[u].then
                                     /\ (u[1] # "countdown" => th'[u] = th[u])
                                     /\ (Placed(u) # "ended" => th'[u] = th[u])
                                     /\ (th[u].at \in Telling => th'[u] = th[u])
  BY <1>1, MovedIs
<1>3. p \notin Beginning \cup Ending \cup Toned \cup {"start", "watcher", "settle", "gone"}
  BY DEF Beginning, Ending, Held, Toned
<1>10. "ended" \notin Beginning \cup Ending \cup Toned \cup {"start", "watcher"}
  BY DEF Beginning, Ending, Toned
<1>4. Calm'
  <2>1. \A r \in Recordings : Notices(r) # t
    BY <1>1, Kinds
  <2> QED BY <1>1, <1>2, <2>1, Kinds DEF Calm, Room, watch
<1>5. Owners'
  BY <1>2, <1>3, <1>10 DEF IInv, Owners
<1>6. Leaving'
  BY <1>1, <1>2, Kinds DEF IInv, Leaving
<1>7. Silence'
  <2>1. \A u \in Threads : Placed(u)' \in Toned => Placed(u) \in Toned /\ th'[u] = th[u]
    BY <1>2, <1>3, <1>10
  <2> QED BY <2>1 DEF IInv, Silence, NoToneInARecording
<1>8. LiveFlagFollows'
  BY <1>1, <1>2 DEF IInv, LiveFlagFollows, Busy, At, Telling
<1>9. TestsAreToldToStop'
  <2>1. \A x \in Exits : Exit(x) # t
    BY <1>1, Kinds
  <2> QED BY <1>2, <2>1, Kinds DEF IInv, TestsAreToldToStop, At
<1> QED BY <1>4, <1>5, <1>6, <1>7, <1>8, <1>9 DEF IInv

\* An install takes its hold before it looks again, so what it holds stays
\* idle, and its hold is counted until it is dropped (try_hold, HeldStarts).
LEMMA InstallerKeeps ==
  ASSUME IInv, NEW i \in Installers, InstallerStep(i)
  PROVE  IInv'
<1> USE DEF inner, watch, flags, session, bounds
<1> DEFINE t == Installer(i)
<1>1. /\ t \in Threads /\ t[1] = "install" /\ TypeOK /\ Calm
      /\ IsFiniteSet(Holders) /\ holds = Cardinality(Holders) /\ holds \in Nat
  BY Kinds DEF IInv, Holding, TypeOK
<1>2. /\ Held \cup {"hold", "ready", "announce"} \subseteq Places /\ "hold" \in Plain
      /\ {"hold", "ready", "announce"} \cap Held = {}
      /\ (Held \cup {"hold", "ready"}) \cap (Telling \cup Resting) = {}
  BY DEF Held, Places, Plain, Beginning, Ending, Telling, Resting
<1>3. \A j \in Installers : j # i => Installer(j) # t /\ Installer(j) \in Threads
  BY DEF Installer, Threads
<1>4. ASSUME NEW p \in Held \cup {"hold", "ready"}, Goes(t, p)
      PROVE  Moved(t, p, th[t].rec) /\ th'[t].at = p /\ th' \in [Threads -> ThreadType]
  BY <1>1, <1>2, <1>4, GoesMoves DEF Moved, Resting
<1>5. ASSUME NEW p, Moved(t, p, th[t].rec)
      PROVE  /\ Placed(t)' = p
             /\ \A j \in Installers : j # i => Placed(Installer(j))' = Placed(Installer(j))
  BY <1>1, <1>3, <1>5, MovedIs
<1>6. CASE TryHold(i)
  <2>1. /\ th[t].at = "ready" /\ Goes(t, "hold")
        /\ UNCHANGED <<inner, watch, flags, rec, session, bounds>>
    BY <1>6 DEF TryHold, At
  <2>2. TypeOK'
    BY <1>1, <1>4, <2>1 DEF TypeOK, ThreadType
  <2> QED BY <1>1, <1>2, <1>4, <2>1, <2>2, MoveKeeps DEF Calm, Room, Telling
<1>7. CASE HoldStarts(i)
  <2>1. /\ th[t].at = "hold" /\ holds' = holds + 1 /\ Goes(t, "look") /\ "look" \in Held
        /\ UNCHANGED <<state, active, quitting, error, watch, flags, rec, session, bounds>>
    BY <1>7 DEF HoldStarts, At, Held
  <2>2. Moved(t, "look", th[t].rec) /\ th'[t].at = "look" /\ th' \in [Threads -> ThreadType]
    BY <1>4, <2>1
  <2>3. TypeOK'
    BY <1>1, <2>1, <2>2, SMTT(30) DEF TypeOK, ThreadType
  <2>4. Holding'
    <3>1. Placed(t) = "hold" /\ i \notin Holders
      BY <1>2, <2>1 DEF Placed, PlaceOf, Holders, Telling, Resting
    <3>2. Holders' = Holders \cup {i}
      BY <1>5, <2>1, <2>2 DEF Holders
    <3>3. IsFiniteSet(Holders') /\ Cardinality(Holders') = holds + 1
      BY <1>1, <3>1, <3>2, FS_AddElement
    <3> QED BY <1>5, <2>1, <2>2, <3>3 DEF IInv, Holding, Busy
  <2>5. RefusalGoesWithItsHold'
    BY <1>1, <2>1 DEF IInv, RefusalGoesWithItsHold
  <2> QED BY <1>1, <2>1, <2>2, <2>3, <2>4, <2>5, InstallerMoves
<1>8. CASE LookAtStatus(i) \/ InstallFails(i)
  <2>1. PICK p \in {"held", "drop"} :
          /\ Goes(t, p) /\ th[t].at \in {"look", "held"} /\ (p = "held" => ~Busy)
          /\ UNCHANGED <<inner, watch, flags, rec, session, bounds>>
    BY <1>8 DEF LookAtStatus, InstallFails, At
  <2>2. {"look", "held", "drop"} \subseteq Held
    BY DEF Held
  <2>3. Moved(t, p, th[t].rec) /\ th'[t].at = p /\ th' \in [Threads -> ThreadType]
    BY <1>4, <2>1, <2>2
  <2>4. TypeOK'
    BY <1>1, <2>1, <2>3 DEF TypeOK, ThreadType
  <2>5. Holding'
    <3>1. Placed(t) = th[t].at /\ i \in Holders
      BY <2>1, <2>2 DEF Placed, PlaceOf, Holders, Telling, Resting
    <3>2. Holders' = Holders
      BY <1>5, <2>1, <2>2, <2>3, <3>1 DEF Holders
    <3> QED BY <1>1, <1>5, <2>1, <2>3, <3>2 DEF IInv, Holding, Busy
  <2>6. RefusalGoesWithItsHold'
    BY <2>1 DEF IInv, RefusalGoesWithItsHold
  <2> QED BY <1>1, <2>1, <2>2, <2>3, <2>4, <2>5, <2>6, InstallerMoves
<1>9. CASE DropHold(i)
  <2>1. /\ th[t].at = "drop" /\ holds' = holds - 1 /\ error' \in {error, "none"}
        /\ UNCHANGED <<state, active, quitting, watch, flags, rec, session, bounds>>
        /\ (holds = 1 /\ error = "installing" => error' = "none")
    BY <1>9 DEF DropHold, At
  <2>2. Moved(t, "ready", th[t].rec) /\ th'[t].at \in {"ready", "announce"}
        /\ th' \in [Threads -> ThreadType]
    <3>1. CASE Goes(t, "ready")
      BY <1>4, <3>1
    <3>2. CASE th' = Announces(t, "ready")
      BY <1>1, <1>2, <3>2, AnnouncesMoves DEF Moved, Resting
    <3> QED BY <1>9, <3>1, <3>2 DEF DropHold
  <2>3. Placed(t) = "drop" /\ "drop" \in Held /\ i \in Holders
    BY <2>1 DEF Placed, PlaceOf, Held, Holders, Telling, Resting
  <2>4. Holders' = Holders \ {i}
    BY <1>2, <1>5, <2>2, <2>3 DEF Holders
  <2>5. IsFiniteSet(Holders') /\ Cardinality(Holders') = holds - 1 /\ holds > 0
    BY <1>1, <2>3, <2>4, FS_RemoveElement, FS_EmptySet
  <2>6. TypeOK'
    <3>1. holds' \in Nat /\ error' \in {"none", "installing"}
      BY <1>1, <2>1, <2>5 DEF TypeOK
    <3> QED BY <1>1, <2>1, <2>2, <3>1 DEF TypeOK, ThreadType
  <2>7. Holding'
    BY <1>5, <2>1, <2>2, <2>5 DEF IInv, Holding, Busy
  <2>8. RefusalGoesWithItsHold'
    BY <1>1, <2>1, <2>5 DEF IInv, RefusalGoesWithItsHold
  <2> QED BY <1>1, <2>1, <2>2, <2>3, <2>6, <2>7, <2>8, InstallerMoves
<1> QED BY <1>6, <1>7, <1>8, <1>9 DEF InstallerStep

-----------------------------------------------------------------------------
(* What each thread has as its own.                                         *)

\* Countdowns armed, and the one that may still take the place of the armed.
Owed == arms + (IF calls.armed # 0 /\ calls.postponable THEN 1 ELSE 0)

\* What a step of the recorder may not do, whoever takes it: leave a change
\* untold, end a recording by the watcher or the countdown of another, or by
\* the release's own while the capture recovers, or arm a countdown that no
\* release is for.
Minds ==
  /\ (\E u \in Threads : th[u].at \in Telling) => \E u \in Threads : th'[u].at \in Telling
  /\ Busy' => Busy \/ \E u \in Threads : th'[u].at \in Telling
  /\ \A t \in Threads :
       t[1] \in {"watch", "countdown"} /\ active' = 0 /\ th'[t].at = "announce"
         /\ th'[t].why # th[t].why
         => th[t].rec = active
  /\ \A n \in Countdowns :
       active # 0 /\ active' = 0 /\ th[Countdown(n)].at = "out" /\ th'[Countdown(n)].at # "out"
         => ~(outage[active].recovering /\ calls.postponable)
  /\ releases' = releases /\ Owed' <= Owed

\* No countdown is armed anew: the armed one stands or is cancelled.
LEMMA CallWatchKeeps ==
  ASSUME TypeOK, CallWatch, UNCHANGED arms,
         \A n \in Countdowns :
           \/ th'[Countdown(n)] = th[Countdown(n)]
           \/ /\ th[Countdown(n)].at # "none" /\ th'[Countdown(n)].at # "asleep"
              /\ th'[Countdown(n)].then # "asleep"
              /\ calls' = calls /\ calls.armed = n =>
                   th'[Countdown(n)].at = "out" /\ th'[Countdown(n)].rec = th[Countdown(n)].rec,
         \/ /\ calls' = calls
            /\ calls.armed # 0 => /\ UNCHANGED <<state, active>>
                                  /\ \A r \in Recordings : rec'[r].mode = rec[r].mode
         \/ /\ calls'.armed = 0
            /\ calls.armed # 0 => th'[Countdown(calls.armed)].at # "asleep"
  PROVE  CallWatch'
<1>1. calls.armed # 0 => calls.armed \in Countdowns
  BY RecorderAssumption DEF TypeOK, Countdowns
<1>2. active # 0 => active \in Recordings
  BY RecorderAssumption DEF TypeOK, Recordings
<1>3. \A n \in Countdowns : /\ n > arms' => th'[Countdown(n)].at = "none"
                            /\ th'[Countdown(n)].then # "asleep"
  BY DEF CallWatch
<1>4. CASE /\ calls' = calls
           /\ calls.armed # 0 => /\ UNCHANGED <<state, active>>
                                 /\ \A r \in Recordings : rec'[r].mode = rec[r].mode
  <2>1. calls'.armed # 0 =>
          /\ CallRecords' /\ calls'.seen
          /\ th'[Countdown(calls'.armed)].at \in {"asleep", "out"}
          /\ th'[Countdown(calls'.armed)].rec = active'
    BY <1>1, <1>2, <1>4 DEF CallWatch, CallRecords
  <2>2. \A n \in Countdowns : th'[Countdown(n)].at = "asleep" => calls'.armed = n
    BY <1>4 DEF CallWatch
  <2> QED BY <1>3, <2>1, <2>2 DEF CallWatch
<1>5. CASE /\ calls'.armed = 0
           /\ calls.armed # 0 => th'[Countdown(calls.armed)].at # "asleep"
  <2>1. \A n \in Countdowns : th'[Countdown(n)].at # "asleep"
    BY <1>1, <1>5 DEF CallWatch, Countdowns
  <2> QED BY <1>3, <1>5, <2>1 DEF CallWatch
<1> QED BY <1>4, <1>5

\* A thread that moves leaves the notices with whoever has their recording.
LEMMA FollowingKeeps ==
  ASSUME Following, NEW t \in Threads, NEW p, NEW q, Moved(t, p, q),
         t[1] = "notices" => th[t].at \notin {"none", "ended"},
         \A r \in Recordings :
           th'[Notices(r)].at \notin {"none", "ended"} /\ active' # r /\ ~(p \in Carrying /\ q = r)
             => active # r /\ ~(Placed(t) \in Carrying /\ th[t].rec = r)
  PROVE  Following'
<1> SUFFICES ASSUME NEW r \in Recordings, th'[Notices(r)].at \notin {"none", "ended"}, active' # r
             PROVE  \E u \in Threads : Placed(u)' \in Carrying /\ th'[u].rec = r
  BY DEF Following
<1>1. /\ Placed(t)' = p /\ th'[t].rec = q
      /\ \A u \in Threads : u # t =>
           /\ Placed(u)' = Placed(u)
           /\ (u[1] # "countdown" => th'[u] = th[u])
           /\ (Placed(u) # "ended" => th'[u] = th[u])
  BY MovedIs
<1>2. th[Notices(r)].at \notin {"none", "ended"}
  BY <1>1, Kinds
<1>3. CASE p \in Carrying /\ q = r
  BY <1>1, <1>3
<1>4. CASE ~(p \in Carrying /\ q = r)
  <2>1. PICK u \in Threads : Placed(u) \in Carrying /\ th[u].rec = r
    BY <1>2, <1>4 DEF Following
  <2>2. u # t
    BY <1>4, <2>1
  <2> QED BY <1>1, <2>1, <2>2 DEF Carrying
<1> QED BY <1>3, <1>4

\* A thread that moves leaves each start its recording and its watcher.
LEMMA FreshKeeps ==
  ASSUME IInv, Fresh, NEW t \in Threads, NEW p, NEW q, Moved(t, p, q),
         th[t].at # "none", Owners',
         \/ starts' = starts /\ (p \in Upcoming => Placed(t) \in Upcoming /\ q = th[t].rec)
         \/ starts' = starts + 1 /\ t[1] = "call" /\ p = "start" /\ q = starts + 1,
         t[1] = "watch" /\ p \in {"watching", "asking", "ending"} =>
           Placed(t) \in {"watching", "asking", "ending"} /\ q = th[t].rec
  PROVE  Fresh'
<1>1. /\ Placed(t)' = p /\ th'[t].rec = q
      /\ \A u \in Threads : u # t =>
           /\ Placed(u)' = Placed(u)
           /\ (u[1] # "countdown" => th'[u] = th[u])
           /\ (Placed(u) # "ended" => th'[u] = th[u])
  BY MovedIs
<1>2. \A r \in Recordings : th[Watcher(r)].at = "none" => th'[Watcher(r)].at = "none"
  BY <1>1, Kinds
<1>3. starts \in Nat /\ starts' \in {starts, starts + 1}
  BY RecorderAssumption DEF IInv, TypeOK
<1>4. \A r \in Recordings : r > starts' => r > starts
  BY <1>3 DEF Recordings
<1>5. "ended" \notin Upcoming
  BY DEF Upcoming, Beginning
<1>6. \A u \in Threads : u # t /\ Placed(u)' \in Upcoming =>
        Placed(u) \in Upcoming /\ th'[u] = th[u]
  BY <1>1, <1>5
<1>7. \A u \in Threads : Placed(u) \in Upcoming => th[u].rec \in Recordings
  BY DEF IInv, Owners, Upcoming
<1>8. \A u \in Threads : Placed(u)' \in Upcoming =>
        /\ u[1] = "call" /\ th'[u].rec <= starts' /\ th'[Watcher(th'[u].rec)].at = "none"
        /\ u # t => th'[u].rec <= starts
  <2>1. ASSUME NEW u \in Threads, u # t, Placed(u)' \in Upcoming
        PROVE  /\ u[1] = "call" /\ th'[u].rec <= starts /\ th'[u].rec \in Recordings
               /\ th'[Watcher(th'[u].rec)].at = "none"
    BY <1>2, <1>6, <1>7, <2>1 DEF Fresh
  <2>2. \A r \in Recordings : r <= starts => r <= starts'
    BY <1>3 DEF Recordings
  <2>3. CASE starts' = starts /\ (p \in Upcoming => Placed(t) \in Upcoming /\ q = th[t].rec)
    BY <1>1, <1>2, <1>7, <2>1, <2>2, <2>3 DEF Fresh
  <2>4. CASE starts' = starts + 1 /\ t[1] = "call" /\ p = "start" /\ q = starts + 1
    <3>1. q \in Recordings
      BY <1>1, <2>4 DEF Owners
    <3>2. th[Watcher(q)].at = "none" /\ q <= starts'
      BY <1>3, <2>4, <3>1 DEF Fresh
    <3> QED BY <1>1, <1>2, <2>1, <2>2, <2>4, <3>1, <3>2
  <2> QED BY <2>3, <2>4
<1>9. \A u, v \in Threads :
        Placed(u)' \in Upcoming /\ Placed(v)' \in Upcoming /\ th'[u].rec = th'[v].rec => u = v
  <2>1. CASE starts' = starts /\ (p \in Upcoming => Placed(t) \in Upcoming /\ q = th[t].rec)
    BY <1>1, <1>6, <2>1 DEF Fresh
  <2>2. CASE starts' = starts + 1 /\ t[1] = "call" /\ p = "start" /\ q = starts + 1
    <3>1. ASSUME NEW u \in Threads, u # t, Placed(u)' \in Upcoming
          PROVE  th'[u].rec # q
      BY <1>3, <1>6, <1>7, <1>8, <2>2, <3>1 DEF Recordings
    <3> QED BY <1>1, <1>6, <3>1 DEF Fresh
  <2> QED BY <2>1, <2>2
<1>10. \A r \in Recordings :
         Placed(Watcher(r))' \in {"watching", "asking", "ending"} => th'[Watcher(r)].rec = r
  BY <1>1, Kinds DEF Fresh
<1> QED BY <1>2, <1>4, <1>8, <1>9, <1>10 DEF Fresh

\* What a thread that moves minds, whatever it begins.
LEMMA MovesMinding ==
  ASSUME TypeOK, NEW t \in Threads, NEW p, NEW q, Moved(t, p, q),
         th[t].at \notin Telling \/ th'[t].at \in Telling,
         Busy' => Busy \/ th'[t].at \in Telling,
         th'[t].at = "announce" /\ th'[t].why # th[t].why /\ t[1] \in {"watch", "countdown"}
           => th[t].rec = active,
         active # 0 /\ active' = 0 /\ t[1] = "countdown"
           => ~(outage[active].recovering /\ calls.postponable),
         releases' = releases, Owed' <= Owed
  PROVE  Minds
<1>1. \A u \in Threads : u # t /\ th[u].at \in Telling => th'[u].at \in Telling
  BY MovedIs
<1>2. \A u \in Threads : u # t => Left(u)
  BY DEF Moved
<1>3. \A u \in Threads : u # t /\ th'[u].at = "announce" => th'[u] = th[u]
  BY <1>2 DEF Left, Resting
<1>4. \A n \in Countdowns : Countdown(n) # t /\ th[Countdown(n)].at = "out" =>
                               th'[Countdown(n)] = th[Countdown(n)]
  BY <1>2, Kinds DEF Left, Resting
<1> QED BY <1>1, <1>3, <1>4, Kinds DEF Minds

\* A thread that goes on, or announces, and touches no countdown but its own.
LEMMA GoesOn ==
  ASSUME IInv, IInv', Theirs, NEW t \in Threads, NEW p \in Places,
         p \notin Telling \cup {"none", "asleep"},
         Goes(t, p) \/ th' = Announces(t, p), th[t].at \notin Telling \cup {"none", "ended"},
         UNCHANGED <<watch, starts, releases>>,
         t = Countdown(calls.armed) => Goes(t, "out"),
         calls.armed # 0 => UNCHANGED <<state, active>> /\ \A r \in Recordings : rec'[r].mode = rec[r].mode,
         \A r \in Recordings :
           active' # r /\ ~(p \in Carrying /\ th[t].rec = r) =>
             \/ th[Notices(r)].at \in {"none", "ended"}
             \/ active # r /\ ~(Placed(t) \in Carrying /\ th[t].rec = r),
         p \in Upcoming => Placed(t) \in Upcoming,
         t[1] = "watch" /\ p \in {"watching", "asking", "ending"} =>
           Placed(t) \in {"watching", "asking", "ending"},
         Busy' => Busy \/ th' = Announces(t, p), active' = active \/ active = 0
  PROVE  Theirs' /\ Minds
<1> USE DEF watch
<1>1. TypeOK /\ Calm /\ CallWatch /\ Following /\ Fresh /\ Owners'
      /\ th \in [Threads -> ThreadType] /\ th[t] \in ThreadType
  BY DEF IInv, Theirs, TypeOK, ThreadType
<1>2. Moved(t, p, th[t].rec) /\ (th' = Announces(t, p) => th'[t].at = "announce")
  BY <1>1, GoesMoves, AnnouncesMoves
<1>3. \A u \in Threads : u # t => th'[u] = th[u]
  BY <1>1 DEF Goes, Announces
<1>4. ASSUME Goes(t, p) PROVE CallWatch'
  <2>1. th'[t] = [th[t] EXCEPT !.at = p]
    BY <1>1, <1>4 DEF Goes
  <2>2. th'[t].at = p /\ th'[t].then = th[t].then /\ th'[t].rec = th[t].rec /\ th'[t].why = th[t].why
    BY <1>1, <2>1 DEF ThreadType
  <2>3. Goes(t, "out") => p = "out"
    <3>1. ASSUME Goes(t, "out") PROVE th'[t] = [th[t] EXCEPT !.at = "out"]
      BY <1>1, <3>1 DEF Goes
    <3>2. [th[t] EXCEPT !.at = "out"].at = "out"
      BY <1>1 DEF ThreadType
    <3> QED BY <2>2, <3>1, <3>2
  <2>4. \A n \in Countdowns :
          \/ th'[Countdown(n)] = th[Countdown(n)]
          \/ /\ th[Countdown(n)].at # "none" /\ th'[Countdown(n)].at # "asleep"
             /\ th'[Countdown(n)].then # "asleep"
             /\ calls' = calls /\ calls.armed = n =>
                  th'[Countdown(n)].at = "out" /\ th'[Countdown(n)].rec = th[Countdown(n)].rec
    BY <1>1, <1>3, <2>2, <2>3, Kinds DEF CallWatch
  <2> QED BY <1>1, <2>4, CallWatchKeeps
<1>5. ASSUME th' = Announces(t, p) PROVE CallWatch'
  <2>1. th'[t] = [th[t] EXCEPT !.at = "announce", !.then = p]
    BY <1>1, <1>5 DEF Announces
  <2>2. th'[t].at = "announce" /\ th'[t].then = p /\ th'[t].why = th[t].why
    BY <1>1, <2>1 DEF ThreadType
  <2>3. ~Goes(t, "out")
    <3>1. ASSUME Goes(t, "out") PROVE th'[t] = [th[t] EXCEPT !.at = "out"]
      BY <1>1, <3>1 DEF Goes
    <3>2. [th[t] EXCEPT !.at = "out"].at = "out"
      BY <1>1 DEF ThreadType
    <3> QED BY <2>2, <3>1, <3>2
  <2>4. \A n \in Countdowns :
          \/ th'[Countdown(n)] = th[Countdown(n)]
          \/ /\ th[Countdown(n)].at # "none" /\ th'[Countdown(n)].at # "asleep"
             /\ th'[Countdown(n)].then # "asleep"
             /\ calls' = calls /\ calls.armed = n =>
                  th'[Countdown(n)].at = "out" /\ th'[Countdown(n)].rec = th[Countdown(n)].rec
    BY <1>1, <1>3, <2>2, <2>3, Kinds
  <2> QED BY <1>1, <2>4, CallWatchKeeps
<1>6. CallWatch' /\ th'[t].why = th[t].why
  <2>1. Goes(t, p) => th'[t].why = th[t].why
    BY <1>1 DEF Goes, ThreadType
  <2>2. th' = Announces(t, p) => th'[t].why = th[t].why
    BY <1>1 DEF Announces, ThreadType
  <2> QED BY <1>4, <1>5, <2>1, <2>2
<1>7. Following'
  <2>1. \A r \in Recordings : th'[Notices(r)].at \notin {"none", "ended"} =>
                                th[Notices(r)].at \notin {"none", "ended"}
    BY <1>3, Kinds
  <2> QED BY <1>1, <1>2, <2>1, FollowingKeeps
<1>8. Fresh'
  BY <1>1, <1>2, FreshKeeps
<1>9. Minds
  <2>1. Owed' = Owed
    BY DEF Owed
  <2>2. arms \in Nat /\ Owed \in Nat
    BY <1>1, RecorderAssumption DEF Owed, TypeOK
  <2>3. Busy' => Busy \/ th'[t].at \in Telling
    BY <1>2 DEF Telling
  <2> QED BY <1>1, <1>2, <1>6, <2>1, <2>2, <2>3, MovesMinding
<1> QED BY <1>6, <1>7, <1>8, <1>9 DEF Theirs

\* A thread that announces a change with which the countdown goes.
LEMMA DisarmsRest ==
  ASSUME IInv, IInv', Theirs, NEW t \in Threads, NEW p \in Places,
         p \notin Telling \cup Upcoming \cup Carrying \cup {"none", "asleep", "watching", "asking", "ending"}
           \/ (p = "tones" /\ Placed(t) \in Upcoming),
         th' = Disarmed(Announces(t, p)), th[t].at \notin Telling \cup {"none", "ended"},
         UNCHANGED <<active, arms, starts, releases>>, calls'.armed = 0,
         Placed(t) \notin Carrying
  PROVE  Theirs' /\ Minds
<1>1. TypeOK /\ Calm /\ CallWatch /\ Following /\ Fresh /\ Owners'
      /\ th \in [Threads -> ThreadType] /\ th[t] \in ThreadType
  BY DEF IInv, Theirs, TypeOK, ThreadType
<1>2. p \notin Telling \cup {"none", "asleep", "watching", "asking", "ending"} \cup Carrying
      /\ (p \in Upcoming => Placed(t) \in Upcoming)
  BY DEF Telling, Carrying
<1>3. Moved(t, p, th[t].rec) /\ th'[t].at = "announce"
  BY <1>1, <1>2, AnnouncesMoves
<1>4. /\ th'[t].at = "announce" /\ th'[t].then = p /\ th'[t].why = th[t].why
      /\ \A u \in Threads : u # t =>
           \/ th'[u] = th[u]
           \/ /\ u[1] = "countdown" /\ th[u].at = "asleep"
              /\ th'[u].at = "ended" /\ th'[u].then = th[u].then
      /\ calls.armed # 0 => th'[Countdown(calls.armed)].at # "asleep"
  BY <1>1, AnnouncedIs
<1>5. CallWatch'
  <2>1. \A n \in Countdowns :
          \/ th'[Countdown(n)] = th[Countdown(n)]
          \/ /\ th[Countdown(n)].at # "none" /\ th'[Countdown(n)].at # "asleep"
             /\ th'[Countdown(n)].then # "asleep"
             /\ (calls' = calls /\ calls.armed = n => FALSE)
    BY <1>1, <1>2, <1>4, Kinds, RecorderAssumption DEF CallWatch, Countdowns
  <2> QED BY <1>1, <1>4, <2>1, CallWatchKeeps
<1>6. Following'
  <2>1. \A r \in Recordings : th'[Notices(r)].at \notin {"none", "ended"} =>
                                th[Notices(r)].at \notin {"none", "ended"}
    BY <1>4, Kinds
  <2> QED BY <1>1, <1>3, <2>1, FollowingKeeps
<1>7. Fresh'
  BY <1>1, <1>2, <1>3, FreshKeeps
<1>8. Minds
  <2>1. arms \in Nat /\ Owed' = arms /\ Owed \in {arms, arms + 1}
    BY <1>1, RecorderAssumption DEF Owed, TypeOK
  <2> QED BY <1>1, <1>3, <1>4, <2>1, MovesMinding DEF Telling
<1> QED BY <1>5, <1>6, <1>7, <1>8 DEF Theirs

\* A stop that begins: a watcher or a countdown begins that of its own
\* recording, which it then carries.
LEMMA BeginsRest ==
  ASSUME IInv, IInv', Theirs, NEW t \in Threads,
         NEW why \in {"manual", "quit", "callEnded", "deviceLost", "failed"}, BeginsStop(t, why),
         active # 0, th[t].at \notin Telling \cup {"none", "ended"},
         t[1] = "watch" => t = Watcher(active) /\ th[t].at \in {"watching", "ending"},
         t[1] = "countdown" => /\ t = Countdown(calls.armed) /\ calls.armed # 0
                                /\ ~(outage[active].recovering /\ calls.postponable),
         UNCHANGED <<arms, starts, releases>>
  PROVE  Theirs' /\ Minds
<1>1. TypeOK /\ Calm /\ CallWatch /\ Following /\ Fresh /\ Owners'
  BY DEF IInv, Theirs
<1>8. active \in Recordings
  BY <1>1, RecorderAssumption DEF TypeOK, Recordings
<1>2. /\ Moved(t, "stopSession", active) /\ th'[t].at = "announce" /\ th'[t].why = why
      /\ state' = "stopping" /\ active' = 0 /\ calls' = Forgotten
      /\ \A u \in Threads :
           u # t => th'[u] = th[u] \/ (th[u].at = "asleep" /\ th'[u].at = "ended")
      /\ calls.armed # 0 => th'[Countdown(calls.armed)].at # "asleep"
  BY <1>1, BeginsStopMoves
<1>3. th'[t].then # "asleep" /\ \A u \in Threads : u # t => th'[u].then = th[u].then
  <2>1. th'[t].then = "stopSession"
    BY <1>2 DEF Moved, PlaceOf, Telling, Resting
  <2> QED BY <1>2, <2>1, MovedIs
<1>4. CallWatch'
  <2>1. calls'.armed = 0
    BY <1>2 DEF Forgotten
  <2>2. \A n \in Countdowns :
          \/ th'[Countdown(n)] = th[Countdown(n)]
          \/ /\ th[Countdown(n)].at # "none" /\ th'[Countdown(n)].at # "asleep"
             /\ th'[Countdown(n)].then # "asleep"
             /\ (calls' = calls /\ calls.armed = n => FALSE)
    BY <1>1, <1>2, <1>3, <2>1, Kinds, RecorderAssumption DEF CallWatch, Countdowns
  <2> QED BY <1>1, <1>2, <2>1, <2>2, CallWatchKeeps
<1>5. Following'
  <2>1. "stopSession" \in Carrying /\ state = "recording"
    BY DEF Carrying, IInv, Owners
  <2>2. \A u \in Threads : Placed(u) \notin Carrying
    BY <2>1 DEF IInv, Owners, Carrying, Beginning, Ending
  <2> QED BY <1>1, <1>2, <1>8, <2>1, <2>2, FollowingKeeps
<1>6. Fresh'
  <2>1. "stopSession" \notin Upcoming
    BY DEF Upcoming, Beginning
  <2> QED BY <1>1, <1>2, <2>1, FreshKeeps
<1>7. Minds
  <2>1. arms \in Nat /\ Owed' = arms /\ Owed \in {arms, arms + 1}
    BY <1>1, <1>2, RecorderAssumption DEF Owed, TypeOK, Forgotten
  <2>2. t[1] = "watch" => th[t].rec = active
    <3>1. t[1] = "watch" => Placed(t) \in {"watching", "ending"}
      BY DEF Placed, PlaceOf, Telling, Resting
    <3> QED BY <1>1, <1>8, <3>1 DEF Fresh
  <2>3. t[1] = "countdown" => th[t].rec = active
    BY <1>1 DEF CallWatch
  <2> QED BY <1>1, <1>2, <2>1, <2>2, <2>3, MovesMinding DEF Telling
<1> QED BY <1>4, <1>5, <1>6, <1>7 DEF Theirs

\* A countdown that is armed is the call's in progress, and takes the armed
\* one's place.
LEMMA ArmsRest ==
  ASSUME IInv, IInv', Theirs, NEW t \in Threads, NEW p \in {"ready", "ended", "following"},
         NEW postponable \in BOOLEAN, Arms(t, p, postponable), arms < 2 * MaxReleases,
         th[t].at \notin Telling \cup {"none", "ended"}, CallRecords, calls.seen,
         Placed(t) \notin Carrying \cup Upcoming,
         UNCHANGED <<inner, rec, starts, releases>>
  PROVE  /\ Theirs' /\ th'[t].at = "announce"
         /\ Owed' <= Owed + (IF calls.armed # 0 /\ calls.postponable THEN 0 ELSE 1)
                          + (IF postponable THEN 1 ELSE 0)
         /\ calls.armed # 0 /\ calls.postponable /\ ~postponable => Minds
<1> USE DEF inner
<1> DEFINE n == arms + 1
           w == Countdown(n)
<1>1. TypeOK /\ Calm /\ CallWatch /\ Following /\ Fresh /\ Owners'
      /\ arms \in 0..(2 * MaxReleases) /\ calls \in CallsType
  BY DEF IInv, Theirs, TypeOK, CallsType
<1>2. n \in Countdowns /\ n > arms /\ n # 0
  BY <1>1, RecorderAssumption DEF Countdowns
<1>3. /\ th[w].at = "none" /\ t # w
      /\ p \in Places /\ p \notin Telling \cup {"none", "asleep"} \cup Carrying \cup Upcoming
  BY <1>1, <1>2 DEF CallWatch, Places, Telling, Carrying, Upcoming, Beginning
<1>4. /\ Moved(t, p, th[t].rec) /\ th'[t].at = "announce" /\ th'[t].then = p /\ arms' = n
      /\ \/ /\ calls' = [calls EXCEPT !.armed = n, !.postponable = postponable]
            /\ th'[w].at = "asleep" /\ th'[w].rec = active
         \/ calls' = KeptRecording /\ th'[w].at = "none"
      /\ \A u \in Threads : u # t /\ u # w =>
           th'[u] = th[u] \/ (th[u].at = "asleep" /\ th'[u].at = "ended")
      /\ calls.armed # 0 /\ calls.armed # n => th'[Countdown(calls.armed)].at # "asleep"
  <2>1. /\ TypeOK /\ Calm /\ p \in Places /\ p \notin Telling \cup {"none", "asleep"}
        /\ th[Countdown(arms + 1)].at = "none" /\ t # Countdown(arms + 1)
    BY <1>1, <1>3
  <2>2. /\ Moved(t, p, th[t].rec) /\ th'[t].at = "announce" /\ th'[t].then = p
        /\ arms' = arms + 1 /\ arms' \in 0..(2 * MaxReleases) /\ calls' \in CallsType
        /\ \/ /\ calls' = [calls EXCEPT !.armed = arms + 1, !.postponable = postponable]
              /\ th'[Countdown(arms + 1)].at = "asleep" /\ th'[Countdown(arms + 1)].rec = active
           \/ calls' = KeptRecording /\ th'[Countdown(arms + 1)].at = "none"
        /\ \A u \in Threads : u # t /\ u # Countdown(arms + 1) =>
             th'[u] = th[u] \/ (th[u].at = "asleep" /\ th'[u].at = "ended")
        /\ calls.armed # 0 /\ calls.armed # arms + 1 => th'[Countdown(calls.armed)].at # "asleep"
    BY <2>1, ArmsMoves
  <2> QED BY <2>2
<1>5. \/ /\ calls'.armed = n /\ calls'.postponable = postponable /\ calls'.seen
         /\ th'[w].at = "asleep" /\ th'[w].rec = active
      \/ calls'.armed = 0 /\ th'[w].at = "none"
  <2>1. CASE /\ calls' = [calls EXCEPT !.armed = n, !.postponable = postponable]
             /\ th'[w].at = "asleep" /\ th'[w].rec = active
    BY <1>1, <2>1 DEF CallsType
  <2>2. CASE calls' = KeptRecording /\ th'[w].at = "none"
    BY <1>1, <2>2, CallsAre
  <2> QED BY <1>4, <2>1, <2>2
<1> HIDE DEF n
<1>6. CallWatch'
  <2>1. \A m \in Countdowns : Countdown(m) = w => m = n
    BY DEF Countdown
  <2>2. ASSUME NEW m \in Countdowns
        PROVE  /\ m > arms' => th'[Countdown(m)].at = "none"
               /\ th'[Countdown(m)].then # "asleep"
    <3>1. m > arms' => m > arms /\ m # n
      BY <1>1, <1>4 DEF n, Countdowns
    <3>2. m > arms' => th'[Countdown(m)].at = "none"
      BY <1>1, <1>4, <2>1, <3>1, Kinds DEF CallWatch
    <3>3. Countdown(m) # t => th'[Countdown(m)].then = th[Countdown(m)].then
      BY <1>4, MovedIs, Kinds
    <3>4. th'[t].then # "asleep"
      BY <1>3, <1>4
    <3> QED BY <1>1, <3>2, <3>3, <3>4 DEF CallWatch
  <2>3. calls'.armed # 0 =>
          /\ CallRecords' /\ calls'.seen
          /\ th'[Countdown(calls'.armed)].at \in {"asleep", "out"}
          /\ th'[Countdown(calls'.armed)].rec = active'
    BY <1>5 DEF CallRecords
  <2>4. ASSUME NEW m \in Countdowns, th'[Countdown(m)].at = "asleep"
        PROVE  calls'.armed = m
    <3>1. CASE m = n
      BY <1>5, <2>4, <3>1
    <3>2. CASE m # n
      <4>1. th'[Countdown(m)] = th[Countdown(m)]
        BY <1>4, <2>1, <2>4, <3>2, Kinds
      <4>2. calls.armed = m /\ m # 0
        BY <1>1, <2>4, <4>1 DEF CallWatch, Countdowns
      <4> QED BY <1>4, <2>4, <3>2, <4>2
    <3> QED BY <3>1, <3>2
  <2> QED BY <2>2, <2>3, <2>4 DEF CallWatch
<1>7. Following'
  <2>1. \A r \in Recordings : th'[Notices(r)].at \notin {"none", "ended"} =>
                                th[Notices(r)].at \notin {"none", "ended"}
    BY <1>4, MovedIs, Kinds
  <2> QED BY <1>1, <1>4, <2>1, FollowingKeeps
<1>8. Fresh'
  <2>1. p \notin {"watching", "asking", "ending"}
    OBVIOUS
  <2> QED BY <1>1, <1>3, <1>4, <2>1, FreshKeeps
<1>9. Owed' <= Owed + (IF calls.armed # 0 /\ calls.postponable THEN 0 ELSE 1)
                    + (IF postponable THEN 1 ELSE 0)
  BY <1>1, <1>4, <1>5, RecorderAssumption DEF Owed, n
<1>10. ASSUME calls.armed # 0, calls.postponable, ~postponable PROVE Minds
  <2>1. Owed' <= Owed
    BY <1>1, <1>4, <1>5, <1>10, RecorderAssumption DEF Owed, n
  <2>2. active' # 0
    BY DEF CallRecords
  <2>3. \E u \in Threads : th'[u].at \in Telling
    BY <1>4 DEF Telling
  <2> QED BY <2>1, <2>2, <2>3 DEF Minds
<1> QED BY <1>4, <1>6, <1>7, <1>8, <1>9, <1>10 DEF Theirs

\* A step that moves no thread and leaves the status alone leaves each thread
\* its own.
LEMMA StillRest ==
  ASSUME IInv, Theirs, UNCHANGED <<state, active, watch, th, starts, releases>>,
         \A r \in Recordings : rec'[r].mode = rec[r].mode
  PROVE  Theirs' /\ Minds
<1> USE DEF watch
<1>1. TypeOK /\ CallWatch /\ Following /\ Fresh
  BY DEF IInv, Theirs
<1>2. CallWatch'
  BY <1>1, CallWatchKeeps
<1>3. \A t \in Threads : Placed(t)' = Placed(t)
  BY DEF Placed
<1>4. Following' /\ Fresh'
  BY <1>1, <1>3, Kinds DEF Following, Fresh
<1>5. Minds
  <2>1. arms \in Nat /\ Owed' = Owed /\ Owed \in {arms, arms + 1}
    BY <1>1, RecorderAssumption DEF TypeOK, Owed
  <2> QED BY <2>1 DEF Minds, Busy
<1> QED BY <1>2, <1>4, <1>5 DEF Theirs

\* Telling of a change leaves each thread its own, and begins no stop.
LEMMA ToldRest ==
  ASSUME IInv, IInv', Theirs, NEW t \in Threads, th[t].at \in Telling,
         th' = Through(t, th[t].then) \/ th' = [th EXCEPT ![t].at = "hook"],
         UNCHANGED <<state, active, watch, rec, starts, releases>>
  PROVE  /\ Theirs' /\ Owed' = Owed
         /\ \A u \in Threads : u # t /\ th[u].at \in Telling => th'[u] = th[u]
         /\ \A u \in Threads : th'[u].at = "announce" => th'[u] = th[u]
<1> USE DEF watch
<1>1. TypeOK /\ Calm /\ CallWatch /\ Following /\ Fresh /\ Owners'
      /\ th \in [Threads -> ThreadType] /\ th[t] \in ThreadType
  BY DEF IInv, Theirs, TypeOK, ThreadType
<1>2. /\ Moved(t, Placed(t), th'[t].rec)
      /\ Placed(t) \notin {"ready", "gone", "ended"} => th'[t].rec = th[t].rec
      /\ th'[t].at = "hook" \/ th'[t].at \notin Telling
  BY <1>1, ToldMoves
<1>3. \A u \in Threads : u # t => th'[u] = th[u]
  BY <1>1 DEF Through
<1>4. th[t].at \notin {"none", "ended", "asleep", "out"}
  BY DEF Telling
<1>5. CallWatch'
  <2>1. ASSUME t[1] = "countdown" PROVE th'[t].at # "asleep" /\ th'[t].then # "asleep"
    <3>1. th[t].then # "asleep"
      <4>1. t[1] = "countdown" => \E n \in Countdowns : t = Countdown(n)
        BY DEF Threads, Notices, Caller, Watcher, Countdown, Installer, Exit, Detector
      <4> QED BY <1>1, <2>1, <4>1 DEF CallWatch
    <3>2. CASE th' = [th EXCEPT ![t].at = "hook"]
      <4>1. th'[t] = [th[t] EXCEPT !.at = "hook"]
        BY <1>1, <3>2
      <4> QED BY <1>1, <3>1, <4>1 DEF ThreadType
    <3>3. CASE th' = Through(t, th[t].then)
      <4>1. th'[t] = IF th[t].then \in {"ready", "gone", "ended"}
                       THEN [NoThread EXCEPT !.at = th[t].then]
                       ELSE [th[t] EXCEPT !.at = th[t].then, !.then = "none"]
        BY <1>1, <3>3 DEF Through
      <4> QED BY <1>1, <3>1, <4>1 DEF ThreadType, NoThread
    <3> QED BY <3>2, <3>3
  <2>2. \A n \in Countdowns :
          \/ th'[Countdown(n)] = th[Countdown(n)]
          \/ /\ th[Countdown(n)].at # "none" /\ th'[Countdown(n)].at # "asleep"
             /\ th'[Countdown(n)].then # "asleep"
             /\ (calls' = calls /\ calls.armed = n => FALSE)
    BY <1>1, <1>3, <1>4, <2>1, Kinds, RecorderAssumption DEF CallWatch, Countdowns
  <2> QED BY <1>1, <2>2, CallWatchKeeps
<1>6. Following'
  <2>1. \A r \in Recordings : th'[Notices(r)].at \notin {"none", "ended"} =>
                                th[Notices(r)].at \notin {"none", "ended"}
    BY <1>3, <1>4, Kinds
  <2>2. Placed(t) \in Carrying => th'[t].rec = th[t].rec
    BY <1>2 DEF Carrying
  <2> QED BY <1>1, <1>2, <1>4, <2>1, <2>2, FollowingKeeps
<1>7. Fresh'
  <2>1. Placed(t) \in Upcoming \cup {"watching", "asking", "ending"} => th'[t].rec = th[t].rec
    BY <1>2 DEF Upcoming, Beginning
  <2> QED BY <1>1, <1>2, <1>4, <2>1, FreshKeeps
<1>8. Owed' = Owed
  BY DEF Owed
<1>9. \A u \in Threads : th'[u].at = "announce" => th'[u] = th[u]
  BY <1>2, <1>3 DEF Telling
<1> QED BY <1>3, <1>5, <1>6, <1>7, <1>8, <1>9 DEF Theirs


-----------------------------------------------------------------------------
(* Each step leaves each thread its own.                                    *)

\* Only a recording of a call has a countdown armed.
LEMMA Unarmed ==
  ASSUME CallWatch
  PROVE  /\ state # "recording" => calls.armed = 0
         /\ \A t \in Threads : t = Countdown(calls.armed) => calls.armed # 0 /\ t[1] = "countdown"
<1>1. state # "recording" => calls.armed = 0
  BY DEF CallWatch, CallRecords
<1>2. \A t \in Threads : t # Countdown(0)
  BY RecorderAssumption DEF Threads, Notices, Caller, Watcher, Countdown, Installer, Exit, Detector,
     Countdowns
<1>3. Countdown(calls.armed)[1] = "countdown"
  BY DEF Countdown
<1> QED BY <1>1, <1>2, <1>3

\* A thread that goes on, or announces, where no part above looks.
LEMMA PlainGoesOn ==
  ASSUME IInv, IInv', Theirs, NEW t \in Threads, t[1] # "countdown", NEW p \in Places,
         p \notin Telling \cup Carrying \cup Upcoming
                  \cup {"none", "asleep", "watching", "asking", "ending"},
         Goes(t, p) \/ th' = Announces(t, p),
         th[t].at \notin Telling \cup Carrying \cup {"none", "ended"},
         UNCHANGED <<state, active, watch, rec, starts, releases>>
  PROVE  Theirs' /\ Minds
<1>1. t # Countdown(calls.armed)
  BY DEF Countdown
<1>2. Placed(t) \notin Carrying
  BY DEF Placed, PlaceOf, Carrying
<1> QED BY <1>1, <1>2, GoesOn DEF Busy

\* A caller that asks for a start takes the next recording.
LEMMA AsksToStartRest ==
  ASSUME IInv, IInv', Theirs, NEW c \in Callers, NEW mode \in Modes \cup {"call"}, NEW app \in BOOLEAN,
         AsksToStart(c, mode, app), At(Caller(c), "ready"),
         UNCHANGED <<state, active, watch, rec, releases>>
  PROVE  Theirs' /\ Minds
<1> USE DEF watch
<1> DEFINE t == Caller(c)
<1>1. /\ TypeOK /\ CallWatch /\ Following /\ Fresh /\ Owners'
      /\ t \in Threads /\ t[1] = "call" /\ th[t].at = "ready" /\ Placed(t) = "ready"
  BY Kinds DEF IInv, Theirs, At, Placed, PlaceOf, Telling, Resting
<1>2. Moved(t, "start", starts + 1) /\ th'[t].at = "start" /\ starts' = starts + 1
  BY <1>1, AsksToStartMoves DEF AsksToStart
<1>3. \A u \in Threads : u # t => th'[u] = th[u]
  BY <1>1 DEF AsksToStart, TypeOK
<1>4. CallWatch'
  <2>1. \A n \in Countdowns : th'[Countdown(n)] = th[Countdown(n)]
    BY <1>1, <1>3, Kinds
  <2> QED BY <1>1, <2>1, CallWatchKeeps
<1>5. Following'
  <2>1. Placed(t) \notin Carrying
    BY <1>1 DEF Carrying
  <2> QED BY <1>1, <1>2, <2>1, FollowingKeeps
<1>6. Fresh'
  BY <1>1, <1>2, FreshKeeps
<1>7. Minds
  <2>1. arms \in Nat /\ Owed' = Owed /\ Owed \in {arms, arms + 1}
    BY <1>1, RecorderAssumption DEF Owed, TypeOK
  <2> QED BY <1>1, <1>2, <2>1, MovesMinding DEF Telling, Busy
<1> QED BY <1>4, <1>5, <1>6, <1>7 DEF Theirs

\* A caller that asks.
LEMMA AsksRest ==
  ASSUME IInv, IInv', Theirs, NEW c \in Callers, NEW command \in Commands, Asks(c, command)
  PROVE  Theirs' /\ Minds
<1> USE DEF inner, watch
<1> DEFINE t == Caller(c)
<1>1. /\ t \in Threads /\ t[1] = "call" /\ th[t].at = "ready" /\ At(t, "ready")
      /\ UNCHANGED <<inner, watch, rec, releases>>
  BY Kinds DEF Asks, At
<1>2. ASSUME NEW mode \in Modes \cup {"call"}, AsksToStart(c, mode, FALSE)
      PROVE  Theirs' /\ Minds
  BY <1>1, <1>2, AsksToStartRest
<1>3. ASSUME NEW p \in {"stop", "keep", "clear"}, Goes(t, p), UNCHANGED starts
      PROVE  Theirs' /\ Minds
  <2>1. /\ p \in Places
        /\ p \notin Telling \cup Carrying \cup Upcoming
                    \cup {"none", "asleep", "watching", "asking", "ending"}
        /\ th[t].at \notin Telling \cup Carrying \cup {"none", "ended"}
    BY <1>1 DEF Places, Telling, Carrying, Upcoming, Beginning
  <2> QED BY <1>1, <1>3, <2>1, PlainGoesOn
<1>4. command \in {"start", "toggle", "stop", "keep", "clear"}
  BY RecorderAssumption
<1> QED BY <1>2, <1>3, <1>4 DEF Asks

\* keep_recording, clear_messages and stop.
LEMMA CommandRest ==
  ASSUME IInv, IInv', Theirs, NEW c \in Callers, KeepRecording(c) \/ ClearMessages(c) \/ Stop(c)
  PROVE  Theirs' /\ Minds
<1> USE DEF inner, watch, bounds
<1> DEFINE t == Caller(c)
<1>1. /\ t \in Threads /\ t[1] = "call" /\ TypeOK /\ CallWatch
      /\ th[t].at \in {"keep", "clear", "stop"}
      /\ th[t].at \notin Telling \cup Carrying \cup {"none", "ended"} /\ Placed(t) \notin Carrying
  BY Kinds DEF IInv, Theirs, KeepRecording, ClearMessages, Stop, At, Telling, Carrying, Placed,
               PlaceOf
<1>2. /\ "ready" \in Places
      /\ "ready" \notin Telling \cup Carrying \cup Upcoming
                        \cup {"none", "asleep", "watching", "asking", "ending"}
  BY DEF Places, Telling, Carrying, Upcoming, Beginning
<1>3. CASE KeepRecording(c)
  <2>1. /\ th' = Disarmed(Announces(t, "ready")) /\ calls'.armed = 0
        /\ UNCHANGED <<active, arms, starts, releases>>
    BY <1>1, <1>3, CallsAre DEF KeepRecording, TypeOK, CallsType
  <2> QED BY <1>1, <1>2, <2>1, DisarmsRest
<1>4. CASE ClearMessages(c)
  BY <1>1, <1>2, <1>4, PlainGoesOn DEF ClearMessages
<1>5. CASE Stop(c) /\ active # 0
  <2>1. BeginsStop(t, "manual") /\ UNCHANGED <<arms, starts, releases>>
    BY <1>5 DEF Stop
  <2> QED BY <1>1, <1>5, <2>1, BeginsRest
<1>6. CASE Stop(c) /\ active = 0
  <2>1. Goes(t, "ready") /\ UNCHANGED <<state, active, watch, rec, starts, releases>>
    BY <1>6 DEF Stop
  <2> QED BY <1>1, <1>2, <2>1, PlainGoesOn
<1> QED BY <1>3, <1>4, <1>5, <1>6

\* A start that is let in, or is not.
LEMMA StartRest ==
  ASSUME IInv, IInv', Theirs, NEW c \in Callers, Start(c)
  PROVE  Theirs' /\ Minds
<1> USE DEF watch, bounds
<1> DEFINE t == Caller(c)
<1>1. /\ t \in Threads /\ t[1] = "call" /\ TypeOK /\ th[t].at = "start" /\ Placed(t) = "start"
      /\ UNCHANGED <<active, arms, rec, starts, releases>>
  BY Kinds DEF IInv, Start, At, Placed, PlaceOf, Telling, Resting
<1>2. /\ "ready" \in Places /\ "tones" \in Places
      /\ "ready" \notin Telling \cup Carrying \cup Upcoming
                        \cup {"none", "asleep", "watching", "asking", "ending"}
      /\ "start" \notin Telling \cup Carrying \cup {"none", "ended"} /\ "start" \in Upcoming
  BY DEF Places, Telling, Carrying, Upcoming, Beginning
<1>3. CASE (Goes(t, "ready") \/ th' = Announces(t, "ready")) /\ UNCHANGED <<state, calls>>
  BY <1>1, <1>2, <1>3, PlainGoesOn
<1>4. CASE th' = Disarmed(Announces(t, "tones")) /\ calls' = [Forgotten EXCEPT !.seen = th[t].app]
  <2>1. calls'.armed = 0
    BY <1>4 DEF Forgotten
  <2> QED BY <1>1, <1>2, <1>4, <2>1, DisarmsRest
<1> QED BY <1>3, <1>4 DEF Start

\* A start in its own places.
LEMMA StartingRest ==
  ASSUME IInv, IInv', Theirs, NEW c \in Callers,
         StopToneTests(c) \/ ToneTestPatience(c) \/ OpenSession(c) \/ BeginMeeting(c)
  PROVE  Theirs' /\ Minds
<1> USE DEF inner, watch, bounds
<1> DEFINE t == Caller(c)
<1>1. /\ t \in Threads /\ t[1] = "call" /\ CallWatch
      /\ th[t].at \in {"tones", "toneWait", "open", "begin"} /\ Placed(t) = th[t].at
      /\ UNCHANGED <<state, active, watch, starts, releases>>
  BY Kinds DEF Theirs, StopToneTests, ToneTestPatience, OpenSession, BeginMeeting, At, Placed, PlaceOf,
               Telling, Resting
<1>2. PICK p \in {"toneWait", "open", "begin", "session", "refuse"} : Goes(t, p)
  BY DEF StopToneTests, ToneTestPatience, OpenSession, BeginMeeting
<1>3. /\ p \in Places /\ p \notin Telling \cup {"none", "asleep", "watching", "asking", "ending"}
      /\ Placed(t) \in Upcoming \cap Beginning /\ Placed(t) \notin Carrying
      /\ th[t].at \notin Telling \cup {"none", "ended"}
  BY <1>1 DEF Places, Telling, Carrying, Upcoming, Beginning
<1>4. calls.armed = 0 /\ t # Countdown(calls.armed)
  BY <1>1, <1>3, Unarmed DEF IInv, Owners
<1> QED BY <1>1, <1>2, <1>3, <1>4, GoesOn DEF Busy

\* The session's start, and its notice thread's, which follows the recording
\* of the start that has it.
LEMMA StartSessionRest ==
  ASSUME IInv, IInv', Theirs, NEW c \in Callers, StartSession(c)
  PROVE  Theirs' /\ Minds
<1> USE DEF inner, watch, bounds
<1> DEFINE t == Caller(c)
           r == th[t].rec
           n == Notices(r)
<1>1. /\ t \in Threads /\ t[1] = "call" /\ TypeOK /\ CallWatch /\ Following /\ Fresh
      /\ th \in [Threads -> ThreadType] /\ th[t] \in ThreadType
      /\ th[t].at = "session" /\ Placed(t) = "session"
      /\ UNCHANGED <<state, active, watch, starts, releases>>
  BY Kinds DEF IInv, Theirs, TypeOK, ThreadType, StartSession, At, Placed, PlaceOf, Telling, Resting
<1>2. /\ "session" \in Beginning \cap Upcoming /\ "record" \in Beginning \cap Upcoming \cap Carrying
      /\ "session" \notin Carrying
  BY DEF Beginning, Upcoming, Carrying
<1>3. /\ r \in Recordings /\ n \in Threads /\ n[1] = "notices" /\ n # t /\ state = "starting"
      /\ calls.armed = 0 /\ t # Countdown(calls.armed)
  BY <1>1, <1>2, Kinds, Unarmed DEF IInv, Owners
<1>4. CASE Goes(t, "refuse")
  <2>1. /\ "refuse" \in Places /\ "refuse" \notin Telling \cup {"none", "asleep", "watching", "asking", "ending"}
        /\ th[t].at \notin Telling \cup {"none", "ended"}
    BY <1>1 DEF Places, Telling
  <2> QED BY <1>1, <1>2, <1>3, <1>4, <2>1, GoesOn DEF Busy
<1>5. CASE th' = [th EXCEPT ![t].at = "record", ![n].at = "following", ![n].rec = r]
  <2>1. \A u \in Threads : Placed(u) \notin Carrying
    BY <1>1, <1>2, <1>3 DEF IInv, Owners, Carrying, Beginning, Ending
  <2>2. th[n].at \in {"none", "ended"} /\ th[n] \in ThreadType
    BY <1>1, <1>2, <1>3, <2>1, RecorderAssumption DEF Following, IInv, Owners, Recordings
  <2>3. /\ th'[t].at = "record" /\ th'[t].rec = r /\ th'[n].at = "following"
        /\ \A u \in Threads : u # t /\ u # n => th'[u] = th[u]
    <3> DEFINE x == [th[t] EXCEPT !.at = "record"]
               y == [th[n] EXCEPT !.at = "following", !.rec = r]
    <3>1. x.at = "record" /\ x.rec = r /\ y.at = "following"
      BY <1>1, <2>2 DEF ThreadType
    <3>2. th' = [th EXCEPT ![t] = x, ![n] = y]
      BY <1>1, <1>3, <1>5
    <3> QED BY <1>1, <1>3, <3>1, <3>2
  <2>4. /\ Placed(t)' = "record" /\ Placed(n)' = "following"
        /\ \A u \in Threads : u # t /\ u # n => Placed(u)' = Placed(u)
    BY <2>3 DEF Placed, PlaceOf, Telling, Resting
  <2>5. CallWatch'
    <3>1. \A m \in Countdowns : th'[Countdown(m)] = th[Countdown(m)]
      BY <1>1, <1>3, <2>3, Kinds
    <3> QED BY <1>1, <1>3, <3>1, CallWatchKeeps
  <2>6. Following'
    <3>1. \A q \in Recordings : q # r => Notices(q) # n /\ Notices(q) # t
      BY <1>1, Kinds DEF Notices
    <3>2. \A q \in Recordings : q # r => th'[Notices(q)] = th[Notices(q)]
      BY <2>3, <3>1, Kinds
    <3>3. \A q \in Recordings : q # r => (th[Notices(q)].at \notin {"none", "ended"} => active = q)
      BY <1>1, <2>1 DEF Following
    <3> QED BY <1>1, <1>2, <2>3, <2>4, <3>2, <3>3 DEF Following
  <2>7. Fresh'
    <3>1. \A q \in Recordings : th'[Watcher(q)] = th[Watcher(q)] /\ Placed(Watcher(q))' = Placed(Watcher(q))
      BY <1>1, <1>3, <2>3, <2>4, Kinds
    <3>2. \A u \in Threads : Placed(u)' \in Upcoming => Placed(u) \in Upcoming /\ th'[u].rec = th[u].rec
      <4>1. "following" \notin Upcoming
        BY DEF Upcoming, Beginning
      <4> QED BY <1>1, <1>2, <1>3, <2>3, <2>4, <4>1
    <3>3. \A u \in Threads : Placed(u) \in Upcoming => th[u].rec \in Recordings
      BY DEF IInv, Owners, Upcoming
    <3> QED BY <1>1, <3>1, <3>2, <3>3 DEF Fresh
  <2>8. Minds
    <3>1. arms \in Nat /\ Owed' = Owed /\ Owed \in {arms, arms + 1}
      BY <1>1, RecorderAssumption DEF Owed, TypeOK
    <3>2. \A u \in Threads : th[u].at \in Telling \/ th'[u].at = "announce" => th'[u] = th[u]
      BY <1>1, <2>2, <2>3 DEF Telling
    <3> QED BY <1>1, <3>1, <3>2 DEF Minds, Busy
  <2> QED BY <2>5, <2>6, <2>7, <2>8 DEF Theirs
<1> QED BY <1>4, <1>5 DEF StartSession

\* The recording in progress, its watcher, or the refusal.
LEMMA StartedRest ==
  ASSUME IInv, IInv', Theirs, NEW c \in Callers, GoRecording(c) \/ SpawnWatcher(c) \/ RefuseStart(c)
  PROVE  Theirs' /\ Minds
<1> USE DEF inner, watch, bounds
<1> DEFINE t == Caller(c)
           r == th[t].rec
<1>1. /\ t \in Threads /\ t[1] = "call" /\ TypeOK /\ CallWatch /\ Following /\ Fresh
      /\ th \in [Threads -> ThreadType] /\ th[t] \in ThreadType
      /\ th[t].at \in {"record", "watcher", "refuse"} /\ Placed(t) = th[t].at
      /\ t # Countdown(calls.armed)
      /\ UNCHANGED <<watch, rec, starts, releases>>
  BY Kinds, Unarmed DEF IInv, Theirs, TypeOK, ThreadType, GoRecording, SpawnWatcher, RefuseStart, At,
     Placed, PlaceOf, Telling, Resting
<1>2. CASE GoRecording(c)
  <2>1. /\ th[t].at = "record" /\ Goes(t, "watcher") /\ active' = r /\ state' = "recording"
    BY <1>2 DEF GoRecording, At
  <2>2. /\ "watcher" \in Places /\ "record" \in Beginning \cap Upcoming /\ "watcher" \in Upcoming
        /\ "watcher" \notin Telling \cup Carrying \cup {"none", "asleep", "watching", "asking", "ending"}
        /\ "record" \notin Telling \cup {"none", "ended"}
    BY DEF Places, Beginning, Upcoming, Telling, Carrying
  <2>3. state = "starting" /\ active = 0 /\ calls.armed = 0
    BY <1>1, <2>1, <2>2, Unarmed DEF IInv, Owners
  <2>4. \A q \in Recordings : active # q
    BY <2>3 DEF Recordings
  <2>5. Busy
    BY <2>3 DEF Busy
  <2> QED BY <1>1, <2>1, <2>2, <2>3, <2>4, <2>5, GoesOn
<1>3. CASE SpawnWatcher(c)
  <2> DEFINE w == Watcher(r)
  <2>1. th[t].at = "watcher" /\ UNCHANGED <<state, active>>
    BY <1>3 DEF SpawnWatcher, At
  <2>2. "watcher" \in Upcoming /\ "watcher" \notin Carrying
    BY DEF Upcoming, Carrying
  <2>3. /\ r \in Recordings /\ w \in Threads /\ w[1] = "watch" /\ w # t /\ th[w] \in ThreadType
    BY <1>1, <2>1, <2>2, Kinds DEF IInv, Owners
  <2>4. th[w].at = "none" /\ r <= starts
    BY <1>1, <2>1, <2>2 DEF Fresh
  <2>5. PICK p \in {"watching", "ended"} :
          th' = [Announces(t, "ready") EXCEPT ![w].at = p, ![w].rec = r]
    BY <1>3 DEF SpawnWatcher
  <2>6. /\ th'[t].at = "announce" /\ th'[t].then = "ready" /\ th'[t].why = th[t].why
        /\ th'[t].rec = r /\ th'[w].at = p /\ th'[w].rec = r
        /\ \A u \in Threads : u # t /\ u # w => th'[u] = th[u]
    <3> DEFINE x == [th[t] EXCEPT !.at = "announce", !.then = "ready"]
               y == [th[w] EXCEPT !.at = p, !.rec = r]
    <3>1. x.at = "announce" /\ x.then = "ready" /\ x.why = th[t].why /\ x.rec = r /\ y.at = p /\ y.rec = r
      BY <1>1, <2>3 DEF ThreadType
    <3>2. th' = [th EXCEPT ![t] = x, ![w] = y]
      BY <1>1, <2>3, <2>5 DEF Announces
    <3> QED BY <1>1, <2>3, <3>1, <3>2
  <2>7. /\ Placed(t)' = "ready" /\ Placed(w)' = p
        /\ \A u \in Threads : u # t /\ u # w => Placed(u)' = Placed(u)
    <3>1. \A u \in Threads : u # t /\ u # w => Placed(u)' = Placed(u)
      BY <2>6 DEF Placed
    <3>2. Placed(t)' = "ready"
      BY <2>6 DEF Placed, PlaceOf, Telling, Resting
    <3>3. Placed(w)' = p
      BY <2>5, <2>6 DEF Placed, PlaceOf, Telling, Resting
    <3> QED BY <3>1, <3>2, <3>3
  <2>8. {"watching", "ended", "ready"} \cap (Carrying \cup Upcoming) = {}
    BY DEF Carrying, Upcoming, Beginning
  <2>9. CallWatch'
    <3>1. \A n \in Countdowns : th'[Countdown(n)] = th[Countdown(n)]
      BY <1>1, <2>3, <2>6, Kinds
    <3> QED BY <1>1, <2>1, <3>1, CallWatchKeeps
  <2>10. Following'
    <3>1. \A q \in Recordings : th'[Notices(q)] = th[Notices(q)]
      BY <1>1, <2>3, <2>6, Kinds
    <3>2. \A u \in Threads : Placed(u) \in Carrying => Placed(u)' \in Carrying /\ th'[u].rec = th[u].rec
      <4>1. Placed(t) \notin Carrying /\ Placed(w) \notin Carrying
        BY <1>1, <2>1, <2>2, <2>4 DEF Placed, PlaceOf, Telling, Resting, Carrying
      <4> QED BY <2>6, <2>7, <4>1
    <3> QED BY <1>1, <2>1, <3>1, <3>2 DEF Following
  <2>11. Fresh'
    <3>1. \A u \in Threads : Placed(u)' \in Upcoming =>
            u # t /\ u # w /\ Placed(u) \in Upcoming /\ th'[u] = th[u] /\ th[u].rec \in Recordings
      <4>1. \A u \in Threads : Placed(u) \in Upcoming => th[u].rec \in Recordings
        BY DEF IInv, Owners, Upcoming
      <4>2. "ready" \notin Upcoming /\ p \notin Upcoming
        BY <2>5, <2>8
      <4> QED BY <2>6, <2>7, <4>1, <4>2
    <3>2. \A q \in Recordings : q # r => Watcher(q) # w /\ Watcher(q) # t
      BY <1>1, Kinds DEF Watcher
    <3>3. \A q \in Recordings : q # r =>
            th'[Watcher(q)] = th[Watcher(q)] /\ Placed(Watcher(q))' = Placed(Watcher(q))
      BY <2>6, <2>7, <3>2, Kinds
    <3>4. \A q \in Recordings : q > starts => q # r
      BY <1>1, <2>3, <2>4, RecorderAssumption DEF TypeOK, Recordings
    <3>5. \A u \in Threads : Placed(u)' \in Upcoming => th[u].rec # r
      BY <1>1, <2>1, <2>2, <3>1 DEF Fresh
    <3>6. \A q \in Recordings : q > starts' => th'[Watcher(q)].at = "none"
      BY <1>1, <3>3, <3>4 DEF Fresh
    <3>7. \A u \in Threads : Placed(u)' \in Upcoming =>
            u[1] = "call" /\ th'[u].rec <= starts' /\ th'[Watcher(th'[u].rec)].at = "none"
      BY <1>1, <3>1, <3>3, <3>5 DEF Fresh
    <3>8. \A u, v \in Threads :
            Placed(u)' \in Upcoming /\ Placed(v)' \in Upcoming /\ th'[u].rec = th'[v].rec => u = v
      BY <1>1, <3>1 DEF Fresh
    <3>9. \A q \in Recordings :
            Placed(Watcher(q))' \in {"watching", "asking", "ending"} => th'[Watcher(q)].rec = q
      BY <1>1, <2>6, <3>3 DEF Fresh
    <3> QED BY <3>6, <3>7, <3>8, <3>9 DEF Fresh
  <2>12. Minds
    <3>1. arms \in Nat /\ Owed' = Owed /\ Owed \in {arms, arms + 1}
      BY <1>1, RecorderAssumption DEF Owed, TypeOK
    <3>2. th'[t].at \in Telling /\ t[1] = "call" /\ th'[w].at # "announce"
      BY <1>1, <2>5, <2>6 DEF Telling
    <3> QED BY <1>1, <2>1, <2>6, <3>1, <3>2 DEF Minds, Busy
  <2> QED BY <2>9, <2>10, <2>11, <2>12 DEF Theirs
<1>4. CASE RefuseStart(c)
  <2>1. th[t].at = "refuse" /\ th' = Announces(t, "ready") /\ state' = "idle" /\ active' = active
    BY <1>4 DEF RefuseStart, At
  <2>2. /\ "ready" \in Places /\ "refuse" \in Beginning
        /\ "ready" \notin Telling \cup Carrying \cup Upcoming
                          \cup {"none", "asleep", "watching", "asking", "ending"}
        /\ "refuse" \notin Telling \cup Carrying \cup {"none", "ended"}
    BY DEF Places, Beginning, Upcoming, Telling, Carrying
  <2>3. calls.armed = 0
    BY <1>1, <2>1, <2>2, Unarmed DEF IInv, Owners
  <2> QED BY <1>1, <2>1, <2>2, <2>3, GoesOn
<1> QED BY <1>2, <1>3, <1>4

\* An exit of the app.
LEMMA ExitRest ==
  ASSUME IInv, IInv', Theirs, NEW x \in Exits,
         RefuseStarts(x) \/ CancelTests(x) \/ Quit(x) \/ Settle(x)
  PROVE  Theirs' /\ Minds
<1> USE DEF inner, watch, bounds
<1> DEFINE t == Exit(x)
<1>1. /\ t \in Threads /\ t[1] = "exit" /\ CallWatch
      /\ th[t].at \in {"ready", "quit", "cancelTests", "settle"}
      /\ UNCHANGED <<arms, rec, starts, releases>>
  BY Kinds DEF IInv, Theirs, RefuseStarts, CancelTests, Quit, Settle, At
<1>2. /\ {"cancelTests", "quit", "settle", "gone"} \subseteq Places
      /\ {"cancelTests", "quit", "settle", "gone"} \cap
           (Telling \cup Carrying \cup Upcoming
              \cup {"none", "asleep", "watching", "asking", "ending"}) = {}
      /\ th[t].at \notin Telling \cup Carrying \cup {"none", "ended"}
  BY <1>1 DEF Places, Telling, Carrying, Upcoming, Beginning
<1>3. ASSUME NEW p \in {"cancelTests", "quit", "settle", "gone"}, Goes(t, p),
             UNCHANGED <<state, active, calls>>
      PROVE  Theirs' /\ Minds
  BY <1>1, <1>2, <1>3, PlainGoesOn
<1>4. CASE RefuseStarts(x) \/ CancelTests(x) \/ Quit(x)
  BY <1>3, <1>4 DEF RefuseStarts, CancelTests, Quit
<1>5. CASE Settle(x)
  <2>1. CASE ~Settled
    <3>1. UNCHANGED <<state, active, calls, th>>
      BY <1>5, <2>1 DEF Settle
    <3> QED BY <1>1, <3>1, StillRest
  <2>2. CASE Settled /\ active # 0
    <3>1. BeginsStop(t, "quit")
      BY <1>5, <2>2 DEF Settle
    <3> QED BY <1>1, <1>2, <2>2, <3>1, BeginsRest
  <2>3. CASE Settled /\ active = 0
    <3>1. Goes(t, "gone") /\ UNCHANGED <<state, active, calls>>
      BY <1>5, <2>3 DEF Settle
    <3> QED BY <1>3, <3>1
  <2> QED BY <2>1, <2>2, <2>3
<1> QED BY <1>4, <1>5

\* A stop, whoever began it: its recording stays with it until the notice
\* thread is joined.
LEMMA FinishRest ==
  ASSUME IInv, IInv', Theirs, NEW t \in Threads, Finish(t)
  PROVE  Theirs' /\ Minds
<1> USE DEF inner, watch, bounds
<1>1. /\ TypeOK /\ Calm /\ CallWatch /\ Following /\ Fresh /\ Owners'
      /\ th \in [Threads -> ThreadType] /\ th[t] \in ThreadType
      /\ th[t].at \in Ending /\ Placed(t) = th[t].at /\ th[t].at \notin Telling \cup {"none", "ended"}
      /\ UNCHANGED <<active, arms, starts, releases>>
  BY DEF IInv, Theirs, TypeOK, ThreadType, Finish, StopSession, Save, RecoverFailedStop, JoinNotices,
         EndStop, At, Ending, Placed, PlaceOf, Telling, Resting
<1>2. state = "stopping" /\ calls.armed = 0 /\ t # Countdown(calls.armed)
  BY <1>1, Unarmed DEF IInv, Owners
<1>3. /\ {"save", "recover", "join", "toIdle"} \subseteq Places
      /\ {"save", "recover", "join", "toIdle"} \cap
           (Telling \cup Upcoming \cup {"none", "asleep", "watching", "asking", "ending"}) = {}
      /\ {"save", "recover", "join"} \subseteq Carrying /\ "toIdle" \notin Carrying
  BY DEF Places, Telling, Upcoming, Beginning, Carrying
<1>4. ASSUME NEW p \in {"save", "recover", "join", "toIdle"}, Goes(t, p), UNCHANGED <<state, calls>>,
             p = "toIdle" => At(Notices(th[t].rec), "ended")
      PROVE  Theirs' /\ Minds
  <2>1. \A r \in Recordings : ~(p \in Carrying /\ th[t].rec = r) =>
          th[Notices(r)].at \in {"none", "ended"} \/ ~(Placed(t) \in Carrying /\ th[t].rec = r)
    BY <1>3, <1>4 DEF At
  <2> QED BY <1>1, <1>2, <1>3, <1>4, <2>1, GoesOn DEF Busy
<1>5. CASE StopSession(t)
  BY <1>4, <1>5 DEF StopSession
<1>6. CASE Save(t)
  <2>1. UNCHANGED <<state, calls>>
    BY <1>6 DEF Save
  <2>2. CASE LetsGo(t, "queued") \/ LetsGo(t, "recording")
    BY <1>4, <2>1, <2>2 DEF LetsGo
  <2>3. CASE th' = [th EXCEPT ![t].tries = th[t].tries + 1] /\ UNCHANGED rec
             /\ th[t].tries + 1 < CommitAttempts
    <3> DEFINE y == [th[t] EXCEPT !.tries = th[t].tries + 1]
    <3>1. th[t].at = "save" /\ "save" \in Carrying /\ "save" \notin Upcoming
      BY <1>3, <1>6 DEF Save, At
    <3>2. th[t].tries + 1 \in 0..CommitAttempts
      BY <1>1, <2>3, RecorderAssumption DEF ThreadType
    <3>3. y \in ThreadType /\ y.at = "save" /\ y.then = th[t].then /\ y.rec = th[t].rec
      BY <1>1, <3>1, <3>2 DEF ThreadType
    <3>4. th' = [th EXCEPT ![t] = y]
      BY <1>1, <2>3
    <3> HIDE DEF y
    <3>5. /\ th'[t].at = "save" /\ th'[t].then = th[t].then
          /\ \A u \in Threads : u # t => th'[u] = th[u]
      BY <1>1, <3>3, <3>4
    <3>6. Moved(t, "save", th[t].rec)
      BY <1>1, <3>3, <3>4 DEF Moved, PlaceOf, Calm, Telling, Resting, Left
    <3>7. CallWatch'
      <4>1. \A n \in Countdowns :
              \/ th'[Countdown(n)] = th[Countdown(n)]
              \/ /\ th[Countdown(n)].at # "none" /\ th'[Countdown(n)].at # "asleep"
                 /\ th'[Countdown(n)].then # "asleep" /\ calls.armed # n
        BY <1>1, <1>2, <3>1, <3>5, Kinds, RecorderAssumption DEF CallWatch, Countdowns
      <4> QED BY <1>1, <1>2, <2>1, <4>1, CallWatchKeeps
    <3>8. Following'
      BY <1>1, <3>1, <3>6, FollowingKeeps
    <3>9. Fresh'
      BY <1>1, <3>1, <3>6, FreshKeeps
    <3>10. Minds
      <4>1. arms \in Nat /\ Owed' = Owed /\ Owed \in {arms, arms + 1}
        BY <1>1, <2>1, RecorderAssumption DEF Owed, TypeOK
      <4> QED BY <1>1, <2>1, <3>5, <3>6, <4>1, MovesMinding DEF Busy
    <3> QED BY <3>7, <3>8, <3>9, <3>10 DEF Theirs
  <2> QED BY <1>6, <2>2, <2>3 DEF Save
<1>7. CASE RecoverFailedStop(t)
  BY <1>4, <1>7 DEF RecoverFailedStop, LetsGo
<1>8. CASE JoinNotices(t)
  BY <1>4, <1>8 DEF JoinNotices
<1>9. CASE EndStop(t)
  <2>1. th[t].at = "toIdle" /\ calls'.armed = 0 /\ th' = Disarmed(Announces(t, Rest(t)))
    BY <1>9 DEF EndStop, At, Forgotten
  <2>2. /\ Rest(t) \in Places
        /\ Rest(t) \notin Telling \cup Upcoming \cup Carrying
                          \cup {"none", "asleep", "watching", "asking", "ending"}
    BY DEF Rest, Places, Telling, Upcoming, Beginning, Carrying
  <2> QED BY <1>1, <1>3, <2>1, <2>2, DisarmsRest
<1> QED BY <1>5, <1>6, <1>7, <1>8, <1>9 DEF Finish

\* The watcher of a recording.
LEMMA WatcherRest ==
  ASSUME IInv, IInv', Theirs, NEW r \in Recordings, WatcherStep(r)
  PROVE  Theirs' /\ Minds
<1> USE DEF inner, watch, bounds
<1> DEFINE t == Watcher(r)
<1>1. /\ t \in Threads /\ t[1] = "watch" /\ CallWatch
      /\ th[t].at \in {"watching", "asking", "ending"} /\ Placed(t) = th[t].at
      /\ UNCHANGED <<rec, starts, releases>> /\ t # Countdown(calls.armed)
  BY Kinds, Unarmed DEF Theirs, WatcherStep, WatchFailed, WatchReads, WatchAnswers, WatchStops, WatchEnds,
     At, Placed, PlaceOf, Telling, Resting
<1>2. /\ {"asking", "watching", "ending", "ended"} \subseteq Places
      /\ {"asking", "watching", "ending", "ended"} \cap
           (Telling \cup Carrying \cup Upcoming \cup {"none", "asleep"}) = {}
  BY DEF Places, Telling, Carrying, Upcoming, Beginning
<1>3. ASSUME NEW p \in {"asking", "watching", "ending", "ended"}, Goes(t, p), UNCHANGED <<inner, watch>>
      PROVE  Theirs' /\ Minds
  BY <1>1, <1>2, <1>3, GoesOn DEF Busy
<1>4. ASSUME NEW why \in {"deviceLost", "failed"}, StopsRecording(r, why),
             th[t].at \in {"watching", "ending"}
      PROVE  Theirs' /\ Minds
  <2>1. CASE active = r
    <3>1. active # 0 /\ BeginsStop(t, why) /\ UNCHANGED arms
      BY <1>4, <2>1 DEF StopsRecording, Recordings
    <3> QED BY <1>1, <1>2, <1>4, <2>1, <3>1, BeginsRest
  <2>2. CASE active # r
    BY <1>3, <1>4, <2>2 DEF StopsRecording
  <2> QED BY <2>1, <2>2
<1>5. CASE WatchFailed(r) \/ WatchStops(r)
  BY <1>4, <1>5 DEF WatchFailed, WatchStops, At
<1>6. CASE WatchReads(r) \/ WatchAnswers(r) \/ WatchEnds(r)
  BY <1>3, <1>6 DEF WatchReads, WatchAnswers, WatchEnds
<1> QED BY <1>5, <1>6 DEF WatcherStep

\* The notice thread of a recording.
LEMMA NoticesRest ==
  ASSUME IInv, IInv', Theirs, NEW r \in Recordings, NoticesStep(r)
  PROVE  Theirs' /\ Minds
<1> USE DEF inner, watch, bounds
<1> DEFINE t == Notices(r)
<1>1. /\ t \in Threads /\ t[1] = "notices" /\ Calm /\ CallWatch
      /\ th[t].at \in {"following", "resuming"} /\ Placed(t) = th[t].at
      /\ UNCHANGED <<state, active, rec, starts, releases>> /\ UNCHANGED inner
  BY Kinds DEF IInv, Theirs, NoticesStep, FollowNotice, ResumeAutoStop, NoticesEnd, At, Placed, PlaceOf,
     Telling, Resting
<1>2. /\ {"following", "resuming", "ended"} \subseteq Places
      /\ {"following", "resuming", "ended"} \cap
           (Telling \cup Carrying \cup Upcoming \cup {"none", "asleep", "watching", "asking", "ending"}) = {}
  BY DEF Places, Telling, Carrying, Upcoming, Beginning
<1>3. ASSUME NEW p \in {"following", "resuming", "ended"}, Goes(t, p), UNCHANGED watch
      PROVE  Theirs' /\ Minds
  BY <1>1, <1>2, <1>3, PlainGoesOn
<1>4. CASE FollowNotice(r) \/ NoticesEnd(r)
  BY <1>3, <1>4 DEF FollowNotice, NoticesEnd
<1>5. CASE ResumeAutoStop(r)
  <2>1. CASE Goes(t, "following") /\ UNCHANGED watch
    BY <1>3, <2>1
  <2>2. CASE CallRecords /\ calls.armed # 0 /\ calls.postponable /\ Arms(t, "following", FALSE)
    <3>1. calls.seen /\ arms < 2 * MaxReleases
      BY <1>1, <2>2 DEF CallWatch, Calm, Room
    <3> QED BY <1>1, <1>2, <2>2, <3>1, ArmsRest
  <2> QED BY <1>5, <2>1, <2>2 DEF ResumeAutoStop
<1> QED BY <1>4, <1>5 DEF NoticesStep

\* A countdown that runs out: it is the armed one that ends the recording.
LEMMA CountdownRest ==
  ASSUME IInv, IInv', Theirs, NEW n \in Countdowns, CountdownStep(n)
  PROVE  Theirs' /\ Minds
<1> USE DEF inner, watch, bounds
<1> DEFINE t == Countdown(n)
<1>1. /\ t \in Threads /\ t[1] = "countdown" /\ Calm /\ CallWatch /\ n # 0
      /\ th[t].at \in {"asleep", "out"} /\ UNCHANGED <<rec, starts, releases>>
  <2>1. t \in Threads /\ t[1] = "countdown" /\ Calm /\ CallWatch
    BY Kinds DEF IInv, Theirs
  <2>2. n # 0
    BY RecorderAssumption DEF Countdowns
  <2>3. th[t].at \in {"asleep", "out"} /\ UNCHANGED <<rec, starts, releases>>
    BY DEF CountdownStep, CountdownRunsOut, CallEnded, At
  <2> QED BY <2>1, <2>2, <2>3
<1>2. /\ {"out", "ended"} \subseteq Places
      /\ {"asleep", "out", "ended"} \cap
           (Telling \cup Carrying \cup Upcoming \cup {"none", "watching", "asking", "ending"}) = {}
  BY DEF Places, Telling, Carrying, Upcoming, Beginning
<1>3. Placed(t) \notin Carrying \cup Upcoming
  BY <1>1, <1>2 DEF Placed, PlaceOf, Telling, Resting
<1>4. CASE CountdownRunsOut(n)
  <2>1. Goes(t, "out") /\ UNCHANGED <<inner, watch>>
    BY <1>4 DEF CountdownRunsOut
  <2> QED BY <1>1, <1>2, <1>3, <2>1, GoesOn DEF Busy
<1>5. CASE CallEnded(n)
  <2>0. th[t].at = "out"
    BY <1>5 DEF CallEnded, At
  <2>1. CASE Postpones(n) /\ Arms(t, "ended", FALSE) /\ UNCHANGED inner
    <3>1. CallRecords /\ calls.armed # 0 /\ calls.postponable /\ calls.seen /\ arms < 2 * MaxReleases
      BY <1>1, <2>1 DEF Postpones, CallWatch, Calm, Room
    <3> QED BY <1>1, <1>2, <1>3, <2>0, <2>1, <3>1, ArmsRest
  <2>2. CASE ~Postpones(n) /\ Elapsed(n) /\ BeginsStop(t, "callEnded") /\ UNCHANGED <<arms, quitting, holds, error>>
    <3>1. active # 0 /\ calls.armed = n /\ ~(outage[active].recovering /\ calls.postponable)
      BY <1>1, <2>2 DEF Elapsed, Postpones, CallWatch, IInv, Owners
    <3> QED BY <1>1, <1>2, <2>0, <2>2, <3>1, BeginsRest
  <2>3. CASE ~Elapsed(n) /\ Goes(t, "ended") /\ UNCHANGED <<inner, watch>>
    <3>1. calls.armed # n
      BY <1>1, <2>3 DEF Elapsed, CallWatch, CallRecords
    <3>2. t # Countdown(calls.armed)
      BY <3>1 DEF Countdown
    <3> QED BY <1>1, <1>2, <1>3, <2>0, <2>3, <3>2, GoesOn DEF Busy
  <2> QED BY <1>5, <2>1, <2>2, <2>3 DEF CallEnded
<1> QED BY <1>4, <1>5 DEF CountdownStep

\* The capture and the tests.
LEMMA CaptureRest ==
  ASSUME IInv, IInv', Theirs, NEW r \in Recordings, CaptureStep(r)
  PROVE  Theirs' /\ Minds
<1> USE DEF inner, watch, bounds
<1>1. /\ UNCHANGED <<state, active, watch, th, starts, releases>>
      /\ \/ rec' = rec
         \/ rec' = [rec EXCEPT ![r].session = "failed", ![r].lost = TRUE]
         \/ rec' = [rec EXCEPT ![r].spoiled = TRUE]
  BY DEF CaptureStep, SessionFails, WriteFails, DeviceChanges, StillRestarting, DeviceResumes, Delivers
<1>2. rec \in [Recordings -> RecordingType] /\ rec[r] \in RecordingType
  BY DEF IInv, TypeOK, RecordingType
<1>3. \A q \in Recordings : rec'[q].mode = rec[q].mode
  BY <1>1, <1>2 DEF RecordingType
<1> QED BY <1>1, <1>3, StillRest

LEMMA TestsRest ==
  ASSUME IInv, IInv', Theirs, NEW test \in Tests, BeginTest(test) \/ EndTest(test)
  PROVE  Theirs' /\ Minds
BY StillRest DEF BeginTest, EndTest, inner, watch, bounds

\* An install.
LEMMA InstallerRest ==
  ASSUME IInv, IInv', Theirs, NEW i \in Installers, InstallerStep(i)
  PROVE  Theirs' /\ Minds
<1> USE DEF inner, watch, bounds
<1> DEFINE t == Installer(i)
<1>1. /\ t \in Threads /\ t[1] = "install" /\ th[t].at \in {"ready", "hold", "look", "held", "drop"}
      /\ UNCHANGED <<state, active, watch, rec, starts, releases>>
  BY Kinds DEF InstallerStep, TryHold, HoldStarts, LookAtStatus, InstallFails, DropHold, At
<1>2. PICK p \in {"ready", "hold", "look", "held", "drop"} : Goes(t, p) \/ th' = Announces(t, p)
  BY DEF InstallerStep, TryHold, HoldStarts, LookAtStatus, InstallFails, DropHold
<1>3. /\ p \in Places
      /\ p \notin Telling \cup Carrying \cup Upcoming \cup {"none", "asleep", "watching", "asking", "ending"}
      /\ th[t].at \notin Telling \cup Carrying \cup {"none", "ended"}
  BY <1>1 DEF Places, Telling, Carrying, Upcoming, Beginning
<1> QED BY <1>1, <1>2, <1>3, PlainGoesOn

\* Each step of the recorder leaves each thread its own.
LEMMA WorksRest ==
  ASSUME IInv, IInv', Theirs, Works
  PROVE  Theirs' /\ Minds
<1>1. ASSUME NEW t \in Threads, Finish(t) PROVE Theirs' /\ Minds
  BY <1>1, FinishRest
<1>2. ASSUME NEW c \in Callers, CallerStep(c) PROVE Theirs' /\ Minds
  BY <1>2, CommandRest, StartRest, StartingRest, StartSessionRest, StartedRest DEF CallerStep
<1>3. ASSUME NEW c \in Callers, NEW command \in Commands, Asks(c, command) PROVE Theirs' /\ Minds
  BY <1>3, AsksRest
<1>4. ASSUME NEW x \in Exits, RefuseStarts(x) \/ CancelTests(x) \/ Quit(x) \/ Settle(x)
      PROVE  Theirs' /\ Minds
  BY <1>4, ExitRest
<1>5. ASSUME NEW r \in Recordings, WatcherStep(r) \/ NoticesStep(r) \/ CaptureStep(r)
      PROVE  Theirs' /\ Minds
  BY <1>5, WatcherRest, NoticesRest, CaptureRest
<1>6. ASSUME NEW n \in Countdowns, CountdownStep(n) PROVE Theirs' /\ Minds
  BY <1>6, CountdownRest
<1>7. ASSUME NEW test \in Tests, BeginTest(test) \/ EndTest(test) PROVE Theirs' /\ Minds
  BY <1>7, TestsRest
<1>8. ASSUME NEW i \in Installers, InstallerStep(i) PROVE Theirs' /\ Minds
  BY <1>8, InstallerRest
<1> QED BY <1>1, <1>2, <1>3, <1>4, <1>5, <1>6, <1>7, <1>8 DEF Works
-----------------------------------------------------------------------------
(* What holds of every behaviour.                                           *)

\* Every step of the recorder keeps the invariant.
LEMMA WorksKeep ==
  ASSUME IInv, Theirs, Works
  PROVE  IInv'
<1>0. CallWatch /\ Following
  BY DEF Theirs
<1>1. ASSUME NEW t \in Threads, Finish(t) PROVE IInv'
  BY <1>1, FinishKeeps
<1>2. ASSUME NEW c \in Callers, CallerStep(c) PROVE IInv'
  BY <1>0, <1>2, CommandKeeps, StartKeeps, StartingKeeps, StartSessionKeeps, StartedKeeps DEF CallerStep
<1>3. ASSUME NEW c \in Callers, NEW command \in Commands, Asks(c, command) PROVE IInv'
  BY <1>3, AsksKeeps
<1>4. ASSUME NEW x \in Exits, RefuseStarts(x) \/ CancelTests(x) \/ Quit(x) \/ Settle(x) PROVE IInv'
  BY <1>4, ExitKeeps
<1>5. ASSUME NEW r \in Recordings, WatcherStep(r) \/ NoticesStep(r) \/ CaptureStep(r) PROVE IInv'
  BY <1>0, <1>5, WatcherKeeps, NoticesKeeps, CaptureKeeps
<1>6. ASSUME NEW n \in Countdowns, CountdownStep(n) PROVE IInv'
  BY <1>0, <1>6, CountdownKeeps
<1>7. ASSUME NEW test \in Tests, BeginTest(test) \/ EndTest(test) PROVE IInv'
  BY <1>7, TestsKeep
<1>8. ASSUME NEW i \in Installers, InstallerStep(i) PROVE IInv'
  BY <1>8, InstallerKeeps
<1> QED BY <1>1, <1>2, <1>3, <1>4, <1>5, <1>6, <1>7, <1>8 DEF Works

\* No step at all keeps everything.
LEMMA StutterKeeps ==
  ASSUME IInv, Theirs, UNCHANGED vars
  PROVE  IInv' /\ Theirs' /\ Minds
<1>1. IInv'
  BY Still, SMTT(40) DEF IInv, Calm, Room, TypeOK, vars, inner, watch, flags, session, bounds
<1> QED BY <1>1, StillRest DEF vars, inner, bounds

\* Nothing is watched or told before the first start.
LEMMA InitTheirs == Init => Theirs
<1> SUFFICES ASSUME Init PROVE Theirs
  OBVIOUS
<1> USE DEF Init
<1>1. \A t \in Threads : th[t].then = "none" /\ th[t].at \in {"ready", "none"}
                         /\ Placed(t) \in {"ready", "ended"}
  BY DEF NoThread, Placed, PlaceOf, Telling, Resting
<1>2. /\ \A r \in Recordings : th[Watcher(r)].at = "none" /\ th[Notices(r)].at = "none"
                               /\ Placed(Watcher(r)) = "ended"
      /\ \A n \in Countdowns : th[Countdown(n)].at = "none" /\ th[Countdown(n)].then = "none"
  BY Kinds DEF NoThread, Placed, PlaceOf, Telling, Resting
<1>3. CallWatch
  BY <1>2 DEF CallWatch
<1>4. Following
  BY <1>2 DEF Following
<1>5. Fresh
  <2>1. "ready" \notin Upcoming /\ "ended" \notin Upcoming
    BY DEF Upcoming, Beginning
  <2> QED BY <1>1, <1>2, <2>1 DEF Fresh
<1> QED BY <1>3, <1>4, <1>5 DEF Theirs

\* Every step keeps the invariant, and minds.
LEMMA NextKeeps ==
  ASSUME IInv, Theirs, [Next]_vars
  PROVE  /\ IInv' /\ Theirs'
         /\ \A t \in Threads :
              t[1] \in {"watch", "countdown"} /\ active' = 0 /\ th'[t].at = "announce"
                /\ th'[t].why # th[t].why
                => th[t].rec = active
<1>1. CASE Works
  BY <1>1, WorksKeep, WorksRest DEF Minds
<1>2. ASSUME NEW t \in Threads, Notify(t)
      PROVE  IInv' /\ Theirs' /\ \A u \in Threads : th'[u].at = "announce" => th'[u] = th[u]
  <2>1. /\ th[t].at \in Telling /\ th' = Through(t, th[t].then) /\ live' = Busy /\ sleepers' = {}
        /\ UNCHANGED <<inner, watch, refused, tone, rec, session, bounds>>
    BY <1>2 DEF Notify, Notified, At, Telling
  <2>2. IInv'
    BY <2>1, ToldKeeps
  <2> QED BY <2>1, <2>2, ToldRest DEF inner, bounds
<1>3. CASE UNCHANGED vars
  BY <1>3, StutterKeeps DEF Minds
<1> QED BY <1>1, <1>2, <1>3 DEF Next

\* What is true of every reachable state of the recorder.
THEOREM Invariant == Spec => [](IInv /\ Theirs)
<1>1. Init => IInv /\ Theirs
  BY InitIInv, InitTheirs
<1>2. IInv /\ Theirs /\ [Next]_vars => (IInv /\ Theirs)'
  BY NextKeeps
<1> QED BY <1>1, <1>2, PTL DEF Spec

\* The recorder's state has its types.
THEOREM TypeCorrect == Spec => []TypeOK
<1>1. IInv => TypeOK
  BY DEF IInv
<1> QED BY <1>1, Invariant, PTL

\* An install's hold stops no recording: none is under way while it is held
\* (IdleGate::try_hold).
THEOREM InstallsStopNothing == Spec => []InstallStopsNoRecording
<1>1. IInv => InstallStopsNoRecording
  BY Kinds DEF IInv, Holding, InstallStopsNoRecording, At, Placed, PlaceOf, Telling, Resting
<1> QED BY <1>1, Invariant, PTL

\* Nothing records once a quit has returned (stop_for_quit).
THEOREM QuitsLeaveNothing == Spec => []QuitLeavesNothing
<1>1. IInv => QuitLeavesNothing
  BY Kinds DEF IInv, Leaving, Owners, QuitLeavesNothing, At, Placed, PlaceOf, Busy, Telling, Resting
<1> QED BY <1>1, Invariant, PTL

\* The pipelines' flag is behind the recorder only while a change is about to
\* be announced (notify).
THEOREM LiveFlagIsTold == Spec => []LiveFlagFollows
<1>1. IInv => LiveFlagFollows
  BY DEF IInv
<1> QED BY <1>1, Invariant, PTL

\* No test plays into a recording that did not wait for it as long as it may
\* (run_tone_test, stop_tone_tests).
THEOREM RecordingsAreSilent == Spec => []NoToneInARecording
<1>1. IInv => NoToneInARecording
  BY DEF IInv, Silence
<1> QED BY <1>1, Invariant, PTL

\* A test that runs past a refusal of starts or a quit was told to stop
\* (refuse_starts, stop_for_quit).
THEOREM RunningTestsAreTold == Spec => []TestsAreToldToStop
<1>1. IInv => TestsAreToldToStop
  BY DEF IInv
<1> QED BY <1>1, Invariant, PTL

\* A refusal's message goes with the hold it stands for (HeldStarts::drop).
THEOREM RefusalsGo == Spec => []RefusalGoesWithItsHold
<1>1. IInv => RefusalGoesWithItsHold
  BY DEF IInv
<1> QED BY <1>1, Invariant, PTL

\* A watcher and a countdown end no recording but their own, however late
\* they come: a watcher still knows which it watches, and only the armed
\* countdown, the one of the recording in progress, ends anything
\* (stop_recording, call_ended).
THEOREM StopsAreOfTheirOwn == Spec => StopsEndTheirOwn
<1>1. IInv /\ Theirs /\ [Next]_vars =>
        [\A t \in Threads :
           t[1] \in {"watch", "countdown"} /\ active' = 0 /\ th'[t].at = "announce"
             /\ th'[t].why # th[t].why
             => th[t].rec = active]_vars
  BY NextKeeps
<1> QED BY <1>1, Invariant, PTL DEF Spec, StopsEndTheirOwn
=============================================================================
