------------------------ MODULE CaptureSessionProofs ------------------------
(***************************************************************************)
(* Proofs about CaptureSession, for any callers, any number of restarts    *)
(* and every bound.                                                        *)
(***************************************************************************)
EXTENDS CaptureSession, TLAPS

-----------------------------------------------------------------------------
(* The inductive invariant.                                                 *)

RebuildType ==
  [pc : RebuildPcs, recording : 0..MaxStarts, reason : Maybe(Reasons), cancelled : BOOLEAN,
   took : BOOLEAN, canceller : BOOLEAN, attempt : 0..RestartAttempts,
   try : {"first", "chosen", "default"}, tried : BOOLEAN, onFallback : BOOLEAN,
   first : BOOLEAN, didNotRun : BOOLEAN]
FinishType == [step : Steps, taken : Actives, result : {"none", "clean", "failed", "gone"}]

\* Where a rebuild is under way.
Alive == RebuildPcs \ {"none", "ended", "finishing"}

\* Where a rebuild has taken the processing thread and not yet joined it.
Taking == {"stopOld", "join"}

\* Where a rebuild has no stream running.
Stopped == {"join", "handBack", "rearm", "restart", "try", "forget", "rearmAgain", "exhausted"}

\* The steps of finish() after which a part of the recording is no more.
PastWatch == {"rebuild", "backend", "processing", "writer", "close", "set"}
PastRebuild == {"backend", "processing", "writer", "close", "set"}
PastBackend == {"processing", "writer", "close", "set"}
PastProcessing == {"writer", "close", "set"}
PastWriter == {"close", "set"}

\* One thread ends a recording at a time, and it is where it says it is.
Owners ==
  /\ \A p \in Finishers : fin[p].step = "no" => fin[p] = NotFinishing
  /\ \A p, q \in Finishers : fin[p].step # "no" /\ fin[q].step # "no" => p = q
  /\ state.kind = "stopping" <=> \E p \in Finishers : fin[p].step # "no"
  /\ \A c \in Callers : /\ fin[<<"call", c>>].step # "no" <=> call[c].pc = "finishing"
                        /\ call[c].pc = "finishing" => call[c].of = started
  /\ \A r \in Recordings : /\ fin[<<"writer", r>>].step # "no" <=> wfail[r] = "finishing"
                           /\ wfail[r] = "finishing" => r = started
  /\ \A g \in Generations : /\ fin[<<"rebuild", g>>].step # "no" <=> rb[g].pc = "finishing"
                            /\ rb[g].pc = "finishing" => rb[g].recording = started /\ g = generation

\* What a rebuild thread carries.
Fits(x) ==
  /\ x.took <=> x.pc \in Taking
  /\ x.canceller <=> x.pc = "handBack"
  /\ x.pc = "none" => x.recording = 0
Carried ==
  \A g \in Generations : Fits(rb[g]) /\ (rb[g].pc # "none" <=> g <= generation)

\* Of a recording that is not the newest nothing runs, and of one that is not
\* begun there is nothing.  A thread that ends a recording for a failed write
\* follows its failure.
Others ==
  \A r \in Recordings :
    /\ wfail[r] # "none" => writer[r] \in {"failed", "ended"}
    /\ r # started =>
         /\ running[r] = "no" /\ writer[r] \in {"no", "ended"}
         /\ watch[r].pc \in {"none", "ended"} /\ files[r] # "open"
         /\ r > started => /\ wfail[r] = "none" /\ ~latch[r] /\ files[r] = "none"
                            /\ watch[r].pc = "none" /\ ~watch[r].cancelled

\* The newest recording's parts `a', and how far the finish() of it is: "take"
\* while none has taken them.
Now(a, s) ==
  \/ Recording /\ a = active /\ s = "take"
  \/ \E p \in Finishers : s # "no" /\ fin[p].step = s /\ a = IF s = "take" THEN active ELSE fin[p].taken

\* What there is of the newest recording, at a step of its finish().
Body(a, s) ==
  /\ a \in Actives /\ a.recording = started /\ started # 0
  /\ a.rebuild # 0 =>
       /\ a.rebuild = generation /\ a.rebuild \in Generations
       /\ rb[a.rebuild].recording = started
       /\ rb[a.rebuild].pc \notin {"none", "finishing"}
       /\ rb[a.rebuild].pc = "spawned" => a.processing
       /\ rb[a.rebuild].pc \notin {"spawned", "ended"} => ~a.processing
       /\ s \in PastRebuild => rb[a.rebuild].pc = "ended"
  /\ \A h \in Generations : h # a.rebuild => rb[h].pc \notin Alive
  /\ running[started] = IF /\ s \notin PastProcessing
                           /\ a.processing \/ (a.rebuild # 0 /\ rb[a.rebuild].pc \in Taking)
                        THEN "cancelling" ELSE "no"
  /\ IF s \in PastWriter THEN writer[started] = "ended" ELSE writer[started] \in {"runs", "failed"}
  /\ files[started] = "open" <=> s # "set"
  /\ s \in PastBackend => stream = NoStream
  /\ s \in PastWatch => watch[started].pc \in {"none", "ended"}

Bodies ==
  /\ \A a \in Actives, s \in Steps : Now(a, s) => Body(a, s)
  /\ \A p \in Finishers : fin[p].step \notin {"no", "take"} => active = NoActive
  /\ \A p \in Finishers : fin[p].step = "close" => fin[p].result \in {"none", "failed"}
  /\ \A p \in Finishers : fin[p].step = "set" => fin[p].result # "none"
  /\ Recording /\ active.rebuild = 0 => active.processing

\* The echo canceller is the session's unless a processing thread has it, or
\* a rebuild that has joined one.
Canceller ==
  /\ held <=> /\ \A r \in Recordings : running[r] = "no"
              /\ \A g \in Generations : rb[g].pc # "handBack"
  /\ \A r \in Recordings : running[r] # "plain"

Streams ==
  /\ stream # NoStream => stream.recording = started /\ started # 0
                          /\ state.kind \in {"recording", "stopping"}
  /\ report # NoReport => /\ report.pc # "none" /\ report.recording = started
                          /\ report.reason # "none" /\ stream # NoStream
  /\ \A g \in Generations : rb[g].pc \in Stopped => stream = NoStream
  /\ \A r \in Recordings : watch[r].pc \in {"decided", "handling"} => watch[r].reason # "none"

\* Every rebuild there is or may yet be was asked for by a report of its own.
One(b) == IF b THEN 1 ELSE 0
Pending(a) == One(a.pending # "none")
Reporting(x) == One(x # NoReport)
Watching(w, r) == One(r # 0 /\ w[r].pc \in {"decided", "handling"})
Budget ==
  generation + Pending(active) + Reporting(report) + Watching(watch, started) <= reports

Quiet ==
  state.kind \in {"idle", "failed"} =>
    /\ active = NoActive /\ report = NoReport
    /\ \A r \in Recordings : /\ running[r] = "no" /\ writer[r] \in {"no", "ended"}
                            /\ watch[r].pc \in {"none", "ended"} /\ files[r] # "open"
    /\ \A g \in Generations : rb[g].pc \in {"none", "ended"}

\* A latch that is closed belongs to a report somebody is about to hand over,
\* has handed over, or that a rebuild will open again.
Latched ==
  Recording /\ latch[started] =>
    \/ report.pc = "handling" \/ watch[started].pc = "handling" \/ active.pending # "none"
    \/ active.rebuild # 0 /\ rb[active.rebuild].pc \in
         {"spawned", "stopOld", "join", "handBack", "rearm", "rearmAgain"}

Followed ==
  Recording /\ stream.changed =>
    \/ report # NoReport \/ watch[started].pc = "handling" \/ active.pending # "none"
    \/ ~latch[started]
    \/ active.rebuild # 0 /\ rb[active.rebuild].pc \in {"spawned", "stopOld"}

\* What an answer, a state and a finish() name is on the disk.
Kept ==
  /\ finalised # 0 => files[finalised] = "saved"
  /\ state.kind = "failed" /\ state.recording # 0 =>
       files[state.recording] = "saved" /\ state.recording = started
  /\ \A p \in Finishers : fin[p].step = "set" /\ fin[p].result \in {"clean", "failed"} =>
        files[started] = "saved"
  /\ \A c \in Callers : call[c].got # 0 =>
       call[c].got = call[c].of /\ files[call[c].got] = "saved"

IInv ==
  /\ TypeOK /\ Owners /\ Carried /\ Others /\ Bodies /\ Canceller
  /\ Streams /\ Budget /\ Quiet /\ Latched /\ Followed /\ Kept

-----------------------------------------------------------------------------
(* Finishers, and the recording there is.                                   *)

\* The threads that may end a recording are of three kinds, each its own.
LEMMA Kinds ==
  /\ \A c \in Callers : <<"call", c>> \in Finishers
  /\ \A r \in Recordings : <<"writer", r>> \in Finishers
  /\ \A g \in Generations : <<"rebuild", g>> \in Finishers
  /\ \A p \in Finishers : \/ \E c \in Callers : p = <<"call", c>>
                          \/ \E r \in Recordings : p = <<"writer", r>>
                          \/ \E g \in Generations : p = <<"rebuild", g>>
BY DEF Finishers

\* What TypeOK says of the records by name.
LEMMA Types ==
  ASSUME TypeOK
  PROVE  /\ state.kind \in {"idle", "recording", "stopping", "failed"}
         /\ rb \in [Generations -> RebuildType]
         /\ fin \in [Finishers -> FinishType]
         /\ active \in Actives
         /\ \A p \in Finishers : fin[p].step \in Steps /\ fin[p].taken \in Actives
         /\ \A g \in Generations : rb[g].pc \in RebuildPcs /\ rb[g].recording \in 0..MaxStarts
         /\ started \in Nat /\ generation \in Nat /\ reports \in Nat
         /\ MaxStarts \in Nat /\ MaxReports \in Nat /\ \A g \in Generations : g \in Nat /\ g # 0
BY SessionAssumption DEF TypeOK, RebuildType, FinishType, Generations

\* No recording has the type of the recordings there are.
LEMMA NoActiveIsActive == NoActive \in Actives /\ NoActive.recording = 0
BY SessionAssumption DEF NoActive, Actives, Maybe

\* A recording under way is that of `active'.
LEMMA RunningNow ==
  ASSUME IInv, Recording
  PROVE  /\ Now(active, "take") /\ Body(active, "take")
         /\ active # NoActive /\ active.recording = started /\ started \in Recordings
<1>1. Now(active, "take") /\ active \in Actives /\ "take" \in Steps
  BY Types DEF IInv, Now, Steps
<1>2. Body(active, "take")
  BY <1>1 DEF IInv, Bodies
<1>3. started \in 0..MaxStarts /\ MaxStarts \in Nat
  BY SessionAssumption DEF IInv, TypeOK
<1> QED BY <1>1, <1>2, <1>3, NoActiveIsActive DEF Body, Recordings

\* What a finisher has taken, or is to take.
PartsOf(p) == IF fin[p].step = "take" THEN active ELSE fin[p].taken

\* A finish() has, or is to take, what there is of the newest recording.
LEMMA FinishingNow ==
  ASSUME IInv, NEW p \in Finishers, fin[p].step # "no"
  PROVE  /\ Now(PartsOf(p), fin[p].step) /\ Body(PartsOf(p), fin[p].step)
         /\ state.kind = "stopping" /\ started \in Recordings
         /\ PartsOf(p).recording = started
         /\ fin[p].step # "take" => active = NoActive
<1>1. PartsOf(p) \in Actives /\ fin[p].step \in Steps
  BY Types DEF IInv, PartsOf
<1>2. Now(PartsOf(p), fin[p].step)
  BY DEF Now, PartsOf
<1>3. Body(PartsOf(p), fin[p].step)
  BY <1>1, <1>2 DEF IInv, Bodies
<1>4. started \in 0..MaxStarts /\ MaxStarts \in Nat
  BY SessionAssumption DEF IInv, TypeOK
<1>5. state.kind = "stopping" /\ (fin[p].step # "take" => active = NoActive)
  BY DEF IInv, Owners, Bodies
<1> QED BY <1>2, <1>3, <1>4, <1>5 DEF Body, Recordings

\* There is at most one recording, at one step.
LEMMA OneNow ==
  ASSUME IInv, NEW a, NEW s, NEW b, NEW t, Now(a, s), Now(b, t)
  PROVE  a = b /\ s = t
<1>1. CASE Recording
  <2>1. \A p \in Finishers : fin[p].step = "no"
    BY <1>1 DEF IInv, Owners, Recording
  <2> QED BY <2>1, <1>1 DEF Now
<1>2. CASE ~Recording
  BY <1>2 DEF IInv, Owners, Now
<1> QED BY <1>1, <1>2

\* A rebuild under way is that of the newest recording, which is running or
\* whose finish() has not yet joined it.
LEMMA RebuildNow ==
  ASSUME IInv, NEW g \in Generations, rb[g].pc \in Alive
  PROVE  \E a \in Actives, s \in {"take", "watch", "rebuild"} :
           /\ Now(a, s) /\ Body(a, s) /\ a.rebuild = g /\ g = generation
           /\ rb[g].recording = started /\ started \in Recordings
           /\ state.kind \in {"recording", "stopping"}
           /\ s = "take" => a = active
           /\ s # "take" => active = NoActive
           /\ rb[g].pc # "spawned" => ~a.processing
           /\ running[started] = IF a.processing \/ rb[g].pc \in Taking THEN "cancelling" ELSE "no"
<1>1. state.kind \in {"recording", "stopping"}
  BY Types DEF IInv, Quiet, Alive
<1>2. \E a \in Actives, s \in Steps :
                       /\ Now(a, s) /\ Body(a, s) /\ s # "no"
                       /\ started \in Recordings
                       /\ s = "take" => a = active
                       /\ s # "take" => active = NoActive
  <2>1. CASE state.kind = "recording"
    BY <2>1, RunningNow DEF Recording, Body, Steps
  <2>2. CASE state.kind = "stopping"
    <3>1. PICK p \in Finishers : fin[p].step # "no"
      BY <2>2 DEF IInv, Owners
    <3> QED BY <3>1, FinishingNow, Types DEF PartsOf, Body, IInv
  <2> QED BY <1>1, <2>1, <2>2
<1>3. PICK a \in Actives, s \in Steps :
                       /\ Now(a, s) /\ Body(a, s) /\ s # "no"
                       /\ started \in Recordings
                       /\ s = "take" => a = active
                       /\ s # "take" => active = NoActive
  BY <1>2
<1>4. a.rebuild = g /\ a.rebuild # 0
  BY <1>3 DEF Body, Generations
<1>5. s \in {"take", "watch", "rebuild"}
  BY <1>3, <1>4 DEF Body, Alive, PastRebuild, Steps
<1>6. /\ rb[g].recording = started
      /\ rb[g].pc # "spawned" => ~a.processing
      /\ running[started] = IF a.processing \/ rb[g].pc \in Taking THEN "cancelling" ELSE "no"
  BY <1>3, <1>4, <1>5 DEF Body, Alive, PastProcessing
<1>7. g = generation
  BY <1>3, <1>4 DEF Body
<1> QED BY <1>1, <1>3, <1>4, <1>5, <1>6, <1>7

\* A rebuild that runs finds its recording there exactly while it is.
LEMMA RebuildSees ==
  ASSUME IInv, NEW g \in Generations, rb[g].pc \in Alive
  PROVE  StillRebuilding(g) <=> Recording
<1>1. PICK a \in Actives, s \in {"take", "watch", "rebuild"} :
           Now(a, s) /\ a.rebuild = g /\ g = generation
  BY RebuildNow
<1>2. Recording => a = active
  BY <1>1, RunningNow, OneNow
<1>3. g # 0
  BY DEF Generations
<1> QED BY <1>1, <1>2, <1>3 DEF StillRebuilding

-----------------------------------------------------------------------------
(* finish().                                                                *)

\* A finisher that goes on from one step to another stays the only one, and
\* what it carries is what there is of the recording.
LEMMA FinishGoes ==
  ASSUME IInv, NEW p \in Finishers, fin[p].step # "no",
         NEW y \in FinishType, y.step \notin {"no", "take"}, fin' = [fin EXCEPT ![p] = y],
         \A g \in Generations : rb'[g].pc = rb[g].pc /\ rb'[g].recording = rb[g].recording
                                /\ (Fits(rb[g])' <=> Fits(rb[g])),
         active' = NoActive, Body(y.taken, y.step)',
         y.step = "close" => y.result \in {"none", "failed"},
         y.step = "set" => y.result # "none",
         UNCHANGED <<state, started, generation, finalised, call, wfail>>
  PROVE  fin' \in [Finishers -> FinishType] /\ Owners' /\ Carried' /\ Bodies' /\ Quiet' /\ Latched' /\ Followed'
<1>1. fin \in [Finishers -> FinishType] /\ fin' \in [Finishers -> FinishType]
  BY Types DEF IInv
<1>2. fin'[p] = y /\ \A q \in Finishers : q # p => fin'[q] = fin[q] /\ fin[q].step = "no"
  BY <1>1 DEF IInv, Owners
<1>3. state'.kind = "stopping" /\ ~Recording'
  BY FinishingNow DEF Recording
<1>4. Owners'
  <2>1. \A q \in Finishers : (fin'[q].step = "no") <=> (fin[q].step = "no")
    BY <1>2
  <2> QED BY <1>2, <1>3, <2>1, Kinds DEF IInv, Owners
<1>5. Carried'
  BY DEF IInv, Carried
<1>6. Bodies'
  <2>1. \A q \in Finishers : fin'[q].step # "no" => q = p
    BY <1>2
  <2>2. ASSUME NEW a, NEW s, Now(a, s)'
        PROVE  a = y.taken /\ s = y.step
    BY <2>2, <1>2, <1>3, <2>1 DEF Now
  <2>3. \A a \in Actives, s \in Steps : Now(a, s)' => Body(a, s)'
    BY <2>2
  <2>4. \A q \in Finishers : fin'[q].step # "no" => fin'[q] = y
    BY <2>1, <1>2
  <2> QED BY <1>3, <2>3, <2>4 DEF Bodies
<1> QED BY <1>1, <1>3, <1>4, <1>5, <1>6 DEF Quiet, Latched, Followed

WatchType == [pc : {"none", "watching", "decided", "handling", "ended"},
              reason : Maybe(Reasons), cancelled : BOOLEAN]

\* Taking the recording keeps the invariant: what finish() has is what there
\* was.
LEMMA TakeActiveKeeps ==
  ASSUME IInv, NEW p \in Finishers, TakeActive(p)
  PROVE  IInv'
<1> USE DEF At
<1>1. /\ PartsOf(p) = active /\ Body(active, "take") /\ started \in Recordings
      /\ active.recording = started /\ active # NoActive /\ fin[p].step = "take"
      /\ state.kind = "stopping"
  BY FinishingNow, NoActiveIsActive DEF TakeActive, PartsOf, Body
<1>2. TypeOK /\ fin[p] \in FinishType /\ active \in Actives /\ watch \in [Recordings -> WatchType]
  BY Types DEF IInv, TypeOK, WatchType
<1>a. PICK a \in Actives : a = active
  BY <1>2
<1>3. PICK y \in FinishType : y = [fin[p] EXCEPT !.step = "watch", !.taken = a]
  BY <1>2 DEF FinishType, Steps
<1>b. y.step = "watch" /\ y.taken = a
  BY <1>2, <1>3 DEF FinishType
<1>4. /\ fin' = [fin EXCEPT ![p] = y] /\ active' = NoActive
      /\ watch' = [watch EXCEPT ![started].cancelled = TRUE]
      /\ UNCHANGED <<state, started, generation, finalised, call, held, latch, stream, report,
                     reports, running, writer, wfail, rb, files>>
  BY <1>1, <1>a, <1>3 DEF TakeActive, FinishOthers, backend
<1>5. \A r \in Recordings : /\ watch'[r].pc = watch[r].pc /\ watch'[r].reason = watch[r].reason
                            /\ r # started => watch'[r] = watch[r]
  BY <1>4, <1>2 DEF WatchType
<1>6. Body(a, "watch")'
  <2>1. Body(a, "watch")
    BY <1>1, <1>a DEF Body, PastWatch, PastRebuild, PastBackend, PastProcessing, PastWriter
  <2>2. watch'[started].pc = watch[started].pc
    BY <1>5, <1>1
  <2> QED BY <2>1, <2>2, <1>4 DEF Body
<1>7. fin' \in [Finishers -> FinishType] /\ Owners' /\ Carried' /\ Bodies' /\ Quiet' /\ Latched' /\ Followed'
  <2>1. \A g \in Generations : rb'[g].pc = rb[g].pc /\ rb'[g].recording = rb[g].recording
                                /\ (Fits(rb[g])' <=> Fits(rb[g]))
    BY <1>4 DEF Fits
  <2> QED BY <1>1, <1>b, <1>4, <1>6, <2>1, FinishGoes
<1>8. TypeOK'
  <2>1. watch' \in [Recordings -> WatchType]
    BY <1>1, <1>4, <1>2, ZenonT(30) DEF WatchType
  <2> QED BY <1>2, <1>4, <1>7, <2>1, NoActiveIsActive DEF TypeOK, FinishType, WatchType
<1>9. Others'
  BY <1>4, <1>5 DEF IInv, Others
<1>10. Canceller'
  BY <1>4 DEF IInv, Canceller
<1>11. Streams'
  BY <1>4, <1>5 DEF IInv, Streams
<1>12. Budget'
  <2>1. Pending(NoActive) = 0 /\ Pending(active) \in {0, 1}
        /\ Watching(watch', started) = Watching(watch, started)
    BY <1>1, <1>5 DEF Pending, Watching, One, NoActive
  <2>2. Reporting(report) \in {0, 1} /\ Watching(watch, started) \in {0, 1}
    BY DEF Reporting, Watching, One
  <2> QED BY <2>1, <2>2, <1>2, <1>4, Types DEF IInv, Budget
<1>13. Kept'
  <2>1. \A q \in Finishers : fin'[q].step = "set" => fin[q] = fin'[q]
    BY <1>b, <1>4, <1>2 DEF TypeOK
  <2> QED BY <1>4, <2>1 DEF IInv, Kept
<1> QED BY <1>7, <1>8, <1>9, <1>10, <1>11, <1>12, <1>13 DEF IInv

\* A finisher past its first step, with the parts it has taken.
LEMMA FinishHas ==
  ASSUME IInv, NEW p \in Finishers, fin[p].step \notin {"no", "take"}
  PROVE  /\ TypeOK /\ fin[p] \in FinishType /\ started \in Recordings /\ state.kind = "stopping"
         /\ active = NoActive /\ Taken(p) \in Actives /\ Body(Taken(p), fin[p].step)
         /\ Taken(p).recording = started
         /\ \A q \in Finishers : q # p => fin[q].step = "no"
BY FinishingNow, Types DEF IInv, Owners, PartsOf, Taken

FinGoes(p, step, result) == fin' = [fin EXCEPT ![p].step = step, ![p].result = result]

\* What is the same in every step of finish() that goes on to `step'.
LEMMA FinishStep ==
  ASSUME IInv, NEW p \in Finishers, fin[p].step \notin {"no", "take"},
         NEW step \in {"rebuild", "backend", "processing", "writer", "close", "set"},
         NEW result \in {"none", "clean", "failed", "gone"},
         FinGoes(p, step, result),
         step = "close" => result \in {"none", "failed"},
         step = "set" => result # "none",
         \A g \in Generations : rb'[g].pc = rb[g].pc /\ rb'[g].recording = rb[g].recording
                                /\ rb'[g].took = rb[g].took /\ rb'[g].canceller = rb[g].canceller,
         \A a \in Actives : a = Taken(p) => Body(a, step)',
         UNCHANGED <<active, state, started, generation, finalised, call, wfail, watch, reports>>,
         report' \in {report, NoReport}
  PROVE  /\ fin' \in [Finishers -> FinishType]
         /\ Owners' /\ Carried' /\ Bodies' /\ Quiet' /\ Latched' /\ Followed' /\ Budget'
         /\ \A q \in Finishers : fin'[q].step = "set" => q = p /\ step = "set" /\ fin'[q].result = result
<1>1. /\ TypeOK /\ fin[p] \in FinishType /\ started \in Recordings /\ state.kind = "stopping"
      /\ active = NoActive /\ Taken(p) \in Actives /\ Body(Taken(p), fin[p].step)
      /\ fin \in [Finishers -> FinishType] /\ \A q \in Finishers : q # p => fin[q].step = "no"
  BY FinishHas, Types
<1>2. PICK a \in Actives : a = Taken(p)
  BY <1>1
<1>3. PICK y \in FinishType : y = [fin[p] EXCEPT !.step = step, !.result = result]
  BY <1>1 DEF FinishType, Steps
<1>4. y.step = step /\ y.taken = a /\ y.result = result
  BY <1>1, <1>2, <1>3 DEF FinishType, Taken
<1>5. fin' = [fin EXCEPT ![p] = y]
  BY <1>1, <1>3 DEF FinGoes
<1>6. \A g \in Generations : rb'[g].pc = rb[g].pc /\ rb'[g].recording = rb[g].recording
                                /\ (Fits(rb[g])' <=> Fits(rb[g]))
  BY DEF Fits
<1>7. fin' \in [Finishers -> FinishType] /\ Owners' /\ Carried' /\ Bodies' /\ Quiet' /\ Latched' /\ Followed'
  <2>1. Body(y.taken, y.step)'
    BY <1>2, <1>4
  <2>2. active' = NoActive /\ y.step \notin {"no", "take"} /\ fin[p].step # "no"
    BY <1>1, <1>4
  <2> QED BY <1>4, <1>5, <1>6, <2>1, <2>2, FinishGoes
<1>8. Budget'
  <2>1. Reporting(NoReport) = 0 /\ Reporting(report) \in {0, 1} /\ Pending(active) \in {0, 1}
        /\ Watching(watch, started) \in {0, 1}
    BY DEF Reporting, Pending, Watching, One
  <2> QED BY <2>1, <1>1, Types DEF IInv, Budget
<1>9. \A q \in Finishers : fin'[q].step = "set" => q = p /\ step = "set" /\ fin'[q].result = result
  BY <1>1, <1>4, <1>5
<1> QED BY <1>7, <1>8, <1>9

\* Joining the watch thread keeps the invariant.
LEMMA JoinWatchKeeps ==
  ASSUME IInv, NEW p \in Finishers, JoinWatch(p)
  PROVE  IInv'
<1> USE DEF At
<1>1. /\ TypeOK /\ fin[p] \in FinishType /\ started \in Recordings /\ state.kind = "stopping"
      /\ active = NoActive /\ Taken(p) \in Actives /\ Body(Taken(p), "watch")
      /\ Taken(p).recording = started /\ fin[p].step = "watch"
  BY FinishHas DEF JoinWatch
<1>2. /\ UNCHANGED <<state, started, generation, finalised, call, held, active, latch, stream, report,
                     reports, watch, running, writer, wfail, files>>
      /\ watch[started].pc \in {"none", "ended"}
  BY <1>1 DEF JoinWatch, FinishOthers, backend
<1>3. rb' \in [Generations -> RebuildType]
      /\ \A g \in Generations : rb'[g].pc = rb[g].pc /\ rb'[g].recording = rb[g].recording
                                /\ rb'[g].took = rb[g].took /\ rb'[g].canceller = rb[g].canceller
  <2>1. rb \in [Generations -> RebuildType]
    BY <1>1, Types
  <2>2. CASE Taken(p).rebuild = 0
    BY <2>1, <2>2 DEF JoinWatch
  <2>3. CASE Taken(p).rebuild # 0
    <3>1. PICK g \in Generations : g = Taken(p).rebuild
      BY <1>1, <2>3 DEF Body
    <3>2. rb' = [rb EXCEPT ![g].cancelled = TRUE]
      BY <2>3, <3>1 DEF JoinWatch
    <3>3. rb' = [rb EXCEPT ![g] = [rb[g] EXCEPT !.cancelled = TRUE]]
      BY <3>2
    <3>4. [rb[g] EXCEPT !.cancelled = TRUE] \in RebuildType
      BY <2>1 DEF RebuildType
    <3> QED BY <2>1, <3>3, <3>4 DEF RebuildType
  <2> QED BY <2>2, <2>3
<1>4. fin[p].result \in {"none", "clean", "failed", "gone"}
      /\ FinGoes(p, "rebuild", fin[p].result)
  BY <1>1, Types DEF JoinWatch, Goes, FinGoes, FinishType
<1>5. \A a \in Actives : a = Taken(p) => Body(a, "rebuild")'
  BY <1>1, <1>2, <1>3 DEF Body, PastWatch, PastRebuild, PastBackend, PastProcessing, PastWriter
<1>6. /\ fin' \in [Finishers -> FinishType]
      /\ Owners' /\ Carried' /\ Bodies' /\ Quiet' /\ Latched' /\ Followed' /\ Budget'
      /\ \A q \in Finishers : fin'[q].step # "set"
  BY <1>1, <1>2, <1>3, <1>4, <1>5, FinishStep
<1>7. TypeOK'
  BY <1>1, <1>2, <1>3, <1>6 DEF TypeOK, FinishType, RebuildType
<1>8. Others' /\ Canceller' /\ Streams' /\ Kept'
  BY <1>2, <1>3, <1>6 DEF IInv, Others, Canceller, Streams, Kept
<1> QED BY <1>6, <1>7, <1>8 DEF IInv

\* Joining the rebuild keeps the invariant: no rebuild is left.
LEMMA JoinRebuildKeeps ==
  ASSUME IInv, NEW p \in Finishers, JoinRebuild(p)
  PROVE  IInv'
<1> USE DEF At
<1>1. /\ TypeOK /\ fin[p] \in FinishType /\ started \in Recordings /\ state.kind = "stopping"
      /\ active = NoActive /\ Taken(p) \in Actives /\ Body(Taken(p), "rebuild")
      /\ Taken(p).recording = started /\ fin[p].step = "rebuild"
  BY FinishHas DEF JoinRebuild
<1>2. /\ UNCHANGED <<state, started, generation, finalised, call, held, active, latch, stream, report,
                     reports, watch, running, writer, wfail, rb, files>>
      /\ Taken(p).rebuild # 0 => rb[Taken(p).rebuild].pc = "ended"
  BY <1>1 DEF JoinRebuild, FinishOthers, backend, threads
<1>3. fin[p].result \in {"none", "clean", "failed", "gone"}
      /\ FinGoes(p, "backend", fin[p].result)
  BY <1>1, Types DEF JoinRebuild, Goes, FinGoes, FinishType
<1>4. \A a \in Actives : a = Taken(p) => Body(a, "backend")'
  BY <1>1, <1>2 DEF Body, PastWatch, PastRebuild, PastBackend, PastProcessing, PastWriter
<1>5. /\ fin' \in [Finishers -> FinishType]
      /\ Owners' /\ Carried' /\ Bodies' /\ Quiet' /\ Latched' /\ Followed' /\ Budget'
      /\ \A q \in Finishers : fin'[q].step # "set"
  BY <1>1, <1>2, <1>3, <1>4, FinishStep
<1>6. TypeOK'
  BY <1>1, <1>2, <1>5 DEF TypeOK, FinishType
<1>7. Others' /\ Canceller' /\ Streams' /\ Kept'
  BY <1>2, <1>5 DEF IInv, Others, Canceller, Streams, Kept
<1> QED BY <1>5, <1>6, <1>7 DEF IInv

\* Stopping the backend keeps the invariant: the gate is empty.
LEMMA StopBackendKeeps ==
  ASSUME IInv, NEW p \in Finishers, StopBackend(p)
  PROVE  IInv'
<1> USE DEF At
<1>1. /\ TypeOK /\ fin[p] \in FinishType /\ started \in Recordings /\ state.kind = "stopping"
      /\ active = NoActive /\ Taken(p) \in Actives /\ Body(Taken(p), "backend")
      /\ Taken(p).recording = started /\ fin[p].step = "backend"
  BY FinishHas DEF StopBackend
<1>2. /\ UNCHANGED <<state, started, generation, finalised, call, held, active, latch, report,
                     reports, watch, running, writer, wfail, rb, files>>
      /\ stream' = NoStream /\ report = NoReport
  BY <1>1 DEF StopBackend, FinishOthers, threads, BackendStops, IInv, Streams
<1>3. fin[p].result \in {"none", "clean", "failed", "gone"}
      /\ FinGoes(p, "processing", fin[p].result)
  BY <1>1, Types DEF StopBackend, Goes, FinGoes, FinishType
<1>4. \A a \in Actives : a = Taken(p) => Body(a, "processing")'
  BY <1>1, <1>2 DEF Body, PastWatch, PastRebuild, PastBackend, PastProcessing, PastWriter
<1>5. /\ fin' \in [Finishers -> FinishType]
      /\ Owners' /\ Carried' /\ Bodies' /\ Quiet' /\ Latched' /\ Followed' /\ Budget'
      /\ \A q \in Finishers : fin'[q].step # "set"
  BY <1>1, <1>2, <1>3, <1>4, FinishStep
<1>6. TypeOK'
  BY <1>1, <1>2, <1>5, SessionAssumption DEF TypeOK, FinishType, NoStream
<1>7. Others' /\ Canceller' /\ Streams' /\ Kept'
  BY <1>2, <1>5 DEF IInv, Others, Canceller, Streams, Kept
<1> QED BY <1>5, <1>6, <1>7 DEF IInv

\* Joining the processing thread keeps the invariant: its canceller is back.
LEMMA JoinProcessingKeeps ==
  ASSUME IInv, NEW p \in Finishers, JoinProcessing(p)
  PROVE  IInv'
<1> USE DEF At
<1>1. /\ TypeOK /\ fin[p] \in FinishType /\ started \in Recordings /\ state.kind = "stopping"
      /\ active = NoActive /\ Taken(p) \in Actives /\ Body(Taken(p), "processing")
      /\ Taken(p).recording = started /\ fin[p].step = "processing"
  BY FinishHas DEF JoinProcessing
<1>2. /\ UNCHANGED <<state, started, generation, finalised, call, active, latch, stream, report,
                     reports, watch, writer, wfail, rb, files>>
      /\ IF Taken(p).processing
           THEN held' = (running[started] = "cancelling") /\ running' = [running EXCEPT ![started] = "no"]
           ELSE UNCHANGED <<held, running>>
  BY <1>1 DEF JoinProcessing, FinishOthers, backend
<1>3. /\ running' \in [Recordings -> {"no", "plain", "cancelling"}]
      /\ running'[started] = "no" /\ \A r \in Recordings : r # started => running'[r] = running[r]
  <2>1. running \in [Recordings -> {"no", "plain", "cancelling"}]
    BY <1>1 DEF TypeOK
  <2>2. ~Taken(p).processing => running[started] = "no"
    BY <1>1 DEF Body, PastRebuild, Taking
  <2> QED BY <1>1, <1>2, <2>1, <2>2
<1>4. held' = TRUE /\ Canceller'
  <2>1. \A r \in Recordings : running'[r] = "no"
    BY <1>2, <1>3 DEF IInv, Others
  <2>2. \A g \in Generations : rb[g].pc # "handBack"
    BY <1>1, Types DEF Body, Alive, PastRebuild, RebuildPcs
  <2>3. Taken(p).processing => running[started] = "cancelling"
    BY <1>1 DEF Body, PastProcessing
  <2>4. held \in BOOLEAN
    BY <1>1 DEF TypeOK
  <2>5. ~Taken(p).processing => held
    BY <1>2, <2>1, <2>2 DEF IInv, Canceller
  <2>6. held' = TRUE
    BY <1>2, <2>3, <2>4, <2>5
  <2> QED BY <1>2, <2>1, <2>2, <2>6 DEF Canceller
<1>5. fin[p].result \in {"none", "clean", "failed", "gone"}
      /\ FinGoes(p, "writer", fin[p].result)
  BY <1>1, Types DEF JoinProcessing, Goes, FinGoes, FinishType
<1>6. \A a \in Actives : a = Taken(p) => Body(a, "writer")'
  BY <1>1, <1>2, <1>3 DEF Body, PastWatch, PastRebuild, PastBackend, PastProcessing, PastWriter
<1>7. /\ fin' \in [Finishers -> FinishType]
      /\ Owners' /\ Carried' /\ Bodies' /\ Quiet' /\ Latched' /\ Followed' /\ Budget'
      /\ \A q \in Finishers : fin'[q].step # "set"
  BY <1>1, <1>2, <1>5, <1>6, FinishStep
<1>8. TypeOK'
  BY <1>1, <1>2, <1>3, <1>4, <1>7 DEF TypeOK, FinishType
<1>9. Others' /\ Streams' /\ Kept'
  BY <1>2, <1>3, <1>7 DEF IInv, Others, Streams, Kept
<1> QED BY <1>4, <1>7, <1>8, <1>9 DEF IInv

\* The newest recording's files are written to once, and nothing names them
\* before.
LEMMA OpenIsUnnamed ==
  ASSUME IInv, started \in Recordings, files[started] = "open"
  PROVE  /\ finalised # started
         /\ \A c \in Callers : call[c].got # started
BY DEF IInv, Kept, Recordings

\* Joining the writer keeps the invariant.
LEMMA JoinWriterKeeps ==
  ASSUME IInv, NEW p \in Finishers, JoinWriter(p)
  PROVE  IInv'
<1> USE DEF At
<1>1. /\ TypeOK /\ fin[p] \in FinishType /\ started \in Recordings /\ state.kind = "stopping"
      /\ active = NoActive /\ Taken(p) \in Actives /\ Body(Taken(p), "writer")
      /\ Taken(p).recording = started /\ fin[p].step = "writer"
  BY FinishHas DEF JoinWriter
<1>2. /\ UNCHANGED <<state, started, generation, finalised, call, held, active, latch, stream, report,
                     reports, watch, running, wfail, rb>>
      /\ writer' = [writer EXCEPT ![started] = "ended"]
  BY <1>1 DEF JoinWriter, FinishOthers, backend
<1>3. PICK step \in {"close", "set"}, result \in {"none", "failed", "gone"} :
        /\ FinGoes(p, step, result)
        /\ step = "close" => result \in {"none", "failed"} /\ files' = files
        /\ step = "set" => result = "gone" /\ files' = [files EXCEPT ![started] = "gone"]
  BY <1>1, Zenon DEF JoinWriter, Ends, FinGoes
<1>4. /\ writer \in [Recordings -> {"no", "runs", "failed", "ended"}]
      /\ files \in [Recordings -> {"none", "open", "saved", "gone"}]
      /\ files[started] = "open"
  BY <1>1 DEF TypeOK, Body
<1>5. /\ writer'[started] = "ended" /\ \A r \in Recordings : r # started => writer'[r] = writer[r] /\ files'[r] = files[r]
      /\ files'[started] = IF step = "set" THEN "gone" ELSE "open"
  BY <1>1, <1>2, <1>3, <1>4
<1>6. \A a \in Actives : a = Taken(p) => Body(a, step)'
  BY <1>1, <1>2, <1>3, <1>5 DEF Body, PastWatch, PastRebuild, PastBackend, PastProcessing, PastWriter
<1>7. /\ fin' \in [Finishers -> FinishType]
      /\ Owners' /\ Carried' /\ Bodies' /\ Quiet' /\ Latched' /\ Followed' /\ Budget'
      /\ \A q \in Finishers : fin'[q].step = "set" => fin'[q].result = "gone"
  <2>1. report' \in {report, NoReport} /\ (step = "set" => result # "none")
    BY <1>2, <1>3
  <2> QED BY <1>1, <1>2, <1>3, <1>6, <2>1, FinishStep
<1>8. TypeOK'
  <2>1. /\ writer' \in [Recordings -> {"no", "runs", "failed", "ended"}]
        /\ files' \in [Recordings -> {"none", "open", "saved", "gone"}]
    BY <1>1, <1>2, <1>3, <1>4
  <2> QED BY <1>1, <1>2, <1>7, <2>1 DEF TypeOK, FinishType
<1>9. Others' /\ Canceller' /\ Streams'
  BY <1>2, <1>5 DEF IInv, Others, Canceller, Streams
<1>10. Kept'
  <2>1. \A r \in Recordings : files[r] = "saved" => files'[r] = "saved"
    BY <1>4, <1>5
  <2>2. finalised \in 0..MaxStarts /\ \A c \in Callers : call[c].got \in 0..MaxStarts
    BY <1>1 DEF TypeOK
  <2> QED BY <1>1, <1>2, <1>7, <2>1, <2>2 DEF IInv, Kept, Recordings
<1> QED BY <1>7, <1>8, <1>9, <1>10 DEF IInv

\* Closing the files keeps the invariant.
LEMMA CloseFilesKeeps ==
  ASSUME IInv, NEW p \in Finishers, CloseFiles(p)
  PROVE  IInv'
<1> USE DEF At
<1>1. /\ TypeOK /\ fin[p] \in FinishType /\ started \in Recordings /\ state.kind = "stopping"
      /\ active = NoActive /\ Taken(p) \in Actives /\ Body(Taken(p), "close")
      /\ Taken(p).recording = started /\ fin[p].step = "close"
  BY FinishHas DEF CloseFiles
<1>2. /\ UNCHANGED <<state, started, generation, finalised, call, held, active, latch, stream, report,
                     reports, watch, running, writer, wfail, rb>>
  BY <1>1 DEF CloseFiles, FinishOthers, backend, threads
<1>3. PICK result \in {"clean", "failed", "gone"} :
        /\ FinGoes(p, "set", result)
        /\ files' = [files EXCEPT ![started] = IF result = "gone" THEN "gone" ELSE "saved"]
  BY <1>1 DEF CloseFiles, Ends, FinGoes
<1>4. /\ files \in [Recordings -> {"none", "open", "saved", "gone"}]
      /\ files[started] = "open"
  BY <1>1 DEF TypeOK, Body
<1>5. /\ \A r \in Recordings : r # started => files'[r] = files[r]
      /\ files'[started] = IF result = "gone" THEN "gone" ELSE "saved"
  BY <1>1, <1>3, <1>4
<1>6. \A a \in Actives : a = Taken(p) => Body(a, "set")'
  BY <1>1, <1>2, <1>5 DEF Body, PastWatch, PastRebuild, PastBackend, PastProcessing, PastWriter
<1>7. /\ fin' \in [Finishers -> FinishType]
      /\ Owners' /\ Carried' /\ Bodies' /\ Quiet' /\ Latched' /\ Followed' /\ Budget'
      /\ \A q \in Finishers : fin'[q].step = "set" => fin'[q].result = result
  BY <1>1, <1>2, <1>3, <1>6, FinishStep
<1>8. TypeOK'
  <2>1. files' \in [Recordings -> {"none", "open", "saved", "gone"}]
    BY <1>1, <1>3, <1>4
  <2> QED BY <1>1, <1>2, <1>7, <2>1 DEF TypeOK, FinishType
<1>9. Others' /\ Canceller' /\ Streams'
  BY <1>2, <1>5 DEF IInv, Others, Canceller, Streams
<1>10. Kept'
  <2>1. \A r \in Recordings : files[r] = "saved" => files'[r] = "saved"
    BY <1>4, <1>5
  <2>2. finalised \in 0..MaxStarts /\ \A c \in Callers : call[c].got \in 0..MaxStarts
    BY <1>1 DEF TypeOK
  <2> QED BY <1>1, <1>2, <1>5, <1>7, <2>1, <2>2 DEF IInv, Kept, Recordings
<1> QED BY <1>7, <1>8, <1>9, <1>10 DEF IInv

\* A thread that ends nothing has the type of the finishers.
LEMMA NotFinishingType == NotFinishing \in FinishType /\ NotFinishing.step = "no"
BY NoActiveIsActive DEF NotFinishing, FinishType, Steps

CallType == [pc : {"idle", "waiting", "finishing"}, of : 0..MaxStarts, got : 0..MaxStarts,
             waited : BOOLEAN]

\* The end of finish(): what is left of the recording is its files.
LEMMA SetFinishedKeeps ==
  ASSUME IInv, NEW p \in Finishers, SetFinished(p)
  PROVE  IInv'
<1> USE DEF At
<1>1. /\ TypeOK /\ fin[p] \in FinishType /\ started \in Recordings /\ state.kind = "stopping"
      /\ active = NoActive /\ Taken(p) \in Actives /\ Body(Taken(p), "set")
      /\ Taken(p).recording = started /\ fin[p].step = "set"
      /\ \A q \in Finishers : q # p => fin[q].step = "no"
  BY FinishHas DEF SetFinished
<1>2. PICK r \in {0, started} :
        /\ \/ state' = [kind |-> "idle", recording |-> 0] /\ UNCHANGED finalised /\ r = started
           \/ Fails(r)
        /\ r # 0 => files[started] = "saved"
        /\ p[1] = "call" => call' = [call EXCEPT ![p[2]].pc = "idle", ![p[2]].got = r]
        /\ p[1] # "call" => call' = call
        /\ wfail' = IF p[1] = "writer" THEN [wfail EXCEPT ![p[2]] = "ended"] ELSE wfail
        /\ rb' = IF p[1] = "rebuild" THEN [rb EXCEPT ![p[2]].pc = "ended"] ELSE rb
        /\ fin' = [fin EXCEPT ![p] = NotFinishing]
  <2> DEFINE r == IF fin[p].result = "gone" THEN 0 ELSE started
  <2>1. r \in {0, started}
    OBVIOUS
  <2>2. r # 0 => files[started] = "saved"
    BY <1>1 DEF FinishType, IInv, Kept, Bodies
  <2>3. /\ \/ state' = [kind |-> "idle", recording |-> 0] /\ UNCHANGED finalised /\ r = started
           \/ Fails(r)
    BY <1>1 DEF SetFinished
  <2>4. /\ p[1] = "call" => call' = [call EXCEPT ![p[2]].pc = "idle", ![p[2]].got = r]
        /\ p[1] # "call" => call' = call
        /\ wfail' = IF p[1] = "writer" THEN [wfail EXCEPT ![p[2]] = "ended"] ELSE wfail
        /\ rb' = IF p[1] = "rebuild" THEN [rb EXCEPT ![p[2]].pc = "ended"] ELSE rb
        /\ fin' = [fin EXCEPT ![p] = NotFinishing]
    BY <1>1 DEF SetFinished
  <2> QED BY <2>1, <2>2, <2>3, <2>4
<1>3. UNCHANGED <<started, generation, held, active, latch, stream, report, reports, watch, running,
                  writer, files>>
  BY DEF SetFinished, backend
<1>4. /\ state'.kind \in {"idle", "failed"} /\ state'.recording \in {0, started}
      /\ state'.recording # 0 => files[started] = "saved"
      /\ finalised' \in {finalised, r} /\ ~Recording'
      /\ state' \in [kind : {"idle", "recording", "stopping", "failed"}, recording : 0..MaxStarts]
  BY <1>1, <1>2, SessionAssumption DEF Fails, Recording, Recordings
<1>5. /\ fin' \in [Finishers -> FinishType] /\ \A q \in Finishers : fin'[q] = NotFinishing /\ fin'[q].step = "no"
  <2>1. fin \in [Finishers -> FinishType] /\ \A q \in Finishers : fin[q].step = "no" => fin[q] = NotFinishing
    BY <1>1, Types DEF IInv, Owners
  <2> QED BY <1>1, <1>2, <2>1, NotFinishingType
<1>6. \A c \in Callers : /\ call'[c].pc # "finishing"
                         /\ call'[c].got # 0 => call'[c].got = call'[c].of /\ files[call'[c].got] = "saved"
  <2> SUFFICES ASSUME NEW c \in Callers
               PROVE  /\ call'[c].pc # "finishing"
                      /\ call'[c].got # 0 => call'[c].got = call'[c].of /\ files[call'[c].got] = "saved"
    OBVIOUS
  <2>1. /\ call \in [Callers -> [pc : {"idle", "waiting", "finishing"}, of : 0..MaxStarts,
                                 got : 0..MaxStarts, waited : BOOLEAN]]
        /\ <<"call", c>> \in Finishers
        /\ fin[<<"call", c>>].step # "no" <=> call[c].pc = "finishing"
        /\ call[c].pc = "finishing" => call[c].of = started
        /\ call[c].got # 0 => call[c].got = call[c].of /\ files[call[c].got] = "saved"
    BY <1>1, Kinds DEF TypeOK, IInv, Owners, Kept
  <2>2. CASE p = <<"call", c>>
    BY <1>1, <1>2, <2>1, <2>2
  <2>3. CASE p # <<"call", c>> /\ p[1] = "call"
    <3>1. p[2] # c
      BY <2>3, Kinds
    <3> QED BY <1>1, <1>2, <2>1, <2>3, <3>1
  <2>4. CASE p[1] # "call"
    BY <1>1, <1>2, <2>1, <2>4
  <2> QED BY <2>2, <2>3, <2>4
<1>7. wfail' \in [Recordings -> {"none", "spawned", "finishing", "ended"}]
      /\ \A q \in Recordings : /\ wfail'[q] # "finishing"
                               /\ q # started => wfail'[q] = wfail[q]
                               /\ wfail'[q] # "none" => wfail[q] # "none"
  <2>1. /\ wfail \in [Recordings -> {"none", "spawned", "finishing", "ended"}]
        /\ \A q \in Recordings : /\ <<"writer", q>> \in Finishers
                                 /\ fin[<<"writer", q>>].step # "no" <=> wfail[q] = "finishing"
                                 /\ wfail[q] = "finishing" => q = started
    BY <1>1, Kinds DEF TypeOK, IInv, Owners
  <2>2. CASE p[1] = "writer"
    <3>1. PICK q \in Recordings : p = <<"writer", q>>
      BY <2>2, Kinds
    <3>2. wfail' = [wfail EXCEPT ![q] = "ended"] /\ q = started /\ wfail[q] = "finishing"
      BY <1>1, <1>2, <2>1, <3>1
    <3>3. \A u \in Recordings : u # q => <<"writer", u>> # p
      BY <3>1
    <3>4. wfail'[q] = "ended" /\ \A u \in Recordings : u # q => wfail'[u] = wfail[u] /\ wfail[u] # "finishing"
      BY <2>1, <3>2
    <3> QED BY <2>1, <3>2, <3>4
  <2>3. CASE p[1] # "writer"
    <3>1. \A u \in Recordings : <<"writer", u>> # p
      BY <2>3
    <3> QED BY <1>1, <1>2, <2>1, <2>3, <3>1
  <2> QED BY <2>2, <2>3
<1>8. rb' \in [Generations -> RebuildType]
      /\ \A g \in Generations : /\ rb'[g].pc \in {"none", "ended"} /\ Fits(rb[g])'
                                /\ rb'[g].pc # "none" <=> rb[g].pc # "none"
  <2>1. /\ rb \in [Generations -> RebuildType]
        /\ \A g \in Generations : /\ <<"rebuild", g>> \in Finishers /\ Fits(rb[g])
                                  /\ fin[<<"rebuild", g>>].step # "no" <=> rb[g].pc = "finishing"
                                  /\ rb[g].pc \in {"none", "ended", "finishing"}
    BY <1>1, Kinds, Types DEF IInv, Owners, Carried, Body, Alive, PastRebuild
  <2>2. CASE p[1] = "rebuild"
    <3>1. PICK g \in Generations : p = <<"rebuild", g>>
      BY <2>2, Kinds
    <3>2. rb' = [rb EXCEPT ![g] = [rb[g] EXCEPT !.pc = "ended"]] /\ rb[g].pc = "finishing"
      BY <1>1, <1>2, <2>1, <3>1
    <3>3. \A h \in Generations : h # g => <<"rebuild", h>> # p
      BY <3>1
    <3>4. [rb[g] EXCEPT !.pc = "ended"] \in RebuildType
      BY <2>1 DEF RebuildType, RebuildPcs
    <3>5. \A h \in Generations : h # g => rb'[h] = rb[h] /\ rb[h].pc \in {"none", "ended"}
      BY <1>1, <2>1, <3>2, <3>3
    <3>6. rb'[g].pc = "ended" /\ Fits(rb[g])'
      BY <2>1, <3>2 DEF Fits, Taking, RebuildType
    <3> QED BY <2>1, <3>2, <3>4, <3>5, <3>6 DEF Fits
  <2>3. CASE p[1] # "rebuild"
    <3>1. \A u \in Generations : <<"rebuild", u>> # p
      BY <2>3
    <3> QED BY <1>1, <1>2, <2>1, <2>3, <3>1 DEF Fits
  <2> QED BY <2>2, <2>3
<1>9. TypeOK'
  <2>1. call' \in [Callers -> [pc : {"idle", "waiting", "finishing"}, of : 0..MaxStarts,
                               got : 0..MaxStarts, waited : BOOLEAN]]
    <3>1. r \in 0..MaxStarts
      BY <1>1, <1>2, SessionAssumption DEF Recordings
    <3>2. call \in [Callers -> CallType]
      BY <1>1 DEF TypeOK, CallType
    <3>3. CASE p[1] = "call"
      <4>1. PICK c \in Callers : p = <<"call", c>>
        BY <3>3, Kinds
      <4>2. [[call[c] EXCEPT !.pc = "idle"] EXCEPT !.got = r] \in CallType
        BY <3>1, <3>2 DEF CallType
      <4>3. call' = [call EXCEPT ![c] = [[call[c] EXCEPT !.pc = "idle"] EXCEPT !.got = r]]
        BY <1>2, <3>2, <3>3, <4>1 DEF CallType
      <4> QED BY <3>2, <4>2, <4>3 DEF CallType
    <3> QED BY <1>2, <3>2, <3>3 DEF CallType
  <2>2. finalised' \in 0..MaxStarts
    BY <1>1, <1>2, <1>4, SessionAssumption DEF TypeOK, Recordings
  <2> QED BY <1>1, <1>3, <1>4, <1>5, <1>7, <1>8, <2>1, <2>2 DEF TypeOK, FinishType, RebuildType
<1>10. Owners'
  BY <1>4, <1>5, <1>6, <1>7, <1>8, Kinds DEF Owners
<1>11. Carried'
  BY <1>3, <1>8 DEF IInv, Carried
<1>12. Others'
  BY <1>3, <1>7 DEF IInv, Others
<1>13. Bodies'
  <2>1. \A a \in Actives, s \in Steps : ~Now(a, s)'
    BY <1>4, <1>5 DEF Now
  <2> QED BY <1>4, <1>5, <2>1 DEF Bodies
<1>14. \A g \in Generations : rb[g].pc # "handBack"
  BY <1>1, Types DEF Body, Alive, PastRebuild, RebuildPcs
<1>15. Canceller'
  BY <1>3, <1>8, <1>14 DEF IInv, Canceller
<1>16. stream = NoStream /\ report = NoReport
  BY <1>1 DEF Body, PastBackend, IInv, Streams
<1>17. Streams' /\ Budget'
  BY <1>3, <1>8, <1>16 DEF IInv, Streams, Budget, Stopped
<1>18. Quiet' /\ Latched' /\ Followed'
  <2>1. \A q \in Recordings : running[q] = "no" /\ writer[q] \in {"no", "ended"}
                              /\ watch[q].pc \in {"none", "ended"} /\ files[q] # "open"
    BY <1>1 DEF IInv, Others, Body, PastWatch, PastProcessing, PastWriter
  <2> QED BY <1>1, <1>3, <1>4, <1>8, <1>16, <2>1 DEF Quiet, Latched, Followed
<1>19. Kept'
  <2>1. \A q \in Finishers : fin'[q].step # "set"
    BY <1>5
  <2> QED BY <1>1, <1>2, <1>3, <1>4, <1>6, <2>1 DEF IInv, Kept, Fails
<1> QED BY <1>9, <1>10, <1>11, <1>12, <1>13, <1>15, <1>17, <1>18, <1>19 DEF IInv

\* Every step of finish() keeps the invariant.
LEMMA FinishKeeps ==
  ASSUME IInv, NEW p \in Finishers, Finish(p)
  PROVE  IInv'
BY TakeActiveKeeps, JoinWatchKeeps, JoinRebuildKeeps, StopBackendKeeps, JoinProcessingKeeps,
   JoinWriterKeeps, CloseFilesKeeps, SetFinishedKeeps DEF Finish

-----------------------------------------------------------------------------
(* start(), stop() and a failed write.                                      *)

\* Nothing runs when a recording starts.
LEMMA StartFinds ==
  ASSUME IInv, Start
  PROVE  /\ TypeOK /\ started + 1 \in Recordings /\ started' = started + 1 /\ started \in Nat
         /\ active = NoActive /\ report = NoReport /\ stream = NoStream /\ held
         /\ \A r \in Recordings : /\ running[r] = "no" /\ writer[r] \in {"no", "ended"}
                                  /\ watch[r].pc \in {"none", "ended"} /\ files[r] # "open"
                                  /\ wfail[r] # "none" => writer[r] \in {"failed", "ended"}
                                  /\ r >= started + 1 => /\ wfail[r] = "none" /\ ~latch[r]
                                       /\ files[r] = "none" /\ watch[r].pc = "none"
                                       /\ ~watch[r].cancelled
         /\ \A g \in Generations : rb[g].pc \in {"none", "ended"}
         /\ \A p \in Finishers : fin[p].step = "no"
<1>1. started \in Nat /\ started < MaxStarts /\ MaxStarts \in Nat /\ started' = started + 1
      /\ state.kind \in {"idle", "failed"}
  BY Types DEF IInv, Start
<1>2. \A r \in Recordings : r \in Nat /\ (r >= started + 1 => r # started /\ r > started)
  BY <1>1 DEF Recordings
<1>3. held
  BY <1>1 DEF IInv, Canceller, Quiet
<1>4. \A p \in Finishers : fin[p].step = "no"
  BY <1>1 DEF IInv, Owners
<1> QED BY <1>1, <1>2, <1>3, <1>4 DEF IInv, Quiet, Others, Streams, Recordings

\* start() keeps the invariant, whether the recording runs or fails.
LEMMA StartKeeps ==
  ASSUME IInv, Start
  PROVE  IInv'
<1> DEFINE n == started + 1
<1>1. /\ TypeOK /\ n \in Recordings /\ started' = n /\ started \in Nat
      /\ active = NoActive /\ report = NoReport /\ stream = NoStream /\ held
      /\ \A r \in Recordings : /\ running[r] = "no" /\ writer[r] \in {"no", "ended"}
                               /\ watch[r].pc \in {"none", "ended"} /\ files[r] # "open"
                               /\ wfail[r] # "none" => writer[r] \in {"failed", "ended"}
                               /\ r >= n => /\ wfail[r] = "none" /\ ~latch[r]
                                    /\ files[r] = "none" /\ watch[r].pc = "none"
                                    /\ ~watch[r].cancelled
      /\ \A g \in Generations : rb[g].pc \in {"none", "ended"}
      /\ \A p \in Finishers : fin[p].step = "no"
  BY StartFinds
<1>2. UNCHANGED <<generation, latch, report, reports, wfail, rb, call, fin>>
      /\ (StartRuns(n) \/ StartFails)
  BY DEF Start
<1>3. \A r \in Recordings : r \in Nat /\ (r > n => r >= n /\ r # n)
  BY <1>1, Types DEF IInv, Recordings
<1>4. (\A c \in Callers : call[c].pc # "finishing") /\ (\A r \in Recordings : wfail[r] # "finishing")
  <2>1. Owners /\ \A p \in Finishers : fin[p].step = "no"
    BY <1>1 DEF IInv
  <2> HIDE DEF n
  <2> QED BY <2>1, Kinds DEF Owners
<1>6. state'.kind \in {"recording", "failed"}
  BY <1>2 DEF StartRuns, StartFails, Fails
<1>7. Owners'
  BY <1>1, <1>2, <1>4, <1>6, Kinds DEF IInv, Owners
<1>8. Carried'
  BY <1>2 DEF IInv, Carried, Fits
<1>9. n \in 0..MaxStarts /\ MaxStarts \in Nat /\ MaxReports \in Nat /\ 0 \in 0..MaxStarts /\ 0 \in 0..MaxReports
  BY <1>1, SessionAssumption DEF Recordings
<1>10. CASE StartFails
  <2>1. /\ state' = [kind |-> "failed", recording |-> 0] /\ finalised' = finalised
        /\ UNCHANGED <<stream, active, running, held, writer, watch, files>>
    BY <1>10 DEF StartFails, Fails
  <2>2. TypeOK'
    BY <1>1, <1>2, <1>9, <2>1 DEF TypeOK
  <2>3. Others'
    BY <1>1, <1>2, <1>3, <2>1 DEF Others
  <2>4. Bodies'
    <3>1. \A a \in Actives, s \in Steps : ~Now(a, s)'
      BY <1>1, <1>2, <2>1 DEF Now, Recording
    <3> QED BY <1>1, <1>2, <2>1, <3>1 DEF Bodies, Recording
  <2>5. Canceller'
    BY <1>2, <2>1 DEF IInv, Canceller
  <2>6. Streams'
    BY <1>1, <1>2, <2>1 DEF IInv, Streams
  <2>7. Budget'
    <3>1. Watching(watch, n) = 0 /\ Watching(watch, started) \in {0, 1}
          /\ Pending(active) \in {0, 1} /\ Reporting(report) \in {0, 1}
      BY <1>1 DEF Watching, One, Pending, Reporting
    <3> QED BY <1>1, <1>2, <2>1, <3>1, Types DEF IInv, Budget
  <2>8. Quiet' /\ Latched' /\ Followed' /\ Kept'
    BY <1>1, <1>2, <2>1 DEF IInv, Quiet, Latched, Followed, Kept, Recording
  <2> QED BY <1>7, <1>8, <2>2, <2>3, <2>4, <2>5, <2>6, <2>7, <2>8 DEF IInv
<1>11. CASE StartRuns(n)
  <2> DEFINE new == [NoActive EXCEPT !.recording = n, !.processing = TRUE]
  <2>1. /\ state' = [kind |-> "recording", recording |-> 0] /\ finalised' = finalised
        /\ stream' = [NoStream EXCEPT !.recording = n] /\ active' = new
        /\ running' = [running EXCEPT ![n] = "cancelling"] /\ held' = FALSE
        /\ writer' = [writer EXCEPT ![n] = "runs"]
        /\ watch' = IF Watched THEN [watch EXCEPT ![n].pc = "watching"] ELSE watch
        /\ files' = [files EXCEPT ![n] = "open"]
    BY <1>1, <1>11 DEF StartRuns, ProcessingOf
  <2>2. /\ new \in Actives /\ new.recording = n /\ new.processing /\ new.rebuild = 0
        /\ new.pending = "none"
        /\ stream' \in [recording : 0..MaxStarts, delivering : BOOLEAN, changed : BOOLEAN]
        /\ stream'.recording = n /\ ~stream'.changed
    BY <1>9, <2>1 DEF NoActive, Actives, Maybe, NoStream
  <2>3. /\ watch \in [Recordings -> WatchType] /\ watch' \in [Recordings -> WatchType]
        /\ \A r \in Recordings : /\ r # n => watch'[r] = watch[r]
                                 /\ watch'[r].reason = watch[r].reason
                                 /\ watch'[r].pc \in {"none", "ended", "watching"}
    <3>1. watch \in [Recordings -> WatchType]
      BY <1>1 DEF TypeOK, WatchType
    <3>2. [watch[n] EXCEPT !.pc = "watching"] \in WatchType
      BY <1>1, <3>1 DEF WatchType
    <3>3. CASE Watched
      <4>1. watch' = [watch EXCEPT ![n] = [watch[n] EXCEPT !.pc = "watching"]]
        BY <2>1, <3>3
      <4> HIDE DEF n
      <4> QED BY <1>1, <3>1, <3>2, <4>1 DEF WatchType
    <3> QED BY <1>1, <2>1, <3>1, <3>3
  <2>4. TypeOK'
    <3>1. /\ running' \in [Recordings -> {"no", "plain", "cancelling"}]
          /\ writer' \in [Recordings -> {"no", "runs", "failed", "ended"}]
          /\ files' \in [Recordings -> {"none", "open", "saved", "gone"}]
      BY <1>1, <2>1 DEF TypeOK
    <3> HIDE DEF n, new
    <3> QED BY <1>1, <1>2, <1>9, <2>1, <2>2, <2>3, <3>1 DEF TypeOK, WatchType
  <2>5. /\ running'[n] = "cancelling" /\ writer'[n] = "runs" /\ files'[n] = "open"
        /\ \A r \in Recordings : r # n => running'[r] = running[r] /\ writer'[r] = writer[r]
                                          /\ files'[r] = files[r]
    <3>1. /\ running \in [Recordings -> {"no", "plain", "cancelling"}]
          /\ writer \in [Recordings -> {"no", "runs", "failed", "ended"}]
          /\ files \in [Recordings -> {"none", "open", "saved", "gone"}]
      BY <1>1 DEF TypeOK
    <3> HIDE DEF n
    <3> QED BY <1>1, <2>1, <3>1
  <2> HIDE DEF n, new
  <2>6. Others'
    BY <1>1, <1>2, <1>3, <2>3, <2>5 DEF Others
  <2>7. Bodies'
    <3>1. ASSUME NEW a \in Actives, NEW s \in Steps, Now(a, s)'
          PROVE  Body(a, s)'
      <4>1. a = active' /\ s = "take"
        BY <3>1, <1>1, <1>2 DEF Now
      <4>2. n # 0 /\ \A h \in Generations : rb'[h].pc \notin Alive
        BY <1>1, <1>2 DEF Alive, Recordings
      <4>3. "take" \notin PastWatch \cup PastRebuild \cup PastBackend \cup PastProcessing \cup PastWriter
        BY DEF PastWatch, PastRebuild, PastBackend, PastProcessing, PastWriter
      <4> QED BY <1>1, <2>1, <2>2, <2>5, <4>1, <4>2, <4>3 DEF Body
    <3> QED BY <1>1, <1>2, <2>1, <2>2, <3>1 DEF Bodies
  <2>8. Canceller'
    <3>1. running'[n] # "no" /\ n \in Recordings /\ ~held'
      BY <1>1, <2>1, <2>5
    <3> QED BY <1>1, <2>5, <3>1 DEF Canceller
  <2>9. Streams'
    <3>1. \A g \in Generations : rb'[g].pc \notin Stopped
      BY <1>1, <1>2 DEF Stopped
    <3>2. n # 0 /\ report' = NoReport
      BY <1>1, <1>2 DEF Recordings
    <3> QED BY <1>1, <2>1, <2>2, <2>3, <3>1, <3>2 DEF Streams
  <2>10. Budget'
    <3>1. Watching(watch', n) = 0 /\ Pending(new) = 0
      BY <1>1, <2>2, <2>3 DEF Watching, One, Pending
    <3>2. Watching(watch, started) \in {0, 1} /\ Pending(active) \in {0, 1} /\ Reporting(report) \in {0, 1}
      BY DEF Watching, One, Pending, Reporting
    <3> QED BY <1>1, <1>2, <2>1, <3>1, <3>2, Types DEF IInv, Budget
  <2>11. Quiet' /\ Latched' /\ Followed'
    <3>1. ~latch'[n] /\ ~stream'.changed /\ state'.kind = "recording"
      BY <1>1, <1>2, <1>3, <2>1, <2>2
    <3> QED BY <1>1, <3>1 DEF Quiet, Latched, Followed
  <2>12. Kept'
    <3>1. finalised # n /\ finalised \in 0..MaxStarts
          /\ \A c \in Callers : call[c].got # n /\ call[c].got \in 0..MaxStarts
      <4>1. n >= n /\ files[n] = "none" /\ n # 0 /\ Kept
        BY <1>1, <1>3 DEF IInv, n, Recordings
      <4> QED BY <1>1, <4>1 DEF Kept, TypeOK
    <3>2. \A r \in 0..MaxStarts : r # 0 => r \in Recordings
      BY SessionAssumption DEF Recordings
    <3> QED BY <1>1, <1>2, <2>1, <2>5, <3>1, <3>2 DEF IInv, Kept
  <2> QED BY <1>7, <1>8, <2>4, <2>6, <2>7, <2>8, <2>9, <2>10, <2>11, <2>12 DEF IInv
<1> QED BY <1>2, <1>10, <1>11

\* Whoever ends the recording that runs becomes its only finisher.
LEMMA BeginsKeeps ==
  ASSUME IInv, NEW p \in Finishers, Recording, BeginsFinish(p), active' \in Actives,
         \A a \in Actives : a = active' => Body(a, "take")'
  PROVE  /\ state' = [kind |-> "stopping", recording |-> 0]
         /\ fin' \in [Finishers -> FinishType]
         /\ \A q \in Finishers : fin'[q].step = IF q = p THEN "take" ELSE "no"
         /\ \A q \in Finishers : fin[q].step = "no" /\ (fin'[q].step = "no" => fin'[q] = NotFinishing)
         /\ Bodies' /\ Quiet' /\ Latched' /\ Followed'
<1>1. /\ fin \in [Finishers -> FinishType]
      /\ \A q \in Finishers : fin[q].step = "no" /\ fin[q] = NotFinishing
  BY Types DEF IInv, Owners, Recording
<1>2. /\ state' = [kind |-> "stopping", recording |-> 0]
      /\ fin' = [fin EXCEPT ![p] = [NotFinishing EXCEPT !.step = "take"]]
  BY DEF BeginsFinish
<1>3. [NotFinishing EXCEPT !.step = "take"] \in FinishType
      /\ [NotFinishing EXCEPT !.step = "take"].step = "take"
  BY NotFinishingType DEF FinishType, Steps, NotFinishing
<1>4. /\ fin' \in [Finishers -> FinishType]
      /\ \A q \in Finishers : /\ fin'[q].step = IF q = p THEN "take" ELSE "no"
                              /\ fin'[q].step = "no" => fin'[q] = NotFinishing
  BY <1>1, <1>2, <1>3
<1>5. Bodies'
  <2>1. ASSUME NEW a \in Actives, NEW s \in Steps, Now(a, s)'
        PROVE  Body(a, s)'
    <3>1. a = active' /\ s = "take"
      BY <2>1, <1>2, <1>4 DEF Now, Recording
    <3> QED BY <3>1
  <2> QED BY <1>2, <1>4, <2>1 DEF Bodies, Recording
<1> QED BY <1>1, <1>2, <1>4, <1>5 DEF Quiet, Latched, Followed, Recording

\* Calls move only as callers and keep what they have been answered.
Answered(c, x) ==
  /\ x \in CallType /\ call' = [call EXCEPT ![c] = x]
  /\ x.got # 0 => x.got = x.of /\ files[x.got] = "saved"
  /\ x.pc = "finishing" => x.of = started

\* A caller that is answered, or waits, keeps the invariant.
LEMMA CallKeeps ==
  ASSUME IInv, NEW c \in Callers, NEW x, Answered(c, x), call[c].pc # "finishing",
         UNCHANGED <<started, generation, finalised, held, active, latch, stream, report, reports,
                     watch, running, writer, wfail, rb, files>>,
         \/ x.pc # "finishing" /\ UNCHANGED <<state, fin>>
         \/ x.pc = "finishing" /\ Recording /\ BeginsFinish(<<"call", c>>)
  PROVE  IInv'
<1>1. TypeOK /\ call \in [Callers -> CallType] /\ <<"call", c>> \in Finishers
  BY Kinds DEF IInv, TypeOK, CallType
<1>2. /\ call' \in [Callers -> CallType]
      /\ call'[c] = x /\ \A d \in Callers : d # c => call'[d] = call[d]
  BY <1>1 DEF Answered
<1>3. Others' /\ Canceller' /\ Budget' /\ Carried'
  BY DEF IInv, Others, Canceller, Budget, Carried, Fits
<1>4. \A d \in Callers : call'[d].got # 0 => call'[d].got = call'[d].of /\ files'[call'[d].got] = "saved"
  BY <1>2 DEF IInv, Kept, Answered
<1>5. CASE x.pc # "finishing" /\ UNCHANGED <<state, fin>>
  <2>1. TypeOK'
    BY <1>1, <1>2, <1>5 DEF TypeOK, CallType
  <2>2. Owners'
    BY <1>2, <1>5 DEF IInv, Owners
  <2>3. Bodies'
    BY <1>5 DEF IInv, Bodies, Now, Body, Recording
  <2>4. Streams' /\ Quiet' /\ Latched' /\ Followed' /\ Kept'
    BY <1>4, <1>5 DEF IInv, Streams, Quiet, Latched, Followed, Kept, Recording
  <2> QED BY <1>3, <2>1, <2>2, <2>3, <2>4 DEF IInv
<1>6. CASE x.pc = "finishing" /\ Recording /\ BeginsFinish(<<"call", c>>)
  <2>1. \A a \in Actives : a = active' => Body(a, "take")'
    BY <1>6, RunningNow DEF Body
  <2>2. /\ state' = [kind |-> "stopping", recording |-> 0]
        /\ fin' \in [Finishers -> FinishType]
        /\ \A q \in Finishers : fin'[q].step = IF q = <<"call", c>> THEN "take" ELSE "no"
        /\ \A q \in Finishers : fin[q].step = "no" /\ (fin'[q].step = "no" => fin'[q] = NotFinishing)
        /\ Bodies' /\ Quiet' /\ Latched' /\ Followed'
    <3>1. active' \in Actives
      BY Types DEF IInv
    <3> QED BY <1>1, <1>6, <2>1, <3>1, BeginsKeeps
  <2>3. TypeOK'
    BY <1>1, <1>2, <2>2, SessionAssumption DEF TypeOK, CallType, FinishType
  <2>4. Owners'
    <3>1. \A d \in Callers : d # c => <<"call", d>> # <<"call", c>>
      OBVIOUS
    <3>2. /\ \A r \in Recordings : <<"writer", r>> # <<"call", c>>
          /\ \A g \in Generations : <<"rebuild", g>> # <<"call", c>>
      OBVIOUS
    <3>3. /\ \A d \in Callers : d # c => call'[d].pc # "finishing"
          /\ \A r \in Recordings : wfail'[r] # "finishing"
          /\ \A g \in Generations : rb'[g].pc # "finishing"
      <4>1. Owners /\ \A q \in Finishers : fin[q].step = "no"
        BY <2>2 DEF IInv
      <4>2. /\ \A d \in Callers : call[d].pc # "finishing"
            /\ \A r \in Recordings : wfail[r] # "finishing"
            /\ \A g \in Generations : rb[g].pc # "finishing"
        BY <4>1, Kinds DEF Owners
      <4> QED BY <1>2, <4>2
    <3>4. call'[c].of = started'
      BY <1>2, <1>6 DEF Answered
    <3> QED BY <1>1, <1>2, <1>6, <2>2, <3>1, <3>2, <3>3, <3>4, Kinds DEF Owners
  <2>5. Streams'
    BY <2>2 DEF IInv, Streams
  <2>6. Kept'
    BY <1>4, <2>2 DEF IInv, Kept
  <2> QED BY <1>3, <2>2, <2>3, <2>4, <2>5, <2>6 DEF IInv
<1> QED BY <1>5, <1>6

\* stop() with the mutex, when no finalise runs.
LEMMA StopDecidesKeeps ==
  ASSUME IInv, NEW c \in Callers, NEW of \in 0..MaxStarts, NEW waited \in BOOLEAN,
         call[c].pc # "finishing", StopDecides(c, of, waited), StopOthers
  PROVE  IInv'
<1>1. TypeOK
  BY DEF IInv
<1>2. UNCHANGED <<started, generation, finalised, held, active, latch, stream, report, reports,
                  watch, running, writer, wfail, rb, files>>
  BY DEF StopOthers, backend, threads
<1>3. ASSUME NEW got \in 0..MaxStarts, Answers(c, of, got, waited), UNCHANGED <<state, fin>>,
             got # 0 => got = of /\ files[got] = "saved"
      PROVE  IInv'
  <2> DEFINE x == [pc |-> "idle", of |-> of, got |-> got, waited |-> waited]
  <2>1. Answered(c, x) /\ x.pc # "finishing"
    BY <1>3 DEF Answered, Answers, CallType
  <2> HIDE DEF x
  <2> QED BY <1>2, <1>3, <2>1, CallKeeps
<1>4. CASE started # of /\ Answers(c, of, IF finalised = of THEN of ELSE 0, waited) /\ UNCHANGED <<state, fin>>
  <2>1. CASE finalised = of
    BY <1>3, <1>4, <2>1 DEF IInv, Kept
  <2>2. CASE finalised # of
    BY <1>3, <1>4, <2>2, SessionAssumption
  <2> QED BY <2>1, <2>2
<1>5. CASE /\ started = of /\ Recording /\ BeginsFinish(<<"call", c>>)
           /\ call' = [call EXCEPT ![c] = [pc |-> "finishing", of |-> of, got |-> 0, waited |-> waited]]
  <2> DEFINE x == [pc |-> "finishing", of |-> of, got |-> 0, waited |-> waited]
  <2>1. Answered(c, x) /\ x.pc = "finishing"
    BY <1>5, SessionAssumption DEF Answered, CallType
  <2> HIDE DEF x
  <2> QED BY <1>2, <1>5, <2>1, CallKeeps
<1>6. CASE /\ started = of
           /\ Answers(c, of, IF state.kind = "failed" THEN state.recording ELSE 0, waited)
           /\ UNCHANGED <<state, fin>>
  <2>1. CASE state.kind = "failed"
    <3>1. state.recording \in 0..MaxStarts /\ (state.recording # 0 =>
            files[state.recording] = "saved" /\ state.recording = started)
      BY <1>1, <2>1 DEF TypeOK, IInv, Kept
    <3> QED BY <1>3, <1>6, <2>1, <3>1
  <2>2. CASE state.kind # "failed"
    BY <1>3, <1>6, <2>2, SessionAssumption
  <2> QED BY <2>1, <2>2
<1> QED BY <1>4, <1>5, <1>6 DEF StopDecides

\* stop() keeps the invariant.
LEMMA StopKeeps ==
  ASSUME IInv, NEW c \in Callers, Stop(c)
  PROVE  IInv'
<1>1. TypeOK /\ call[c].pc = "idle" /\ started \in 0..MaxStarts
  BY DEF IInv, TypeOK, Stop
<1>2. CASE state.kind # "stopping" /\ StopDecides(c, started, FALSE) /\ StopOthers
  BY <1>1, <1>2, StopDecidesKeeps
<1>3. CASE /\ call' = [call EXCEPT ![c] = [pc |-> "waiting", of |-> started, got |-> 0, waited |-> TRUE]]
           /\ UNCHANGED <<state, fin>> /\ StopOthers
  <2> DEFINE x == [pc |-> "waiting", of |-> started, got |-> 0, waited |-> TRUE]
  <2>1. Answered(c, x) /\ x.pc # "finishing"
    BY <1>1, <1>3, SessionAssumption DEF Answered, CallType
  <2>2. UNCHANGED <<started, generation, finalised, held, active, latch, stream, report, reports,
                  watch, running, writer, wfail, rb, files>>
    BY <1>3 DEF StopOthers, backend, threads
  <2> HIDE DEF x
  <2> QED BY <1>1, <1>3, <2>1, <2>2, CallKeeps
<1> QED BY <1>2, <1>3 DEF Stop

\* A stop() that has waited keeps the invariant.
LEMMA StopWakesKeeps ==
  ASSUME IInv, NEW c \in Callers, StopWakes(c)
  PROVE  IInv'
<1>1. call[c].pc = "waiting" /\ call[c].of \in 0..MaxStarts
  BY DEF IInv, TypeOK, StopWakes
<1> QED BY <1>1, StopDecidesKeeps DEF StopWakes

\* What a step that leaves the session's state, its active recording and the
\* finishers alone keeps of the recording.
LEMMA BodiesStay ==
  ASSUME IInv, UNCHANGED <<state, active, fin>>,
         \A a \in Actives, s \in Steps : Now(a, s) /\ Body(a, s) => Body(a, s)'
  PROVE  Bodies'
<1>1. \A a \in Actives, s \in Steps : Now(a, s)' => Now(a, s)
  BY DEF Now, Recording
<1> QED BY <1>1 DEF IInv, Bodies, Recording

\* A write that fails keeps the invariant.
LEMMA WriterFailsKeeps ==
  ASSUME IInv, NEW r \in Recordings, WriterFails(r)
  PROVE  IInv'
<1>1. /\ TypeOK /\ writer[r] = "runs" /\ writer' = [writer EXCEPT ![r] = "failed"]
      /\ wfail' \in {[wfail EXCEPT ![r] = "spawned"], wfail}
      /\ UNCHANGED <<state, started, generation, finalised, held, active, latch, stream, report,
                     reports, watch, running, rb, call, fin, files>>
  BY DEF WriterFails, session, backend, IInv
<1>2. r = started /\ wfail[r] = "none"
  BY <1>1 DEF IInv, Others
<1>3. /\ writer' \in [Recordings -> {"no", "runs", "failed", "ended"}]
      /\ wfail' \in [Recordings -> {"none", "spawned", "finishing", "ended"}]
      /\ writer'[r] = "failed" /\ wfail'[r] \in {"none", "spawned"}
      /\ \A q \in Recordings : q # r => writer'[q] = writer[q] /\ wfail'[q] = wfail[q]
  BY <1>1, <1>2 DEF TypeOK
<1>4. TypeOK'
  BY <1>1, <1>3 DEF TypeOK
<1>5. Owners'
  <2>1. \A q \in Recordings : wfail'[q] = "finishing" <=> wfail[q] = "finishing"
    BY <1>2, <1>3
  <2> QED BY <1>1, <2>1 DEF IInv, Owners
<1>6. Others'
  BY <1>1, <1>2, <1>3 DEF IInv, Others
<1>7. Bodies'
  <2>1. \A a \in Actives, s \in Steps : Now(a, s) /\ Body(a, s) => Body(a, s)'
    BY <1>1, <1>2, <1>3 DEF Body
  <2> QED BY <1>1, <2>1, BodiesStay
<1>8. Quiet'
  BY <1>1 DEF IInv, Quiet
<1>9. Carried' /\ Canceller' /\ Streams' /\ Budget' /\ Latched' /\ Followed' /\ Kept'
  BY <1>1 DEF IInv, Carried, Fits, Canceller, Streams, Budget, Latched, Followed, Kept, Recording
<1> QED BY <1>4, <1>5, <1>6, <1>7, <1>8, <1>9 DEF IInv

\* The thread of a failed write keeps the invariant: it ends its own
\* recording or none.
LEMMA WriterFailedKeeps ==
  ASSUME IInv, NEW r \in Recordings, WriterFailed(r)
  PROVE  IInv'
<1>1. /\ TypeOK /\ wfail[r] = "spawned"
      /\ UNCHANGED <<started, generation, finalised, held, active, latch, stream, report,
                     reports, watch, running, writer, rb, call, files>>
      /\ wfail \in [Recordings -> {"none", "spawned", "finishing", "ended"}]
      /\ <<"writer", r>> \in Finishers
  BY Kinds DEF WriterFailed, backend, IInv, TypeOK
<1>2. Carried' /\ Canceller' /\ Budget'
  BY <1>1 DEF IInv, Carried, Fits, Canceller, Budget
<1>3. CASE wfail' = [wfail EXCEPT ![r] = "ended"] /\ UNCHANGED <<state, fin>>
  <2>1. /\ wfail' \in [Recordings -> {"none", "spawned", "finishing", "ended"}]
        /\ wfail'[r] = "ended" /\ \A q \in Recordings : q # r => wfail'[q] = wfail[q]
    BY <1>1, <1>3
  <2>2. TypeOK'
    BY <1>1, <1>3, <2>1 DEF TypeOK
  <2>3. Owners'
    <3>1. \A q \in Recordings : wfail'[q] = "finishing" <=> wfail[q] = "finishing"
      BY <1>1, <2>1
    <3> QED BY <1>1, <1>3, <3>1 DEF IInv, Owners
  <2>4. Others'
    BY <1>1, <2>1 DEF IInv, Others
  <2>5. Bodies'
    <3>1. \A a \in Actives, s \in Steps : Now(a, s) /\ Body(a, s) => Body(a, s)'
      BY <1>1 DEF Body
    <3> QED BY <1>1, <1>3, <3>1, BodiesStay
  <2>6. Streams' /\ Quiet' /\ Latched' /\ Followed' /\ Kept'
    BY <1>1, <1>3 DEF IInv, Streams, Quiet, Latched, Followed, Kept, Recording
  <2> QED BY <1>2, <2>2, <2>3, <2>4, <2>5, <2>6 DEF IInv
<1>4. CASE /\ Recording /\ started = r /\ BeginsFinish(<<"writer", r>>)
           /\ wfail' = [wfail EXCEPT ![r] = "finishing"]
  <2>1. /\ wfail' \in [Recordings -> {"none", "spawned", "finishing", "ended"}]
        /\ wfail'[r] = "finishing" /\ \A q \in Recordings : q # r => wfail'[q] = wfail[q]
    BY <1>1, <1>4
  <2>2. /\ state' = [kind |-> "stopping", recording |-> 0]
        /\ fin' \in [Finishers -> FinishType]
        /\ \A q \in Finishers : fin'[q].step = IF q = <<"writer", r>> THEN "take" ELSE "no"
        /\ \A q \in Finishers : fin[q].step = "no" /\ (fin'[q].step = "no" => fin'[q] = NotFinishing)
        /\ Bodies' /\ Quiet' /\ Latched' /\ Followed'
    <3>1. active' \in Actives /\ \A a \in Actives : a = active' => Body(a, "take")'
      BY <1>1, <1>4, Types, RunningNow DEF Body, IInv
    <3> QED BY <1>1, <1>4, <3>1, BeginsKeeps
  <2>3. TypeOK'
    BY <1>1, <2>1, <2>2, SessionAssumption DEF TypeOK, FinishType
  <2>4. Owners'
    <3>1. \A q \in Recordings : q # r => <<"writer", q>> # <<"writer", r>>
      OBVIOUS
    <3>2. /\ \A d \in Callers : <<"call", d>> # <<"writer", r>>
          /\ \A g \in Generations : <<"rebuild", g>> # <<"writer", r>>
      OBVIOUS
    <3>3. /\ \A d \in Callers : call'[d].pc # "finishing"
          /\ \A q \in Recordings : q # r => wfail'[q] # "finishing"
          /\ \A g \in Generations : rb'[g].pc # "finishing"
      <4>1. Owners /\ \A q \in Finishers : fin[q].step = "no"
        BY <2>2 DEF IInv
      <4>2. /\ \A d \in Callers : call[d].pc # "finishing"
            /\ \A q \in Recordings : wfail[q] # "finishing"
            /\ \A g \in Generations : rb[g].pc # "finishing"
        BY <4>1, Kinds DEF Owners
      <4> QED BY <1>1, <2>1, <4>2
    <3> QED BY <1>1, <1>4, <2>1, <2>2, <3>1, <3>2, <3>3, Kinds DEF Owners
  <2>5. Others'
    BY <1>1, <2>1 DEF IInv, Others
  <2>6. Streams' /\ Kept'
    BY <1>1, <2>2 DEF IInv, Streams, Kept
  <2> QED BY <1>2, <2>2, <2>3, <2>4, <2>5, <2>6 DEF IInv
<1> QED BY <1>3, <1>4 DEF WriterFailed

-----------------------------------------------------------------------------
(* Device changes: who reports them.                                        *)

StreamType == [recording : 0..MaxStarts, delivering : BOOLEAN, changed : BOOLEAN]
ReportType == [pc : {"none", "decided", "handling"}, recording : 0..MaxStarts,
               reason : Maybe(Reasons)]

\* What TypeOK says of streams, reports and watch threads.
LEMMA ReportTypes ==
  ASSUME TypeOK
  PROVE  stream \in StreamType /\ report \in ReportType /\ NoReport \in ReportType
         /\ NoStream \in StreamType /\ watch \in [Recordings -> WatchType]
         /\ latch \in [Recordings -> BOOLEAN]
BY SessionAssumption DEF TypeOK, StreamType, ReportType, WatchType, NoReport, NoStream, Maybe

\* A stream's first frame keeps the invariant.
LEMMA StreamDeliversKeeps ==
  ASSUME IInv, StreamDelivers
  PROVE  IInv'
<1>1. /\ TypeOK /\ stream # NoStream /\ stream' = [stream EXCEPT !.delivering = TRUE]
      /\ UNCHANGED <<state, started, generation, finalised, held, active, latch, report, reports,
                     watch, running, writer, wfail, rb, call, fin, files>>
  BY DEF StreamDelivers, session, threads, IInv
<1>2. /\ stream' \in StreamType /\ stream'.recording = stream.recording
      /\ stream'.changed = stream.changed /\ stream # NoStream /\ stream' # NoStream
  <2>1. stream \in StreamType /\ stream.recording # 0
    BY <1>1, ReportTypes DEF IInv, Streams
  <2> QED BY <1>1, <2>1 DEF StreamType, NoStream
<1>3. TypeOK'
  BY <1>1, <1>2 DEF TypeOK, StreamType
<1>4. Bodies'
  <2>1. \A a \in Actives, s \in Steps : Now(a, s) /\ Body(a, s) => Body(a, s)'
    BY <1>1, <1>2 DEF Body
  <2> QED BY <1>1, <2>1, BodiesStay
<1>5. Owners' /\ Carried' /\ Others' /\ Canceller' /\ Budget' /\ Kept'
  BY <1>1 DEF IInv, Owners, Carried, Fits, Others, Canceller, Budget, Kept
<1>6. Streams' /\ Quiet' /\ Latched' /\ Followed'
  BY <1>1, <1>2 DEF IInv, Streams, Quiet, Latched, Followed, Recording
<1> QED BY <1>3, <1>4, <1>5, <1>6 DEF IInv

\* A device that changes keeps the invariant: its report is on its way.
LEMMA DeviceChangesKeeps ==
  ASSUME IInv, NEW reason \in {"device", "service"}, DeviceChanges(reason)
  PROVE  IInv'
<1>1. /\ TypeOK /\ stream # NoStream /\ stream' = [stream EXCEPT !.changed = TRUE]
      /\ report = NoReport /\ reports < MaxReports /\ reports' = reports + 1
      /\ report' = [pc |-> "decided", recording |-> stream.recording, reason |-> reason]
      /\ UNCHANGED <<state, started, generation, finalised, held, active, latch,
                     watch, running, writer, wfail, rb, call, fin, files>>
  BY DEF DeviceChanges, session, threads, IInv
<1>2. /\ stream' \in StreamType /\ stream'.recording = stream.recording
      /\ stream' # NoStream /\ stream.recording = started /\ started # 0
      /\ state.kind \in {"recording", "stopping"}
  <2>1. stream \in StreamType /\ stream.recording = started /\ started # 0
        /\ state.kind \in {"recording", "stopping"}
    BY <1>1, ReportTypes DEF IInv, Streams
  <2> QED BY <1>1, <2>1 DEF StreamType, NoStream
<1>3. report' \in ReportType /\ report' # NoReport
  BY <1>1, ReportTypes DEF ReportType, StreamType, NoReport, Maybe, Reasons
<1>4. TypeOK'
  <2>1. reports' \in 0..MaxReports
    BY <1>1, SessionAssumption DEF TypeOK
  <2> QED BY <1>1, <1>2, <1>3, <2>1 DEF TypeOK, StreamType, ReportType
<1>5. Bodies'
  <2>1. \A a \in Actives, s \in Steps : Now(a, s) /\ Body(a, s) => Body(a, s)'
    BY <1>1 DEF Body
  <2> QED BY <1>1, <2>1, BodiesStay
<1>6. Owners' /\ Carried' /\ Others' /\ Canceller' /\ Kept'
  BY <1>1 DEF IInv, Owners, Carried, Fits, Others, Canceller, Kept
<1>7. Streams'
  BY <1>1, <1>2, <1>3 DEF IInv, Streams
<1>8. Budget'
  <2>1. Reporting(report) = 0 /\ Reporting(report') = 1 /\ Pending(active) \in {0, 1}
        /\ Watching(watch, started) \in {0, 1}
    BY <1>1, <1>3 DEF Reporting, Pending, Watching, One
  <2> QED BY <1>1, <2>1, Types DEF IInv, Budget
<1>9. Quiet' /\ Latched' /\ Followed'
  BY <1>1, <1>2, <1>3 DEF IInv, Quiet, Latched, Followed, Recording, NoReport
<1> QED BY <1>4, <1>5, <1>6, <1>7, <1>8, <1>9 DEF IInv

\* A change reported under a running stream finds the latch closed only while
\* another one is followed.
LEMMA ReportLatchesKeeps ==
  ASSUME IInv, ReportLatches
  PROVE  IInv'
<1>1. /\ TypeOK /\ report.pc = "decided" /\ latch' = [latch EXCEPT ![report.recording] = TRUE]
      /\ report' = IF latch[report.recording] THEN NoReport ELSE [report EXCEPT !.pc = "handling"]
      /\ UNCHANGED <<state, started, generation, finalised, held, active, stream, reports,
                     watch, running, writer, wfail, rb, call, fin, files>>
  BY DEF ReportLatches, session, threads, IInv
<1>2. /\ report # NoReport /\ report.recording = started /\ started \in Recordings
      /\ stream # NoStream /\ report.reason # "none" /\ report \in ReportType
      /\ state.kind \in {"recording", "stopping"}
  <2>1. report # NoReport /\ started # 0 /\ started \in 0..MaxStarts
    BY <1>1 DEF NoReport, IInv, Streams, TypeOK
  <2> QED BY <1>1, <2>1, ReportTypes, SessionAssumption DEF IInv, Streams, Recordings
<1>3. latch' \in [Recordings -> BOOLEAN] /\ latch'[started]
      /\ \A r \in Recordings : r # started => latch'[r] = latch[r]
  BY <1>1, <1>2, ReportTypes
<1>4. /\ report' \in ReportType
      /\ report' # NoReport => report'.pc = "handling" /\ report'.recording = started
                               /\ report'.reason # "none" /\ report' # NoReport
      /\ report' = NoReport => latch[started]
  BY <1>1, <1>2, ReportTypes DEF ReportType, NoReport
<1>5. TypeOK'
  BY <1>1, <1>3, <1>4 DEF TypeOK, ReportType
<1>6. Bodies'
  <2>1. \A a \in Actives, s \in Steps : Now(a, s) /\ Body(a, s) => Body(a, s)'
    BY <1>1 DEF Body
  <2> QED BY <1>1, <2>1, BodiesStay
<1>7. Owners' /\ Carried' /\ Canceller' /\ Kept'
  BY <1>1 DEF IInv, Owners, Carried, Fits, Canceller, Kept
<1>8. Others' /\ Streams' /\ Quiet'
  BY <1>1, <1>2, <1>3, <1>4 DEF IInv, Others, Streams, Quiet
<1>9. Budget'
  <2>1. Reporting(report) = 1 /\ Reporting(report') \in {0, 1} /\ Pending(active) \in {0, 1}
        /\ Watching(watch, started) \in {0, 1}
    BY <1>2 DEF Reporting, Pending, Watching, One
  <2> QED BY <1>1, <2>1, Types DEF IInv, Budget
<1>10. ASSUME report' = NoReport, Recording
       PROVE  \/ watch[started].pc = "handling" \/ active.pending # "none"
              \/ active.rebuild # 0 /\ rb[active.rebuild].pc \in {"spawned", "stopOld"}
  <2>1. latch[started] /\ report.pc # "handling"
    BY <1>1, <1>4, <1>10
  <2>2. active.rebuild # 0 => rb[active.rebuild].pc \notin Stopped
    BY <1>2, <1>10, RunningNow DEF Body, IInv, Streams
  <2> QED BY <2>1, <2>2, <1>10 DEF IInv, Latched, Stopped
<1>11. Latched' /\ Followed'
  BY <1>1, <1>4, <1>10 DEF Latched, Followed, Recording
<1> QED BY <1>5, <1>6, <1>7, <1>8, <1>9, <1>11 DEF IInv

\* What a step of the watch thread leaves alone, its place aside.
LEMMA WatchMoves ==
  ASSUME IInv, NEW r \in Recordings, watch[r].pc \notin {"none", "ended"},
         watch' \in [Recordings -> WatchType],
         \A q \in Recordings : q # r => watch'[q] = watch[q],
         watch'[r].pc # "none",
         watch'[r].pc \in {"decided", "handling"} => watch'[r].reason # "none",
         UNCHANGED <<state, started, generation, finalised, held, active, stream, report,
                     running, writer, wfail, rb, call, fin, files>>,
         latch' \in [Recordings -> BOOLEAN], \A q \in Recordings : q # r => latch'[q] = latch[q],
         reports' \in 0..MaxReports
  PROVE  /\ r = started /\ state.kind \in {"recording", "stopping"}
         /\ TypeOK' /\ Owners' /\ Carried' /\ Others' /\ Bodies' /\ Canceller' /\ Streams'
         /\ Quiet' /\ Kept'
<1>1. r = started /\ state.kind \in {"recording", "stopping"}
  BY Types DEF IInv, Others, Quiet
<1>2. Owners' /\ Carried' /\ Canceller' /\ Kept' /\ Quiet'
  BY <1>1 DEF IInv, Owners, Carried, Fits, Canceller, Kept, Quiet
<1>3. Streams' /\ Others'
  BY <1>1 DEF IInv, Streams, Others
<1>4. Bodies'
  <2>1. \A a \in Actives, s \in Steps : Now(a, s) /\ Body(a, s) => Body(a, s)'
    BY <1>1 DEF Body
  <2> QED BY <2>1, BodiesStay
<1>5. TypeOK'
  BY DEF IInv, TypeOK, WatchType
<1> QED BY <1>1, <1>2, <1>3, <1>4, <1>5

\* A stall or a new device that the watch thread finds keeps the invariant.
LEMMA WatchDecidesKeeps ==
  ASSUME IInv, NEW r \in Recordings, NEW reason \in {"stalled", "device"}, WatchDecides(r, reason)
  PROVE  IInv'
<1>1. /\ TypeOK /\ watch[r].pc = "watching" /\ Recording /\ started = r
      /\ reports < MaxReports /\ reports' = reports + 1
      /\ watch' = [watch EXCEPT ![r].pc = "decided", ![r].reason = reason]
      /\ UNCHANGED <<state, started, generation, finalised, held, active, latch, stream, report,
                     running, writer, wfail, rb, call, fin, files>>
  BY DEF WatchDecides, WatchOthers, IInv
<1>2. /\ watch' \in [Recordings -> WatchType] /\ watch'[r].pc = "decided"
      /\ watch'[r].reason # "none" /\ \A q \in Recordings : q # r => watch'[q] = watch[q]
  <2>1. watch \in [Recordings -> WatchType]
    BY <1>1, ReportTypes
  <2>2. [[watch[r] EXCEPT !.pc = "decided"] EXCEPT !.reason = reason] \in WatchType
    BY <2>1 DEF WatchType, Maybe, Reasons
  <2>3. watch' = [watch EXCEPT ![r] = [[watch[r] EXCEPT !.pc = "decided"] EXCEPT !.reason = reason]]
    BY <1>1, <2>1 DEF WatchType
  <2> QED BY <2>1, <2>2, <2>3 DEF WatchType
<1>3. reports' \in 0..MaxReports /\ latch' \in [Recordings -> BOOLEAN]
  BY <1>1, ReportTypes, SessionAssumption DEF TypeOK
<1>4. /\ TypeOK' /\ Owners' /\ Carried' /\ Others' /\ Bodies' /\ Canceller' /\ Streams'
      /\ Quiet' /\ Kept'
  BY <1>1, <1>2, <1>3, WatchMoves
<1>5. Budget'
  <2>1. Watching(watch, started) = 0 /\ Watching(watch', started) \in {0, 1}
        /\ Pending(active) \in {0, 1} /\ Reporting(report) \in {0, 1}
    BY <1>1 DEF Watching, Pending, Reporting, One
  <2> QED BY <1>1, <2>1, Types DEF IInv, Budget
<1>6. Latched' /\ Followed'
  BY <1>1, <1>2 DEF IInv, Latched, Followed, Recording
<1> QED BY <1>4, <1>5, <1>6 DEF IInv

\* WatchGoes, for the places it goes to.
LEMMA WatchGoesTo ==
  ASSUME TypeOK, NEW r \in Recordings, NEW pc \in {"watching", "handling", "ended"},
         WatchGoes(r, pc)
  PROVE  /\ watch' \in [Recordings -> WatchType] /\ watch'[r].pc = pc
         /\ pc = "handling" => watch'[r].reason = watch[r].reason
         /\ \A q \in Recordings : q # r => watch'[q] = watch[q]
<1>1. watch \in [Recordings -> WatchType]
  BY ReportTypes
<1> DEFINE x == [[watch[r] EXCEPT !.pc = pc] EXCEPT !.reason = IF pc = "handling" THEN watch[r].reason ELSE "none"]
<1>2. x \in WatchType
  BY <1>1 DEF WatchType, Maybe
<1>3. watch' = [watch EXCEPT ![r] = x]
  BY <1>1 DEF WatchGoes, WatchType
<1>4. x.pc = pc /\ (pc = "handling" => x.reason = watch[r].reason)
  BY <1>1 DEF WatchType
<1> QED BY <1>1, <1>2, <1>3, <1>4

\* A watch thread that ends keeps the invariant.
LEMMA WatchEndsKeeps ==
  ASSUME IInv, NEW r \in Recordings, WatchEnds(r)
  PROVE  IInv'
<1>1. /\ TypeOK /\ watch[r].pc = "watching" /\ WatchGoes(r, "ended")
      /\ UNCHANGED <<state, started, generation, finalised, held, active, latch, stream, report,
                     reports, running, writer, wfail, rb, call, fin, files>>
  BY DEF WatchEnds, WatchOthers, IInv
<1>2. /\ watch' \in [Recordings -> WatchType] /\ watch'[r].pc = "ended"
      /\ \A q \in Recordings : q # r => watch'[q] = watch[q]
  BY <1>1, WatchGoesTo
<1>3. reports' \in 0..MaxReports /\ latch' \in [Recordings -> BOOLEAN]
  BY <1>1, ReportTypes DEF TypeOK
<1>4. /\ TypeOK' /\ Owners' /\ Carried' /\ Others' /\ Bodies' /\ Canceller' /\ Streams'
      /\ Quiet' /\ Kept' /\ r = started
  BY <1>1, <1>2, <1>3, WatchMoves
<1>5. Budget'
  <2>1. Watching(watch', started) = 0 /\ Watching(watch, started) = 0
    BY <1>1, <1>2, <1>4 DEF Watching, One
  <2> QED BY <1>1, <2>1, Types DEF IInv, Budget
<1>6. Latched' /\ Followed'
  BY <1>1, <1>4 DEF IInv, Latched, Followed, Recording
<1> QED BY <1>4, <1>5, <1>6 DEF IInv

\* A watch thread at the latch keeps the invariant.
LEMMA WatchLatchesKeeps ==
  ASSUME IInv, NEW r \in Recordings, WatchLatches(r)
  PROVE  IInv'
<1>1. /\ TypeOK /\ watch[r].pc = "decided" /\ latch' = [latch EXCEPT ![r] = TRUE]
      /\ WatchGoes(r, IF latch[r] THEN "watching" ELSE "handling")
      /\ UNCHANGED <<state, started, generation, finalised, held, active, stream, report,
                     reports, running, writer, wfail, rb, call, fin, files>>
  BY DEF WatchLatches, WatchOthers, IInv
<1>2. /\ watch' \in [Recordings -> WatchType]
      /\ watch'[r].pc = IF latch[r] THEN "watching" ELSE "handling"
      /\ watch'[r].pc = "handling" => watch'[r].reason = watch[r].reason
      /\ \A q \in Recordings : q # r => watch'[q] = watch[q]
  BY <1>1, WatchGoesTo
<1>3. /\ reports' \in 0..MaxReports /\ latch' \in [Recordings -> BOOLEAN]
      /\ \A q \in Recordings : q # r => latch'[q] = latch[q]
  BY <1>1, ReportTypes DEF TypeOK
<1>4. watch[r].reason # "none"
  BY <1>1 DEF IInv, Streams
<1>5. /\ TypeOK' /\ Owners' /\ Carried' /\ Others' /\ Bodies' /\ Canceller' /\ Streams'
      /\ Quiet' /\ Kept' /\ r = started
  BY <1>1, <1>2, <1>3, <1>4, WatchMoves
<1>6. Budget'
  <2>1. Watching(watch', started) \in {0, 1} /\ Watching(watch, started) = 1
        /\ Pending(active) \in {0, 1} /\ Reporting(report) \in {0, 1}
    <3>1. started # 0
      BY <1>5, Types DEF Recordings
    <3> QED BY <1>1, <1>5, <3>1 DEF Watching, Pending, Reporting, One
  <2> QED BY <1>1, <2>1, Types DEF IInv, Budget
<1>7. Latched' /\ Followed'
  BY <1>1, <1>2, <1>5 DEF IInv, Latched, Followed, Recording
<1> QED BY <1>5, <1>6, <1>7 DEF IInv

\* The sink's handler, for a report of the newest recording that somebody
\* owed: what it begins is within the reports made.
LEMMA HandlerKeeps ==
  ASSUME IInv, NEW reason \in Reasons, BeginRebuild(active, rb, reason), started \in Recordings,
         report' \in {report, NoReport}, watch' \in [Recordings -> WatchType],
         \A r \in Recordings : \/ watch'[r] = watch[r]
                               \/ r = started /\ watch[r].pc = "handling" /\ watch'[r].pc = "watching",
         Reporting(report)' + Watching(watch, started)' + 1 <= Reporting(report) + Watching(watch, started),
         stream # NoStream \/ watch[started].pc = "handling",
         UNCHANGED <<state, started, finalised, held, reports, running, writer, wfail, call, fin,
                     files>>
  PROVE  IInv'
<1>1. /\ TypeOK /\ rb \in [Generations -> RebuildType] /\ active \in Actives
      /\ generation \in Nat /\ reports \in 0..MaxReports /\ started # 0 /\ MaxReports \in Nat /\ started \in 0..MaxStarts
      /\ stream \in StreamType /\ latch \in [Recordings -> BOOLEAN] /\ report \in ReportType
      /\ NoReport \in ReportType
  <2>1. TypeOK
    BY DEF IInv
  <2>2. reports \in 0..MaxReports /\ started \in 0..MaxStarts
    BY <2>1 DEF TypeOK
  <2>3. started # 0
    BY <2>2, SessionAssumption DEF Recordings
  <2> QED BY <2>1, <2>2, <2>3, Types, ReportTypes
<1>2. state.kind \in {"recording", "stopping"}
  BY Types, <1>1 DEF IInv, Streams, Quiet
<1>3. Recording => /\ active # NoActive /\ active.recording = started /\ Body(active, "take")
                   /\ active.rebuild = 0 => active.processing
  BY RunningNow DEF IInv, Bodies
<1>4. /\ Pending(active) \in {0, 1} /\ Reporting(report) \in {0, 1} /\ Watching(watch, started) \in {0, 1}
      /\ Reporting(report)' \in {0, 1} /\ Watching(watch, started)' \in {0, 1}
  BY DEF Pending, Reporting, Watching, One
<1>5. Others'
  <2>1. \A r \in Recordings : r # started => latch'[r] = latch[r]
    BY <1>1, <1>3 DEF BeginRebuild
  <2> QED BY <2>1 DEF IInv, Others
<1>6. Kept'
  BY DEF IInv, Kept
<1>7. \A r \in Recordings : watch'[r].pc \in {"decided", "handling"} => watch'[r] = watch[r]
  OBVIOUS
<1>8. CASE ~Recording /\ UNCHANGED <<active, rb, generation, latch, stream>>
  <2>1. TypeOK'
    BY <1>1, <1>8 DEF TypeOK, WatchType, ReportType
  <2>2. Bodies'
    <3>1. \A a \in Actives, s \in Steps : Now(a, s) /\ Body(a, s) => Body(a, s)'
      BY <1>8 DEF Body
    <3> QED BY <1>8, <3>1, BodiesStay
  <2>3. Owners' /\ Carried' /\ Canceller'
    BY <1>8 DEF IInv, Owners, Carried, Fits, Canceller
  <2>4. Streams'
    BY <1>7, <1>8 DEF IInv, Streams
  <2>5. Budget'
    BY <1>1, <1>4, <1>8 DEF IInv, Budget
  <2>6. Quiet' /\ Latched' /\ Followed'
    BY <1>2, <1>8 DEF Quiet, Latched, Followed, Recording
  <2> QED BY <1>5, <1>6, <2>1, <2>2, <2>3, <2>4, <2>5, <2>6 DEF IInv
<1>9. CASE /\ Recording /\ active.rebuild # 0 /\ active' = [active EXCEPT !.pending = reason]
           /\ UNCHANGED <<rb, generation, latch, stream>>
  <2>1. active' \in Actives /\ active'.pending = reason /\ active'.recording = active.recording
        /\ active'.processing = active.processing /\ active'.rebuild = active.rebuild
        /\ reason # "none"
    BY <1>1, <1>9 DEF Actives, Maybe, Reasons
  <2>2. TypeOK'
    BY <1>1, <1>9, <2>1 DEF TypeOK, WatchType, ReportType
  <2>3. Bodies'
    <3>1. \A q \in Finishers : fin[q].step = "no"
      BY <1>9 DEF IInv, Owners, Recording
    <3>2. ASSUME NEW a \in Actives, NEW s \in Steps, Now(a, s)' PROVE Body(a, s)'
      <4>1. a = active' /\ s = "take"
        BY <3>1, <3>2 DEF Now
      <4>2. "take" \notin PastWatch
        BY DEF PastWatch
      <4> QED BY <1>3, <1>9, <2>1, <4>1, <4>2 DEF Body
    <3> QED BY <1>9, <2>1, <3>1, <3>2 DEF Bodies
  <2>4. Owners' /\ Carried' /\ Canceller'
    BY <1>9 DEF IInv, Owners, Carried, Fits, Canceller
  <2>5. Streams'
    BY <1>7, <1>9 DEF IInv, Streams
  <2>6. Budget'
    <3>1. Pending(active)' \in {0, 1}
      BY DEF Pending, One
    <3> QED BY <1>1, <1>4, <1>9, <3>1 DEF IInv, Budget
  <2>7. Quiet' /\ Latched' /\ Followed'
    BY <1>2, <1>9, <2>1 DEF Quiet, Latched, Followed
  <2> QED BY <1>5, <1>6, <2>2, <2>3, <2>4, <2>5, <2>6, <2>7 DEF IInv
<1>10. CASE /\ Recording /\ active.rebuild = 0 /\ generation' = generation + 1
            /\ active' = [active EXCEPT !.rebuild = generation + 1]
            /\ rb' = [rb EXCEPT ![generation + 1] =
                 [NoRebuild EXCEPT !.pc = "spawned", !.recording = started, !.reason = reason]]
            /\ UNCHANGED <<latch, stream>>
  <2> DEFINE g == generation + 1
             x == [NoRebuild EXCEPT !.pc = "spawned", !.recording = started, !.reason = reason]
  <2>1. g \in Generations /\ g \in 0..MaxReports /\ g # 0
    BY <1>1, <1>4 DEF IInv, Budget, Generations
  <2>2. /\ x \in RebuildType /\ x.pc = "spawned" /\ x.recording = started /\ ~x.took /\ ~x.canceller
    <3>1. NoRebuild \in RebuildType
      BY SessionAssumption DEF NoRebuild, RebuildType, RebuildPcs, Maybe
    <3> QED BY <1>1, <3>1 DEF NoRebuild, RebuildType, RebuildPcs, Maybe
  <2>3. /\ rb' \in [Generations -> RebuildType] /\ rb'[g] = x
        /\ \A h \in Generations : h # g => rb'[h] = rb[h]
    <3> HIDE DEF g, x
    <3>1. rb' = [rb EXCEPT ![g] = x]
      BY <1>10 DEF g, x
    <3> QED BY <1>1, <2>1, <2>2, <3>1
  <2>4. /\ active' \in Actives /\ active'.pending = active.pending /\ active'.recording = active.recording
        /\ active'.processing /\ active'.rebuild = g
    BY <1>1, <1>3, <1>10, <2>1 DEF Actives
  <2>5. rb[g].pc = "none"
    BY <1>1, <2>1, Types DEF IInv, Carried
  <2>6. generation' = g
    BY <1>10
  <2> HIDE DEF g, x
  <2>7. TypeOK'
    BY <1>1, <1>10, <2>1, <2>3, <2>4, <2>6 DEF TypeOK, WatchType, ReportType, RebuildType
  <2>8. \A q \in Finishers : fin[q].step = "no"
    BY <1>10 DEF IInv, Owners, Recording
  <2>9. Bodies'
    <3>1. ASSUME NEW a \in Actives, NEW s \in Steps, Now(a, s)' PROVE Body(a, s)'
      <4>1. a = active' /\ s = "take"
        BY <2>8, <3>1 DEF Now
      <4>2. "take" \notin PastWatch \cup PastRebuild \cup PastProcessing
        BY DEF PastWatch, PastRebuild, PastProcessing
      <4>3. \A h \in Generations : rb[h].pc \notin Alive
        BY <1>3, <1>10, Types DEF Body, IInv
      <4>4. running[started] = "cancelling" /\ writer[started] \in {"runs", "failed"} /\ files[started] = "open"
        BY <1>3, <1>10, <4>2 DEF Body, PastWriter
      <4>5. "take" \notin PastWriter \cup PastBackend
        BY DEF PastWriter, PastBackend
      <4> QED BY <1>1, <1>3, <1>10, <2>1, <2>2, <2>3, <2>4, <2>6, <4>1, <4>2, <4>3, <4>4, <4>5 DEF Body
    <3> QED BY <1>10, <2>1, <2>4, <2>8, <3>1 DEF Bodies
  <2>10. Owners'
    <3>1. \A h \in Generations : rb[h].pc # "finishing"
      BY <2>8, Kinds DEF IInv, Owners
    <3>2. \A h \in Generations : rb'[h].pc # "finishing"
      BY <2>2, <2>3, <3>1
    <3> QED BY <2>8, <3>1, <3>2, <1>10 DEF IInv, Owners
  <2>11. Carried'
    <3>1. \A h \in Generations : h \in Nat /\ (h <= g <=> h = g \/ h <= generation) /\ ~(g <= generation)
      BY <1>1, Types DEF IInv, g
    <3>2. Fits(x)
      BY <2>2 DEF Fits, Taking
    <3> QED BY <2>2, <2>3, <2>6, <3>1, <3>2 DEF IInv, Carried, Fits
  <2>12. Canceller'
    BY <2>2, <2>3, <2>5 DEF IInv, Canceller
  <2>13. Streams'
    BY <1>7, <1>10, <2>2, <2>3 DEF IInv, Streams, Stopped
  <2>14. Budget'
    <3>1. Pending(active)' = Pending(active) /\ g = generation + 1
      BY <2>4 DEF Pending, g
    <3> QED BY <1>1, <1>4, <2>6, <3>1 DEF IInv, Budget
  <2>15. Quiet' /\ Latched' /\ Followed'
    BY <1>2, <1>10, <2>1, <2>2, <2>3, <2>4 DEF Quiet, Latched, Followed
  <2> QED BY <1>5, <1>6, <2>7, <2>9, <2>10, <2>11, <2>12, <2>13, <2>14, <2>15 DEF IInv
<1>11. CASE /\ Recording /\ active.rebuild = 0
            /\ latch' = [latch EXCEPT ![active.recording] = FALSE]
            /\ UNCHANGED <<active, rb, generation, stream>>
  <2>1. latch' \in [Recordings -> BOOLEAN] /\ ~latch'[started]
    BY <1>1, <1>3, <1>11
  <2>2. TypeOK'
    BY <1>1, <1>11, <2>1 DEF TypeOK, WatchType, ReportType, StreamType
  <2>3. Bodies'
    <3>1. \A a \in Actives, s \in Steps : Now(a, s) /\ Body(a, s) => Body(a, s)'
      BY <1>11, <2>1 DEF Body
    <3> QED BY <1>11, <3>1, BodiesStay
  <2>4. Owners' /\ Carried' /\ Canceller'
    BY <1>11 DEF IInv, Owners, Carried, Fits, Canceller
  <2>5. Streams'
    BY <1>7, <1>11, <2>1 DEF IInv, Streams
  <2>6. Budget'
    BY <1>1, <1>4, <1>11 DEF IInv, Budget
  <2>7. Quiet' /\ Latched' /\ Followed'
    BY <1>2, <1>11, <2>1 DEF Quiet, Latched, Followed
  <2> QED BY <1>5, <1>6, <2>2, <2>3, <2>4, <2>5, <2>6, <2>7 DEF IInv
<1> QED BY <1>3, <1>8, <1>9, <1>10, <1>11 DEF BeginRebuild

\* Handling the backend's report keeps the invariant.
LEMMA ReportHandledKeeps ==
  ASSUME IInv, ReportHandled
  PROVE  IInv'
<1>1. /\ TypeOK /\ report.pc = "handling" /\ report' = NoReport /\ DeviceChangedIn(report.recording, report.reason)
      /\ UNCHANGED <<state, started, finalised, held, reports, watch, running, writer, wfail, call,
                     fin, files>>
  BY DEF ReportHandled, IInv
<1>2. /\ report # NoReport /\ report.recording = started /\ started \in Recordings
      /\ stream # NoStream /\ report.reason \in Reasons
  <2>1. report # NoReport /\ started \in 0..MaxStarts /\ report \in ReportType
    BY <1>1, ReportTypes DEF NoReport, TypeOK
  <2>2. report.recording = started /\ stream # NoStream /\ started # 0 /\ report.reason # "none"
    BY <2>1 DEF IInv, Streams
  <2> QED BY <2>1, <2>2, SessionAssumption DEF Recordings, ReportType, Maybe
<1>3. BeginRebuild(active, rb, report.reason)
  BY <1>1, <1>2 DEF DeviceChangedIn
<1>4. Reporting(report)' = 0 /\ Reporting(report) = 1 /\ Watching(watch, started)' = Watching(watch, started)
      /\ Watching(watch, started) \in {0, 1}
  BY <1>1, <1>2 DEF Reporting, Watching, One
<1>5. watch' \in [Recordings -> WatchType]
  BY <1>1, ReportTypes
<1> QED BY <1>1, <1>2, <1>3, <1>4, <1>5, HandlerKeeps

\* Handling the watch thread's report keeps the invariant.
LEMMA WatchHandledKeeps ==
  ASSUME IInv, NEW r \in Recordings, WatchHandled(r)
  PROVE  IInv'
<1>1. /\ TypeOK /\ watch[r].pc = "handling" /\ DeviceChangedIn(r, watch[r].reason)
      /\ WatchGoes(r, "watching")
      /\ UNCHANGED <<state, started, finalised, held, report, reports, running, writer, wfail, call,
                     fin, files>>
  BY DEF WatchHandled, WatchOthers, IInv
<1>2. r = started /\ started # 0 /\ watch[r].reason \in Reasons
  <2>1. r = started /\ watch[r].reason # "none"
    BY <1>1 DEF IInv, Others, Streams
  <2>2. watch[r].reason \in Maybe(Reasons)
    BY <1>1, ReportTypes DEF WatchType
  <2> QED BY <2>1, <2>2, Types DEF Maybe, Recordings
<1>3. BeginRebuild(active, rb, watch[r].reason)
  BY <1>1, <1>2 DEF DeviceChangedIn
<1>4. /\ watch' \in [Recordings -> WatchType] /\ watch'[r].pc = "watching"
      /\ \A q \in Recordings : q # r => watch'[q] = watch[q]
  BY <1>1, WatchGoesTo
<1>5. Watching(watch, started)' = 0 /\ Watching(watch, started) = 1 /\ Reporting(report)' = Reporting(report)
      /\ Reporting(report) \in {0, 1}
  BY <1>1, <1>2, <1>4 DEF Reporting, Watching, One
<1> QED BY <1>1, <1>2, <1>3, <1>4, <1>5, HandlerKeeps

-----------------------------------------------------------------------------
(* The rebuild thread.                                                      *)

LatchOpens == {"spawned", "stopOld", "join", "handBack", "rearm", "rearmAgain"}

\* A step of a rebuild that has begun: it moves its own thread, and stops,
\* starts or joins only what is the newest recording's.
LEMMA RebuildMoves ==
  ASSUME IInv, NEW g \in Generations, rb[g].pc \in Alive,
         NEW x \in RebuildType, rb' = [rb EXCEPT ![g] = x],
         x.pc \in (Alive \ {"spawned"}) \cup {"ended"}, x.recording = rb[g].recording, Fits(x),
         running' \in [Recordings -> {"no", "plain", "cancelling"}],
         \A r \in Recordings : r # started => running'[r] = running[r],
         \/ rb[g].pc = "spawned" /\ x.pc = "ended" /\ ~Recording /\ running' = running
         \/ rb[g].pc # "spawned" /\ running'[started] = IF x.pc \in Taking THEN "cancelling" ELSE "no",
         held' \in BOOLEAN, held' <=> running'[started] = "no" /\ x.pc # "handBack",
         active' \in {active, [active EXCEPT !.pending = "none"]},
         active = NoActive => active' = active,
         latch' \in [Recordings -> BOOLEAN], \A r \in Recordings : r # started => latch'[r] = latch[r],
         latch'[started] => latch[started],
         stream' \in StreamType, stream' # NoStream => stream'.recording = started,
         report # NoReport => stream' # NoStream, x.pc \in Stopped => stream' = NoStream,
         Recording /\ latch'[started] /\ (rb[g].pc \in LatchOpens \/ active' # active) => x.pc \in LatchOpens,
         Recording /\ stream'.changed =>
           stream.changed /\ active' = active /\ rb[g].pc \notin {"spawned", "stopOld"},
         UNCHANGED <<state, started, generation, finalised, reports, report, watch, writer, wfail,
                     call, fin, files>>
  PROVE  IInv'
<1>1. PICK a \in Actives, s \in {"take", "watch", "rebuild"} :
           /\ Now(a, s) /\ Body(a, s) /\ a.rebuild = g /\ g = generation
           /\ rb[g].recording = started /\ started \in Recordings
           /\ state.kind \in {"recording", "stopping"}
           /\ s = "take" => a = active
           /\ s # "take" => active = NoActive
           /\ rb[g].pc # "spawned" => ~a.processing
           /\ running[started] = IF a.processing \/ rb[g].pc \in Taking THEN "cancelling" ELSE "no"
  BY RebuildNow
<1>2. /\ TypeOK /\ rb \in [Generations -> RebuildType] /\ active \in Actives /\ g # 0 /\ started # 0
      /\ g \in Nat
  BY <1>1, Types DEF IInv, Recordings
<1>3. rb'[g] = x /\ \A h \in Generations : h # g => rb'[h] = rb[h] /\ rb[h].pc \notin Alive
  BY <1>1, <1>2 DEF Body
<1>4. /\ active' \in Actives /\ active'.recording = active.recording
      /\ active'.rebuild = active.rebuild /\ active'.processing = active.processing
      /\ active' = active \/ active'.pending = "none"
  BY <1>2 DEF Actives, Maybe
<1>5. TypeOK'
  <2>1. rb' \in [Generations -> RebuildType]
    BY <1>2
  <2> QED BY <1>2, <1>4, <2>1 DEF TypeOK, RebuildType, StreamType
<1>6. Owners'
  <2>1. \A h \in Generations : /\ rb'[h].pc = "finishing" <=> rb[h].pc = "finishing"
                               /\ rb'[h].recording = rb[h].recording
    BY <1>3 DEF Alive
  <2> QED BY <2>1 DEF IInv, Owners
<1>7. Carried'
  <2>1. x.pc # "none" /\ g <= generation
    BY <1>1, <1>2 DEF Alive
  <2> QED BY <1>3, <2>1 DEF IInv, Carried, Fits
<1>8. Others'
  BY DEF IInv, Others
<1>9. Bodies'
  <2>1. ASSUME NEW b \in Actives, NEW t \in Steps, Now(b, t)'
        PROVE  b.recording = a.recording /\ b.rebuild = a.rebuild /\ b.processing = a.processing /\ t = s
    <3>1. CASE active' = active
      <4>1. Now(b, t)
        BY <2>1, <3>1 DEF Now, Recording
      <4> QED BY <4>1, <1>1, OneNow
    <3>2. CASE active' # active
      <4>1. s = "take" /\ a = active
        BY <1>1, <3>2
      <4>2. \A q \in Finishers : fin[q].step \in {"no", "take"}
        BY <3>2 DEF IInv, Bodies
      <4>3. b = active' /\ t = "take"
        BY <2>1, <4>2 DEF Now
      <4> QED BY <1>4, <4>1, <4>3
    <3> QED BY <3>1, <3>2
  <2>2. ASSUME NEW b \in Actives, NEW t \in Steps, Now(b, t)' PROVE Body(b, t)'
    <3>1. b.recording = started /\ b.rebuild = g /\ b.processing = a.processing /\ t = s
      BY <2>1, <2>2, <1>1 DEF Body
    <3>2. t \notin PastRebuild \cup PastBackend \cup PastProcessing \cup PastWriter /\ t # "set"
      BY <1>1, <3>1 DEF Body, PastRebuild, PastBackend, PastProcessing, PastWriter, Alive
    <3>3. /\ rb'[g].recording = started /\ rb'[g].pc \notin {"none", "finishing"}
          /\ rb'[g].pc # "spawned" /\ (rb'[g].pc \notin {"spawned", "ended"} => ~a.processing)
      BY <1>1, <1>3 DEF Alive
    <3>4. running'[started] = IF a.processing \/ rb'[g].pc \in Taking THEN "cancelling" ELSE "no"
      BY <1>1, <1>3 DEF Taking
    <3>5. /\ writer[started] \in {"runs", "failed"} /\ files[started] = "open"
          /\ t \in PastWatch => watch[started].pc \in {"none", "ended"}
      BY <1>1, <3>1, <3>2 DEF Body
    <3> QED BY <1>1, <1>2, <1>3, <3>1, <3>2, <3>3, <3>4, <3>5 DEF Body
  <2>3. \A q \in Finishers : fin'[q].step \notin {"no", "take"} => active' = NoActive
    BY DEF IInv, Bodies
  <2>4. Recording' /\ active'.rebuild = 0 => active'.processing
    BY <1>4 DEF IInv, Bodies, Recording
  <2> QED BY <2>2, <2>3, <2>4 DEF IInv, Bodies
<1>10. Canceller'
  <2>1. \A r \in Recordings : running'[r] # "plain" /\ (r # started => running'[r] = "no")
    BY <1>1 DEF IInv, Canceller, Others
  <2>2. \A h \in Generations : h # g => rb'[h].pc # "handBack"
    BY <1>3 DEF Alive, RebuildPcs
  <2> QED BY <1>1, <1>3, <2>1, <2>2 DEF Canceller
<1>11. Streams'
  <2>1. \A h \in Generations : h # g => rb'[h].pc \notin Stopped
    BY <1>3 DEF Alive, RebuildPcs, Stopped
  <2> QED BY <1>1, <1>2, <1>3, <2>1 DEF IInv, Streams
<1>12. Budget'
  <2>1. Pending(active)' <= Pending(active) /\ Pending(active)' \in {0, 1} /\ Pending(active) \in {0, 1}
        /\ Reporting(report) \in {0, 1} /\ Watching(watch, started) \in {0, 1}
    BY <1>4 DEF Pending, One, Reporting, Watching
  <2> QED BY <1>2, <2>1, Types DEF IInv, Budget
<1>13. Quiet' /\ Latched' /\ Followed'
  <2>1. Recording => active.rebuild = g
    BY <1>1, RunningNow, OneNow
  <2>2. Quiet'
    BY <1>1 DEF Quiet
  <2>3. Latched'
    BY <1>1, <1>2, <1>3, <1>4, <2>1 DEF IInv, Latched, LatchOpens, Recording
  <2>4. Followed'
    BY <1>1, <1>2, <1>3, <1>4, <2>1 DEF IInv, Followed, Recording
  <2> QED BY <2>2, <2>3, <2>4
<1>14. Kept'
  BY DEF IInv, Kept
<1> QED BY <1>5, <1>6, <1>7, <1>8, <1>9, <1>10, <1>11, <1>12, <1>13, <1>14 DEF IInv

\* What a rebuild that is under way finds.
LEMMA RebuildFinds ==
  ASSUME IInv, NEW g \in Generations, rb[g].pc \in Alive
  PROVE  /\ TypeOK /\ rb \in [Generations -> RebuildType] /\ rb[g] \in RebuildType
         /\ rb[g].recording = started /\ started \in Recordings /\ Fits(rb[g])
         /\ StillRebuilding(g) <=> Recording
         /\ running \in [Recordings -> {"no", "plain", "cancelling"}] /\ held \in BOOLEAN
         /\ latch \in [Recordings -> BOOLEAN] /\ stream \in StreamType /\ NoStream \in StreamType
         /\ held <=> running[started] = "no" /\ rb[g].pc # "handBack"
         /\ rb[g].pc # "spawned" =>
              running[started] = IF rb[g].pc \in Taking THEN "cancelling" ELSE "no"
         /\ rb[g].pc \in Stopped => stream = NoStream
         /\ stream # NoStream => stream.recording = started
         /\ report # NoReport => stream # NoStream
         /\ ~NoStream.changed
<1>1. PICK a \in Actives, s \in {"take", "watch", "rebuild"} :
           /\ Now(a, s) /\ Body(a, s) /\ a.rebuild = g
           /\ rb[g].recording = started /\ started \in Recordings
           /\ rb[g].pc # "spawned" => ~a.processing
           /\ running[started] = IF a.processing \/ rb[g].pc \in Taking THEN "cancelling" ELSE "no"
  BY RebuildNow
<1>2. /\ TypeOK /\ rb \in [Generations -> RebuildType] /\ rb[g] \in RebuildType
      /\ latch \in [Recordings -> BOOLEAN] /\ stream \in StreamType /\ NoStream \in StreamType
  BY Types, ReportTypes DEF IInv
<1>3. running \in [Recordings -> {"no", "plain", "cancelling"}] /\ held \in BOOLEAN
  BY <1>2 DEF TypeOK
<1>4. held <=> running[started] = "no" /\ rb[g].pc # "handBack"
  <2>1. \A r \in Recordings : r # started => running[r] = "no"
    BY DEF IInv, Others
  <2>2. \A h \in Generations : h # g => rb[h].pc # "handBack"
    BY <1>1 DEF Body, Alive, RebuildPcs
  <2> QED BY <1>1, <2>1, <2>2 DEF IInv, Canceller
<1>5. Fits(rb[g]) /\ (StillRebuilding(g) <=> Recording)
  BY RebuildSees DEF IInv, Carried
<1>6. /\ rb[g].pc \in Stopped => stream = NoStream
      /\ stream # NoStream => stream.recording = started
      /\ report # NoReport => stream # NoStream
      /\ ~NoStream.changed
  BY DEF IInv, Streams, NoStream
<1> QED BY <1>1, <1>2, <1>3, <1>4, <1>5, <1>6

\* A step that moves nothing but the rebuild's thread.
LEMMA RebuildGoes ==
  ASSUME IInv, NEW g \in Generations, rb[g].pc \in Alive \ {"spawned", "stopOld", "join", "handBack"},
         NEW x \in RebuildType, rb' = [rb EXCEPT ![g] = x],
         x.pc \in (Alive \ {"spawned", "stopOld", "join", "handBack"}) \cup {"ended"},
         x.recording = rb[g].recording, x.took = rb[g].took, x.canceller = rb[g].canceller,
         x.pc \in Stopped => rb[g].pc \in Stopped,
         Recording /\ rb[g].pc \in LatchOpens => x.pc \in LatchOpens,
         UNCHANGED <<state, started, generation, finalised, reports, report, watch, writer, wfail,
                     call, fin, files, held, active, latch, stream, running>>
  PROVE  IInv'
<1>1. rb[g].pc \in Alive /\ rb[g].pc \notin Taking /\ x.pc \notin Taking /\ x.pc # "handBack"
      /\ rb[g].pc # "handBack" /\ rb[g].pc \notin {"spawned", "stopOld"}
      /\ x.pc \in (Alive \ {"spawned"}) \cup {"ended"}
  BY DEF Taking, Alive
<1>2. /\ running \in [Recordings -> {"no", "plain", "cancelling"}] /\ held \in BOOLEAN
      /\ Fits(rb[g]) /\ latch \in [Recordings -> BOOLEAN] /\ stream \in StreamType
      /\ held <=> running[started] = "no" /\ rb[g].pc # "handBack"
      /\ running[started] = "no"
      /\ rb[g].pc \in Stopped => stream = NoStream
      /\ stream # NoStream => stream.recording = started
      /\ report # NoReport => stream # NoStream
  BY <1>1, RebuildFinds
<1>3. Fits(x)
  <2>1. x.pc # "none" /\ rb[g].pc # "none"
    BY DEF Alive
  <2> QED BY <1>1, <1>2, <2>1 DEF Fits
<1> QED BY <1>1, <1>2, <1>3, RebuildMoves

\* Past the restarts.
LEMMA PastIs ==
  ASSUME rb \in [Generations -> RebuildType], NEW g \in Generations, NEW pc \in RebuildPcs
  PROVE  \E x \in RebuildType : /\ Past(g, pc) = [rb EXCEPT ![g] = x] /\ x.pc = pc
                                /\ x.recording = rb[g].recording /\ ~x.took /\ ~x.canceller
<1>1. NoRebuild \in RebuildType
  BY SessionAssumption DEF NoRebuild, RebuildType, RebuildPcs, Maybe
<1> DEFINE x == [NoRebuild EXCEPT !.pc = pc, !.recording = rb[g].recording,
                                  !.cancelled = rb[g].cancelled]
<1>2. x \in RebuildType /\ x.pc = pc /\ x.recording = rb[g].recording /\ ~x.took /\ ~x.canceller
  BY <1>1 DEF RebuildType, NoRebuild
<1>3. Past(g, pc) = [rb EXCEPT ![g] = x]
  BY DEF Past
<1> QED BY <1>2, <1>3

\* A rebuild at `pc' that goes on to `to'.
LEMMA GoesIs ==
  ASSUME rb \in [Generations -> RebuildType], NEW g \in Generations, NEW pc \in RebuildPcs, RGoes(g, pc)
  PROVE  \E x \in RebuildType : /\ rb' = [rb EXCEPT ![g] = x] /\ x.pc = pc
                                /\ x.recording = rb[g].recording /\ x.took = rb[g].took
                                /\ x.canceller = rb[g].canceller
<1> DEFINE x == [rb[g] EXCEPT !.pc = pc]
<1>1. x \in RebuildType /\ x.pc = pc /\ x.recording = rb[g].recording /\ x.took = rb[g].took
      /\ x.canceller = rb[g].canceller
  BY DEF RebuildType
<1>2. rb' = [rb EXCEPT ![g] = x]
  BY DEF RGoes
<1> QED BY <1>1, <1>2

\* What becomes of an attempt whose start failed.
LEMMA StartFailedIs ==
  ASSUME NEW t \in RebuildType, NEW didNotRun \in BOOLEAN
  PROVE  /\ StartFailed(t, didNotRun) \in RebuildType
         /\ StartFailed(t, didNotRun).pc \in {"try", "exhausted", "restart"}
         /\ StartFailed(t, didNotRun).recording = t.recording
         /\ StartFailed(t, didNotRun).took = t.took
         /\ StartFailed(t, didNotRun).canceller = t.canceller
<1> DEFINE u == [t EXCEPT !.didNotRun = IF t.try = "chosen" THEN didNotRun ELSE @]
           Like(x) == /\ x \in RebuildType /\ x.pc \in {"try", "exhausted", "restart"}
                      /\ x.recording = t.recording /\ x.took = t.took /\ x.canceller = t.canceller
<1>1. u \in RebuildType /\ u.recording = t.recording /\ u.took = t.took /\ u.canceller = t.canceller
  BY DEF RebuildType
<1>2. Like([u EXCEPT !.pc = "try", !.try = "chosen"])
  BY <1>1, ZenonT(30) DEF RebuildType, RebuildPcs
<1>3. Like([u EXCEPT !.pc = "try", !.try = "default", !.tried = TRUE])
  BY <1>1, ZenonT(30) DEF RebuildType, RebuildPcs
<1>4. Like(AttemptFailed(u))
  <2>1. ASSUME NEW pc \in {"exhausted", "restart"} PROVE Like([u EXCEPT !.pc = pc])
    <3>1. pc \in RebuildPcs
      BY DEF RebuildPcs
    <3> HIDE DEF u
    <3> QED BY <1>1, <3>1 DEF RebuildType
  <2> QED BY <2>1 DEF AttemptFailed
<1>5. Like(StartFailed(t, didNotRun))
  <2> HIDE DEF Like
  <2> QED BY <1>2, <1>3, <1>4 DEF StartFailed
<1> QED BY <1>5

\* Stopping the old stream keeps the invariant.
LEMMA StopOldStreamKeeps ==
  ASSUME IInv, NEW g \in Generations, StopOldStream(g)
  PROVE  IInv'
<1>1. /\ rb[g].pc = "stopOld" /\ RGoes(g, "join") /\ stream' = NoStream /\ report.pc = "none"
      /\ UNCHANGED <<state, started, generation, finalised, reports, report, watch, writer, wfail,
                     call, fin, files, held, active, latch, running>>
  BY DEF StopOldStream, RAt, BackendStops, RebuildOthers
<1>2. rb[g].pc \in Alive /\ "join" \in RebuildPcs /\ rb[g].pc \in Taking
  BY <1>1 DEF Alive, RebuildPcs, Taking
<1>3. /\ running \in [Recordings -> {"no", "plain", "cancelling"}] /\ held \in BOOLEAN
      /\ Fits(rb[g]) /\ latch \in [Recordings -> BOOLEAN] /\ NoStream \in StreamType
      /\ held <=> running[started] = "no" /\ rb[g].pc # "handBack"
      /\ running[started] = "cancelling" /\ rb \in [Generations -> RebuildType]
      /\ ~NoStream.changed
  BY <1>1, <1>2, RebuildFinds
<1>4. PICK x \in RebuildType : /\ rb' = [rb EXCEPT ![g] = x] /\ x.pc = "join"
                               /\ x.recording = rb[g].recording /\ x.took = rb[g].took
                               /\ x.canceller = rb[g].canceller
  BY <1>1, <1>2, <1>3, GoesIs
<1>5. Fits(x) /\ x.pc \in Taking /\ x.pc # "handBack" /\ x.pc \in (Alive \ {"spawned"}) \cup {"ended"}
      /\ x.pc \in LatchOpens
  BY <1>1, <1>3, <1>4 DEF Fits, Taking, Alive, RebuildPcs, LatchOpens
<1>6. report = NoReport
  BY <1>1 DEF IInv, Streams
<1> QED BY <1>1, <1>2, <1>3, <1>4, <1>5, <1>6, RebuildMoves

\* Joining the old processing thread keeps the invariant.
LEMMA JoinOldProcessingKeeps ==
  ASSUME IInv, NEW g \in Generations, JoinOldProcessing(g)
  PROVE  IInv'
<1>1. /\ rb[g].pc = "join"
      /\ UNCHANGED <<state, started, generation, finalised, reports, report, watch, writer, wfail,
                     call, fin, files, held, active, latch, stream>>
  BY DEF JoinOldProcessing, RAt, RebuildOthers
<1>2. rb[g].pc \in Alive /\ rb[g].pc \in Taking /\ rb[g].pc \in Stopped
  BY <1>1 DEF Alive, RebuildPcs, Taking, Stopped
<1>3. /\ running \in [Recordings -> {"no", "plain", "cancelling"}] /\ held \in BOOLEAN
      /\ Fits(rb[g]) /\ latch \in [Recordings -> BOOLEAN] /\ stream \in StreamType
      /\ held <=> running[started] = "no" /\ rb[g].pc # "handBack"
      /\ running[started] = "cancelling" /\ rb \in [Generations -> RebuildType]
      /\ rb[g] \in RebuildType /\ rb[g].recording = started /\ started \in Recordings
      /\ ~NoStream.changed /\ stream = NoStream /\ (report # NoReport => stream # NoStream)
  BY <1>1, <1>2, RebuildFinds
<1>4. rb[g].took
  BY <1>2, <1>3 DEF Fits
<1>5. /\ running' = [running EXCEPT ![started] = "no"]
      /\ rb' = [rb EXCEPT ![g].pc = "handBack", ![g].took = FALSE, ![g].canceller = TRUE]
  BY <1>3, <1>4 DEF JoinOldProcessing
<1>6. PICK x \in RebuildType : x = [rb[g] EXCEPT !.pc = "handBack", !.took = FALSE, !.canceller = TRUE]
  BY <1>3 DEF RebuildType, RebuildPcs
<1>7. rb' = [rb EXCEPT ![g] = x] /\ x.pc = "handBack" /\ x.recording = rb[g].recording
      /\ ~x.took /\ x.canceller
  BY <1>3, <1>5, <1>6 DEF RebuildType
<1>8. Fits(x) /\ x.pc \notin Taking /\ x.pc \in (Alive \ {"spawned"}) \cup {"ended"} /\ x.pc \in LatchOpens
  BY <1>7 DEF Fits, Taking, Alive, RebuildPcs, LatchOpens
<1>9. /\ running' \in [Recordings -> {"no", "plain", "cancelling"}] /\ running'[started] = "no"
      /\ \A r \in Recordings : r # started => running'[r] = running[r]
  BY <1>3, <1>5
<1> QED BY <1>1, <1>2, <1>3, <1>7, <1>8, <1>9, RebuildMoves

\* Handing the canceller back keeps the invariant.
LEMMA HandBackKeeps ==
  ASSUME IInv, NEW g \in Generations, HandBackCanceller(g)
  PROVE  IInv'
<1>1. /\ rb[g].pc = "handBack" /\ held' = rb[g].canceller
      /\ rb' = [rb EXCEPT ![g].pc = "rearm", ![g].canceller = FALSE]
      /\ UNCHANGED <<state, started, generation, finalised, reports, report, watch, writer, wfail,
                     call, fin, files, active, latch, stream, running>>
  BY DEF HandBackCanceller, RAt, RebuildOthers
<1>2. rb[g].pc \in Alive /\ rb[g].pc \notin Taking /\ rb[g].pc \in Stopped
  BY <1>1 DEF Alive, RebuildPcs, Taking, Stopped
<1>3. /\ running \in [Recordings -> {"no", "plain", "cancelling"}]
      /\ Fits(rb[g]) /\ latch \in [Recordings -> BOOLEAN] /\ stream \in StreamType
      /\ running[started] = "no" /\ rb \in [Generations -> RebuildType] /\ rb[g] \in RebuildType
      /\ ~NoStream.changed /\ stream = NoStream /\ (report # NoReport => stream # NoStream)
  BY <1>1, <1>2, RebuildFinds
<1>4. rb[g].canceller = TRUE /\ ~rb[g].took /\ held' = TRUE
  BY <1>1, <1>2, <1>3 DEF Fits, RebuildType
<1>5. PICK x \in RebuildType : x = [rb[g] EXCEPT !.pc = "rearm", !.canceller = FALSE]
  BY <1>3 DEF RebuildType, RebuildPcs
<1>6. rb' = [rb EXCEPT ![g] = x] /\ x.pc = "rearm" /\ x.recording = rb[g].recording
      /\ ~x.took /\ ~x.canceller
  BY <1>1, <1>3, <1>4, <1>5 DEF RebuildType
<1>7. Fits(x) /\ x.pc \notin Taking /\ x.pc \in (Alive \ {"spawned"}) \cup {"ended"} /\ x.pc \in LatchOpens
      /\ x.pc # "handBack"
  BY <1>6 DEF Fits, Taking, Alive, RebuildPcs, LatchOpens
<1> QED BY <1>1, <1>2, <1>3, <1>4, <1>6, <1>7, RebuildMoves

\* The latch opens, and the rebuild goes on with no stream.
LEMMA RearmKeeps ==
  ASSUME IInv, NEW g \in Generations, NEW pc \in {"rearm", "rearmAgain"}, NEW x \in RebuildType,
         Rearm(g, pc, x), x.pc \in {"restart", "try", "exhausted"},
         x.recording = rb[g].recording, x.took = rb[g].took, x.canceller = rb[g].canceller
  PROVE  IInv'
<1>1. /\ rb[g].pc = pc /\ rb' = [rb EXCEPT ![g] = x]
      /\ latch' = [latch EXCEPT ![rb[g].recording] = FALSE]
      /\ UNCHANGED <<state, started, generation, finalised, reports, report, watch, writer, wfail,
                     call, fin, files, held, active, stream, running>>
  BY DEF Rearm, RAt, RebuildOthers
<1>2. rb[g].pc \in Alive /\ rb[g].pc \notin Taking /\ rb[g].pc \in Stopped /\ rb[g].pc # "handBack"
  BY <1>1 DEF Alive, RebuildPcs, Taking, Stopped
<1>3. /\ running \in [Recordings -> {"no", "plain", "cancelling"}] /\ held \in BOOLEAN
      /\ Fits(rb[g]) /\ latch \in [Recordings -> BOOLEAN] /\ stream \in StreamType
      /\ rb[g].recording = started /\ started \in Recordings
      /\ held /\ running[started] = "no" /\ rb \in [Generations -> RebuildType] /\ rb[g] \in RebuildType
      /\ ~NoStream.changed /\ stream = NoStream /\ (report # NoReport => stream # NoStream)
  BY <1>1, <1>2, RebuildFinds
<1>4. Fits(x) /\ x.pc \notin Taking /\ x.pc \in (Alive \ {"spawned"}) \cup {"ended"} /\ x.pc # "handBack"
  BY <1>2, <1>3 DEF Fits, Taking, Alive, RebuildPcs
<1>5. latch' \in [Recordings -> BOOLEAN] /\ ~latch'[started]
      /\ \A r \in Recordings : r # started => latch'[r] = latch[r]
  BY <1>1, <1>3
<1> QED BY <1>1, <1>2, <1>3, <1>4, <1>5, RebuildMoves

\* A rebuild that finds its recording gone ends.
LEMMA EndsKeeps ==
  ASSUME IInv, NEW g \in Generations, rb[g].pc \in Alive \ {"spawned", "stopOld", "join", "handBack"},
         rb[g].pc \notin LatchOpens \/ ~Recording, RPast(g, "ended"),
         UNCHANGED <<state, started, generation, finalised, reports, report, watch, writer, wfail,
                     call, fin, files, held, active, latch, stream, running>>
  PROVE  IInv'
<1>1. rb \in [Generations -> RebuildType] /\ "ended" \in RebuildPcs /\ Fits(rb[g])
  BY RebuildFinds DEF RebuildPcs
<1>2. PICK x \in RebuildType : /\ Past(g, "ended") = [rb EXCEPT ![g] = x] /\ x.pc = "ended"
                               /\ x.recording = rb[g].recording /\ ~x.took /\ ~x.canceller
  BY <1>1, PastIs
<1>3. rb' = [rb EXCEPT ![g] = x] /\ x.took = rb[g].took /\ x.canceller = rb[g].canceller
  <2>1. ~rb[g].took /\ ~rb[g].canceller /\ rb[g].took \in BOOLEAN /\ rb[g].canceller \in BOOLEAN
    BY <1>1 DEF Fits, Taking, RebuildType
  <2>2. x.took \in BOOLEAN /\ x.canceller \in BOOLEAN
    BY DEF RebuildType
  <2> QED BY <1>2, <2>1, <2>2 DEF RPast
<1> QED BY <1>2, <1>3, RebuildGoes DEF Stopped

\* A rebuild that goes on to `pc' and moves nothing else.
LEMMA GoesKeeps ==
  ASSUME IInv, NEW g \in Generations, rb[g].pc \in Alive \ {"spawned", "stopOld", "join", "handBack"},
         NEW pc \in Alive \ {"spawned", "stopOld", "join", "handBack"},
         RGoes(g, pc) \/ RPast(g, pc), pc \in Stopped => rb[g].pc \in Stopped,
         rb[g].pc \notin LatchOpens,
         UNCHANGED <<state, started, generation, finalised, reports, report, watch, writer, wfail,
                     call, fin, files, held, active, latch, stream, running>>
  PROVE  IInv'
<1>1. rb \in [Generations -> RebuildType] /\ pc \in RebuildPcs /\ Fits(rb[g])
  BY RebuildFinds DEF Alive
<1>2. ~rb[g].took /\ ~rb[g].canceller /\ rb[g].took \in BOOLEAN /\ rb[g].canceller \in BOOLEAN
  BY <1>1 DEF Fits, Taking, RebuildType
<1>3. \E x \in RebuildType : /\ rb' = [rb EXCEPT ![g] = x] /\ x.pc = pc
                             /\ x.recording = rb[g].recording /\ ~x.took /\ ~x.canceller
  BY <1>1, <1>2, GoesIs, PastIs DEF RPast
<1>4. PICK x \in RebuildType : /\ rb' = [rb EXCEPT ![g] = x] /\ x.pc = pc
                               /\ x.recording = rb[g].recording /\ ~x.took /\ ~x.canceller
  BY <1>3
<1>5. x.took = rb[g].took /\ x.canceller = rb[g].canceller
  BY <1>2, <1>4 DEF RebuildType
<1> QED BY <1>4, <1>5, RebuildGoes

\* The next attempt keeps the invariant.
LEMMA NextAttemptKeeps ==
  ASSUME IInv, NEW g \in Generations, NextAttempt(g)
  PROVE  IInv'
<1>1. /\ rb[g].pc = "restart"
      /\ UNCHANGED <<state, started, generation, finalised, reports, report, watch, writer, wfail,
                     call, fin, files, held, active, latch, stream, running>>
  BY DEF NextAttempt, RAt, RebuildOthers
<1>2. rb[g].pc \in Alive \ {"spawned", "stopOld", "join", "handBack"} /\ rb[g].pc \notin LatchOpens
      /\ rb[g].pc \in Stopped
  BY <1>1 DEF Alive, RebuildPcs, LatchOpens, Stopped
<1>3. CASE RPast(g, "ended")
  BY <1>1, <1>2, <1>3, EndsKeeps
<1>4. CASE ~RPast(g, "ended")
  <2> DEFINE first == rb[g].first /\ ~rb[g].tried
             attempt == IF rb[g].attempt < RestartAttempts THEN rb[g].attempt + 1 ELSE rb[g].attempt
             try == IF first THEN "first" ELSE "chosen"
             tried == rb[g].tried \/ first
             x == [rb[g] EXCEPT !.pc = "try", !.attempt = attempt, !.try = try, !.tried = tried]
  <2>1. rb \in [Generations -> RebuildType] /\ rb[g] \in RebuildType
    BY <1>2, RebuildFinds
  <2>a. attempt \in 0..RestartAttempts
    <3>1. rb[g].attempt \in 0..RestartAttempts /\ RestartAttempts \in Nat
      BY <2>1, SessionAssumption DEF RebuildType
    <3> QED BY <3>1
  <2>b. try \in {"first", "chosen", "default"}
    OBVIOUS
  <2>c. tried \in BOOLEAN
    BY <2>1 DEF RebuildType
  <2>3. rb' = [rb EXCEPT ![g] = x]
    BY <1>4, <2>1 DEF NextAttempt, RebuildType
  <2> HIDE DEF attempt, try, tried
  <2>2. x \in RebuildType /\ x.pc = "try" /\ x.recording = rb[g].recording /\ x.took = rb[g].took
        /\ x.canceller = rb[g].canceller
    BY <2>1, <2>a, <2>b, <2>c DEF RebuildType, RebuildPcs
  <2>4. "try" \in (Alive \ {"spawned", "stopOld", "join", "handBack"})
    BY DEF Alive, RebuildPcs
  <2> HIDE DEF x
  <2> QED BY <1>1, <1>2, <2>2, <2>3, <2>4, RebuildGoes
<1> QED BY <1>3, <1>4

\* A start of the backend keeps the invariant: no stream runs.
LEMMA TryStartKeeps ==
  ASSUME IInv, NEW g \in Generations, TryStart(g)
  PROVE  IInv'
<1>1. /\ rb[g].pc = "try"
      /\ UNCHANGED <<state, started, generation, finalised, reports, report, watch, writer, wfail,
                     call, fin, files, held, active, latch, running>>
  BY DEF TryStart, RAt, RebuildOthers
<1>2. rb[g].pc \in Alive \ {"spawned", "stopOld", "join", "handBack"} /\ rb[g].pc \notin LatchOpens
      /\ rb[g].pc \in Stopped /\ rb[g].pc \notin Taking
  BY <1>1 DEF Alive, RebuildPcs, LatchOpens, Stopped, Taking
<1>3. /\ rb \in [Generations -> RebuildType] /\ rb[g] \in RebuildType
      /\ running \in [Recordings -> {"no", "plain", "cancelling"}] /\ held \in BOOLEAN
      /\ Fits(rb[g]) /\ latch \in [Recordings -> BOOLEAN]
      /\ rb[g].recording = started /\ started \in Recordings
      /\ held /\ running[started] = "no"
      /\ stream = NoStream /\ (report # NoReport => stream # NoStream)
  BY <1>1, <1>2, RebuildFinds
<1>4. CASE ~StillRebuilding(g) /\ RPast(g, "ended") /\ UNCHANGED stream
  BY <1>1, <1>2, <1>4, EndsKeeps
<1>5. ASSUME NEW didNotRun \in BOOLEAN, UNCHANGED stream,
             rb' = [rb EXCEPT ![g] = StartFailed(@, didNotRun)]
      PROVE  IInv'
  <2>1. PICK x \in RebuildType : /\ x = StartFailed(rb[g], didNotRun) /\ x.pc \in {"try", "exhausted", "restart"}
             /\ x.recording = rb[g].recording /\ x.took = rb[g].took /\ x.canceller = rb[g].canceller
    BY <1>3, StartFailedIs
  <2>2. rb' = [rb EXCEPT ![g] = x]
    BY <1>5, <2>1
  <2>3. x.pc \in (Alive \ {"spawned", "stopOld", "join", "handBack"}) \cup {"ended"}
    BY <2>1 DEF Alive, RebuildPcs
  <2> QED BY <1>1, <1>2, <1>5, <2>1, <2>2, <2>3, RebuildGoes
<1>6. CASE /\ stream' = [NoStream EXCEPT !.recording = rb[g].recording]
           /\ IF Watched THEN RGoes(g, "waiting") ELSE RPast(g, "silence")
  <2>1. stream' \in StreamType /\ stream'.recording = started /\ ~stream'.changed /\ stream' # NoStream
    <3>1. started \in 0..MaxStarts /\ started # 0
      BY <1>3, SessionAssumption DEF Recordings
    <3>2. stream' = [recording |-> started, delivering |-> FALSE, changed |-> FALSE]
      BY <1>3, <1>6 DEF NoStream
    <3> QED BY <3>1, <3>2 DEF NoStream, StreamType
  <2>2. PICK x \in RebuildType : /\ rb' = [rb EXCEPT ![g] = x] /\ x.pc \in {"waiting", "silence"}
                                 /\ x.recording = rb[g].recording /\ ~x.took /\ ~x.canceller
    <3>1. ~rb[g].took /\ ~rb[g].canceller /\ "waiting" \in RebuildPcs /\ "silence" \in RebuildPcs
      BY <1>1, <1>2, <1>3 DEF Fits, RebuildPcs
    <3> QED BY <1>3, <1>6, <3>1, GoesIs, PastIs DEF RPast
  <2>3. /\ Fits(x) /\ x.pc \notin Taking /\ x.pc # "handBack" /\ x.pc \in (Alive \ {"spawned"}) \cup {"ended"}
        /\ x.pc \notin Stopped
    BY <2>2 DEF Fits, Taking, Alive, RebuildPcs, Stopped
  <2> QED BY <1>1, <1>2, <1>3, <2>1, <2>2, <2>3, RebuildMoves
<1> QED BY <1>4, <1>5, <1>6 DEF TryStart

\* The wait for the first frame keeps the invariant.
LEMMA WaitForFrameKeeps ==
  ASSUME IInv, NEW g \in Generations, WaitForFrame(g)
  PROVE  IInv'
<1>1. /\ rb[g].pc = "waiting"
      /\ RPast(g, "silence") \/ RGoes(g, "giveUp")
      /\ UNCHANGED <<state, started, generation, finalised, reports, report, watch, writer, wfail,
                     call, fin, files, held, active, latch, stream, running>>
  BY DEF WaitForFrame, RAt, RebuildOthers
<1>2. /\ "waiting" \in Alive \ {"spawned", "stopOld", "join", "handBack"}
      /\ "silence" \in Alive \ {"spawned", "stopOld", "join", "handBack"}
      /\ "giveUp" \in Alive \ {"spawned", "stopOld", "join", "handBack"}
      /\ "waiting" \notin LatchOpens /\ "silence" \notin Stopped /\ "giveUp" \notin Stopped
  BY DEF Alive, RebuildPcs, LatchOpens, Stopped
<1> QED BY <1>1, <1>2, GoesKeeps

\* Giving a silent stream up keeps the invariant.
LEMMA GiveUpStreamKeeps ==
  ASSUME IInv, NEW g \in Generations, GiveUpStream(g)
  PROVE  IInv'
<1>1. /\ rb[g].pc = "giveUp" /\ RGoes(g, "forget") /\ stream' = NoStream /\ report.pc = "none"
      /\ UNCHANGED <<state, started, generation, finalised, reports, report, watch, writer, wfail,
                     call, fin, files, held, active, latch, running>>
  BY DEF GiveUpStream, RAt, BackendStops, RebuildOthers
<1>2. rb[g].pc \in Alive /\ "forget" \in RebuildPcs /\ rb[g].pc \notin Taking
      /\ rb[g].pc \notin LatchOpens
  BY <1>1 DEF Alive, RebuildPcs, Taking, LatchOpens
<1>3. /\ running \in [Recordings -> {"no", "plain", "cancelling"}] /\ held \in BOOLEAN
      /\ Fits(rb[g]) /\ latch \in [Recordings -> BOOLEAN] /\ NoStream \in StreamType
      /\ held /\ running[started] = "no" /\ rb \in [Generations -> RebuildType]
      /\ ~NoStream.changed
  BY <1>1, <1>2, RebuildFinds
<1>4. PICK x \in RebuildType : /\ rb' = [rb EXCEPT ![g] = x] /\ x.pc = "forget"
                               /\ x.recording = rb[g].recording /\ x.took = rb[g].took
                               /\ x.canceller = rb[g].canceller
  BY <1>1, <1>2, <1>3, GoesIs
<1>5. Fits(x) /\ x.pc \notin Taking /\ x.pc # "handBack" /\ x.pc \in (Alive \ {"spawned"}) \cup {"ended"}
  BY <1>1, <1>3, <1>4 DEF Fits, Taking, Alive, RebuildPcs
<1>6. report = NoReport
  BY <1>1 DEF IInv, Streams
<1> QED BY <1>1, <1>2, <1>3, <1>4, <1>5, <1>6, RebuildMoves

\* Forgetting what a stopped stream reported keeps the invariant.
LEMMA ForgetChangeKeeps ==
  ASSUME IInv, NEW g \in Generations, ForgetChange(g)
  PROVE  IInv'
<1>1. /\ rb[g].pc = "forget" /\ RGoes(g, "rearmAgain")
      /\ active' = IF active = NoActive THEN active ELSE [active EXCEPT !.pending = "none"]
      /\ UNCHANGED <<state, started, generation, finalised, reports, report, watch, writer, wfail,
                     call, fin, files, held, latch, stream, running>>
  BY DEF ForgetChange, RAt, RebuildOthers
<1>2. rb[g].pc \in Alive /\ "rearmAgain" \in RebuildPcs /\ rb[g].pc \notin Taking
      /\ rb[g].pc \notin LatchOpens /\ rb[g].pc \in Stopped
  BY <1>1 DEF Alive, RebuildPcs, Taking, LatchOpens, Stopped
<1>3. /\ running \in [Recordings -> {"no", "plain", "cancelling"}] /\ held \in BOOLEAN
      /\ Fits(rb[g]) /\ latch \in [Recordings -> BOOLEAN] /\ stream \in StreamType
      /\ held /\ running[started] = "no" /\ rb \in [Generations -> RebuildType]
      /\ ~NoStream.changed /\ stream = NoStream /\ (report # NoReport => stream # NoStream)
  BY <1>1, <1>2, RebuildFinds
<1>4. PICK x \in RebuildType : /\ rb' = [rb EXCEPT ![g] = x] /\ x.pc = "rearmAgain"
                               /\ x.recording = rb[g].recording /\ x.took = rb[g].took
                               /\ x.canceller = rb[g].canceller
  BY <1>1, <1>2, <1>3, GoesIs
<1>5. Fits(x) /\ x.pc \notin Taking /\ x.pc # "handBack" /\ x.pc \in (Alive \ {"spawned"}) \cup {"ended"}
      /\ x.pc \in LatchOpens
  BY <1>1, <1>3, <1>4 DEF Fits, Taking, Alive, RebuildPcs, LatchOpens
<1>6. active' \in {active, [active EXCEPT !.pending = "none"]} /\ (active = NoActive => active' = active)
  BY <1>1
<1> QED BY <1>1, <1>2, <1>3, <1>4, <1>5, <1>6, RebuildMoves

\* Filling the gap keeps the invariant.
LEMMA FillKeeps ==
  ASSUME IInv, NEW g \in Generations, Fill(g)
  PROVE  IInv'
<1>1. /\ rb[g].pc = "silence"
      /\ RPast(g, "ended") \/ RGoes(g, "resume")
      /\ UNCHANGED <<state, started, generation, finalised, reports, report, watch, writer, wfail,
                     call, fin, files, held, active, latch, stream, running>>
  BY DEF Fill, RAt, RebuildOthers
<1>2. /\ "silence" \in Alive \ {"spawned", "stopOld", "join", "handBack"}
      /\ "resume" \in Alive \ {"spawned", "stopOld", "join", "handBack"}
      /\ "silence" \notin LatchOpens /\ "resume" \notin Stopped
  BY DEF Alive, RebuildPcs, LatchOpens, Stopped
<1> QED BY <1>1, <1>2, GoesKeeps, EndsKeeps


\* A rebuild that begins takes the processing thread of the recording.
LEMMA RebuildBeginsKeeps ==
  ASSUME IInv, NEW g \in Generations, RebuildBegins(g)
  PROVE  IInv'
<1>1. /\ rb[g].pc = "spawned" /\ rb[g].pc \in Alive /\ rb[g].pc \notin Taking /\ rb[g].pc # "handBack"
      /\ UNCHANGED <<state, started, generation, finalised, reports, report, watch, writer, wfail,
                     call, fin, files, held, latch, stream, running>>
  BY DEF RebuildBegins, RAt, RebuildOthers, Alive, RebuildPcs, Taking
<1>2. /\ TypeOK /\ rb \in [Generations -> RebuildType] /\ rb[g] \in RebuildType
      /\ running \in [Recordings -> {"no", "plain", "cancelling"}] /\ held \in BOOLEAN
      /\ Fits(rb[g]) /\ latch \in [Recordings -> BOOLEAN] /\ stream \in StreamType
      /\ rb[g].recording = started /\ started \in Recordings
      /\ StillRebuilding(g) <=> Recording
      /\ held <=> running[started] = "no"
      /\ stream # NoStream => stream.recording = started
      /\ report # NoReport => stream # NoStream
  BY <1>1, RebuildFinds
<1>3. CASE ~StillRebuilding(g) /\ RPast(g, "ended") /\ UNCHANGED active
  <2>1. "ended" \in RebuildPcs /\ ~Recording
    BY <1>2, <1>3 DEF RebuildPcs
  <2>2. PICK x \in RebuildType : /\ Past(g, "ended") = [rb EXCEPT ![g] = x] /\ x.pc = "ended"
                                 /\ x.recording = rb[g].recording /\ ~x.took /\ ~x.canceller
    BY <1>2, <2>1, PastIs
  <2>3. rb' = [rb EXCEPT ![g] = x]
    BY <1>3, <2>2 DEF RPast
  <2>4. Fits(x) /\ x.pc \notin Stopped /\ x.pc # "handBack" /\ x.pc \in (Alive \ {"spawned"}) \cup {"ended"}
    BY <2>2 DEF Fits, Taking, Stopped
  <2> QED BY <1>1, <1>2, <1>3, <2>1, <2>2, <2>3, <2>4, RebuildMoves
<1>4. CASE StillRebuilding(g) /\ ~(~StillRebuilding(g) /\ RPast(g, "ended") /\ UNCHANGED active)
  <2>1. PICK onFallback \in BOOLEAN, soon \in BOOLEAN, continues \in 0..RestartAttempts :
          rb' = [rb EXCEPT
                  ![g].pc = "stopOld", ![g].took = active.processing,
                  ![g].attempt = continues, ![g].onFallback = onFallback,
                  ![g].first = /\ rb[g].reason = "stalled" /\ soon /\ MayBeTheMicrophone
                               /\ ~onFallback /\ Chosen]
    BY <1>4 DEF RebuildBegins
  <2>2. Recording /\ active' = [active EXCEPT !.processing = FALSE]
    BY <1>2, <1>4 DEF RebuildBegins
  <2>3. PICK a \in Actives, s \in {"take", "watch", "rebuild"} : Now(a, s) /\ a.rebuild = g /\ g = generation
    BY <1>1, RebuildNow
  <2>4. /\ active.rebuild = g /\ Body(active, "take") /\ active.recording = started /\ active \in Actives
        /\ active # NoActive /\ g \in Nat /\ g # 0 /\ generation = g /\ started # 0
        /\ active.processing /\ active.processing \in BOOLEAN
    <3>1. active = a /\ Body(active, "take") /\ active.recording = started /\ active # NoActive
      BY <2>2, <2>3, RunningNow, OneNow
    <3>2. g \in Nat /\ g # 0 /\ active \in Actives /\ started # 0
      BY <1>2, Types, SessionAssumption DEF Recordings
    <3> QED BY <1>1, <2>3, <3>1, <3>2 DEF Body, Actives
  <2>5. PICK x \in RebuildType : /\ rb' = [rb EXCEPT ![g] = x] /\ x.pc = "stopOld" /\ x.took
                                 /\ x.recording = rb[g].recording /\ x.canceller = rb[g].canceller
    <3> DEFINE first == /\ rb[g].reason = "stalled" /\ soon /\ MayBeTheMicrophone
                        /\ ~onFallback /\ Chosen
    <3>1. first \in BOOLEAN
      BY SessionAssumption
    <3> HIDE DEF first
    <3> DEFINE x == [rb[g] EXCEPT !.pc = "stopOld", !.took = TRUE, !.attempt = continues,
                                  !.onFallback = onFallback, !.first = first]
    <3>2. /\ x \in RebuildType /\ x.pc = "stopOld" /\ x.took
          /\ x.recording = rb[g].recording /\ x.canceller = rb[g].canceller
      BY <1>2, <3>1 DEF RebuildType, RebuildPcs
    <3>3. active.processing = TRUE
      BY <2>4
    <3>4. rb' = [rb EXCEPT ![g] = x]
      BY <2>1, <1>2, <3>3 DEF RebuildType, first
    <3> QED BY <3>2, <3>4
  <2>6. rb'[g] = x /\ \A h \in Generations : h # g => rb'[h] = rb[h] /\ rb[h].pc \notin Alive
    BY <1>2, <2>4, <2>5 DEF Body
  <2>7. Fits(x) /\ x.pc \in Taking /\ x.pc \notin Stopped /\ x.pc \in Alive
    BY <1>1, <1>2, <2>5 DEF Fits, Taking, Stopped, Alive, RebuildPcs
  <2>8. /\ active' \in Actives /\ active'.recording = active.recording /\ active'.rebuild = active.rebuild
        /\ ~active'.processing /\ active'.pending = active.pending
    BY <2>2, <2>4 DEF Actives
  <2>9. TypeOK'
    <3>1. rb' \in [Generations -> RebuildType]
      BY <1>2, <2>5
    <3> QED BY <1>1, <1>2, <2>8, <3>1 DEF TypeOK, RebuildType
  <2>10. \A q \in Finishers : fin[q].step = "no"
    BY <2>2 DEF IInv, Owners, Recording
  <2>11. Owners'
    <3>1. \A h \in Generations : /\ rb'[h].pc = "finishing" <=> rb[h].pc = "finishing"
                                 /\ rb'[h].recording = rb[h].recording
      BY <1>1, <2>5, <2>6
    <3> QED BY <1>1, <3>1 DEF IInv, Owners
  <2>12. Carried'
    <3>1. x.pc # "none" /\ rb[g].pc # "none"
      BY <1>1, <2>5
    <3> QED BY <1>1, <2>6, <2>7, <3>1 DEF IInv, Carried, Fits
  <2>13. Others' /\ Kept'
    BY <1>1 DEF IInv, Others, Kept
  <2>14. Bodies'
    <3>1. ASSUME NEW b \in Actives, NEW t \in Steps, Now(b, t)' PROVE Body(b, t)'
      <4>1. b = active' /\ t = "take"
        BY <1>1, <2>10, <3>1 DEF Now
      <4>2. running[started] = "cancelling" /\ writer[started] \in {"runs", "failed"} /\ files[started] = "open"
        BY <2>4 DEF Body, PastProcessing, PastWriter
      <4>3. "take" \notin PastWatch \cup PastRebuild \cup PastBackend \cup PastProcessing \cup PastWriter
        BY DEF PastWatch, PastRebuild, PastBackend, PastProcessing, PastWriter
      <4> QED BY <1>1, <1>2, <2>4, <2>5, <2>6, <2>7, <2>8, <4>1, <4>2, <4>3 DEF Body, Taking
    <3> QED BY <1>1, <2>4, <2>8, <2>10, <3>1 DEF Bodies
  <2>15. Canceller'
    <3>1. rb'[g].pc # "handBack" /\ rb[g].pc # "handBack"
      BY <1>1, <2>5, <2>6
    <3> QED BY <1>1, <2>6, <3>1 DEF IInv, Canceller
  <2>16. Streams'
    BY <1>1, <2>6, <2>7 DEF IInv, Streams
  <2>17. Budget'
    BY <1>1, <2>8 DEF IInv, Budget, Pending
  <2>18. Quiet' /\ Latched' /\ Followed'
    BY <1>1, <2>2, <2>4, <2>5, <2>6, <2>8 DEF Quiet, IInv, Latched, Followed, Recording
  <2> QED BY <2>9, <2>11, <2>12, <2>13, <2>14, <2>15, <2>16, <2>17, <2>18 DEF IInv
<1> QED BY <1>3, <1>4 DEF RebuildBegins

\* A rebuild that is done: its processing thread is the recording's again, and
\* `n', when it is not 0, the rebuild a change reported meanwhile begins.
LEMMA ResumedKeeps ==
  ASSUME IInv, NEW g \in Generations, rb[g].pc = "resume", Recording,
         NEW n \in 0..MaxReports, n # 0 => active.pending # "none",
         active' \in Actives, active'.recording = started, active'.processing,
         active'.rebuild = n, active'.pending = "none",
         rb' \in [Generations -> RebuildType],
         rb'[g].pc = "ended", rb'[g].recording = rb[g].recording, ~rb'[g].took, ~rb'[g].canceller,
         \A h \in Generations : h # g /\ h # n => rb'[h] = rb[h],
         \/ n = 0 /\ generation' = generation
         \/ /\ n \in Generations /\ n = generation + 1 /\ generation' = n
            /\ rb'[n].pc = "spawned" /\ rb'[n].recording = started /\ ~rb'[n].took /\ ~rb'[n].canceller,
         running' = [running EXCEPT ![started] = "cancelling"], held' = FALSE,
         latch' \in [Recordings -> BOOLEAN], \A r \in Recordings : latch'[r] => latch[r],
         active.pending = "none" \/ n # 0 \/ ~latch'[started],
         UNCHANGED <<stream, state, started, finalised, reports, report, watch, writer, wfail, call, fin,
                     files>>
  PROVE  IInv'
<1>1. rb[g].pc \in Alive /\ rb[g].pc \notin Taking /\ rb[g].pc # "handBack"
  BY DEF Alive, RebuildPcs, Taking
<1>2. /\ TypeOK /\ rb \in [Generations -> RebuildType] /\ rb[g] \in RebuildType
      /\ running \in [Recordings -> {"no", "plain", "cancelling"}]
      /\ rb[g].recording = started /\ started \in Recordings /\ running[started] = "no"
      /\ stream # NoStream => stream.recording = started
  BY <1>1, RebuildFinds
<1>3. PICK a \in Actives, s \in {"take", "watch", "rebuild"} : Now(a, s) /\ a.rebuild = g /\ g = generation
  BY <1>1, RebuildNow
<1>4. /\ active.rebuild = g /\ Body(active, "take") /\ active \in Actives /\ started # 0
      /\ g \in Nat /\ g # 0 /\ generation = g /\ started \in 0..MaxStarts
  <2>1. active = a /\ Body(active, "take")
    BY <1>3, RunningNow, OneNow
  <2>2. active \in Actives /\ g \in Nat /\ g # 0
    BY <1>2, Types
  <2>3. started \in 0..MaxStarts /\ started # 0
    BY <1>2, SessionAssumption DEF Recordings
  <2> QED BY <1>3, <2>1, <2>2, <2>3
<1>a. 0 \notin Generations
  BY <1>2, Types
<1>5. /\ active' \in Actives /\ active'.recording = started /\ active'.rebuild = n
      /\ active'.processing /\ active'.pending = "none" /\ n # g /\ generation' \in 0..MaxReports
  <2>1. n # g /\ generation' \in 0..MaxReports
    BY <1>2, <1>4, SessionAssumption DEF TypeOK
  <2> QED BY <2>1
<1>6. \A h \in Generations : h # g => rb[h].pc \notin Alive
  BY <1>4 DEF Body
<1>7. n # 0 => rb[n].pc = "none"
  BY <1>2, <1>4, Types DEF IInv, Carried
<1>8. /\ running' \in [Recordings -> {"no", "plain", "cancelling"}] /\ running'[started] = "cancelling"
      /\ \A r \in Recordings : r # started => running'[r] = running[r]
  BY <1>2
<1>9. \A q \in Finishers : fin[q].step = "no"
  BY DEF IInv, Owners, Recording
<1>10. TypeOK'
  BY <1>2, <1>5, <1>8 DEF TypeOK, RebuildType, StreamType
<1>11. Owners'
  <2>1. \A h \in Generations : rb[h].pc # "finishing"
    BY <1>9, Kinds DEF IInv, Owners
  <2>2. \A h \in Generations : rb'[h].pc # "finishing"
    BY <1>a, <2>1
  <2> QED BY <1>9, <2>1, <2>2 DEF IInv, Owners
<1>12. Carried'
  <2>1. \A h \in Generations : h \in Nat
    BY <1>2, Types
  <2>2. Fits(rb'[g]) /\ (n # 0 => Fits(rb'[n]))
    BY DEF Fits, Taking
  <2>3. ASSUME NEW h \in Generations PROVE Fits(rb'[h]) /\ (rb'[h].pc # "none" <=> h <= generation')
    <3>1. CASE h = g
      BY <1>4, <2>2, <3>1
    <3>2. CASE h # g /\ h = n
      BY <1>4, <1>a, <2>1, <2>2, <3>2
    <3>3. CASE h # g /\ h # n
      BY <1>4, <2>1, <3>3 DEF IInv, Carried
    <3> QED BY <3>1, <3>2, <3>3
  <2> QED BY <2>3 DEF Carried, Fits
<1>13. Others'
  BY <1>8 DEF IInv, Others
<1>14. Bodies'
  <2>1. ASSUME NEW b \in Actives, NEW t \in Steps, Now(b, t)' PROVE Body(b, t)'
    <3>1. b = active' /\ t = "take"
      BY <1>9, <2>1 DEF Now
    <3>2. writer[started] \in {"runs", "failed"} /\ files[started] = "open"
      BY <1>4 DEF Body, PastWriter
    <3>3. "take" \notin PastWatch \cup PastRebuild \cup PastBackend \cup PastProcessing \cup PastWriter
      BY DEF PastWatch, PastRebuild, PastBackend, PastProcessing, PastWriter
    <3>4. \A h \in Generations : h # n => rb'[h].pc \notin Alive
      BY <1>6 DEF Alive
    <3> QED BY <1>4, <1>5, <1>8, <3>1, <3>2, <3>3, <3>4 DEF Body
  <2> QED BY <1>5, <1>9, <2>1 DEF Bodies
<1>15. Canceller'
  BY <1>2, <1>8 DEF IInv, Canceller
<1>16. Streams'
  <2>1. \A h \in Generations : rb'[h].pc \in Stopped => rb[h].pc \in Stopped
    BY <1>a DEF Stopped
  <2> QED BY <1>2, <2>1 DEF IInv, Streams
<1>17. Budget'
  <2>1. Pending(active)' = 0 /\ Pending(active) \in {0, 1} /\ (n # 0 => Pending(active) = 1)
    BY <1>5 DEF Pending, One
  <2>2. Reporting(report) \in {0, 1} /\ Watching(watch, started) \in {0, 1} /\ reports \in Nat
    BY <1>2, Types DEF Reporting, Watching, One
  <2> QED BY <1>2, <1>4, <2>1, <2>2 DEF IInv, Budget
<1>18. Quiet' /\ Latched' /\ Followed'
  <2>1. Quiet'
    BY DEF Quiet, Recording
  <2>2. Latched'
    BY <1>2, <1>4, <1>5 DEF IInv, Latched, Recording, Generations
  <2>3. Followed'
    BY <1>2, <1>4, <1>5 DEF IInv, Followed, Recording, Generations
  <2> QED BY <2>1, <2>2, <2>3
<1>19. Kept'
  BY DEF IInv, Kept
<1> QED BY <1>10, <1>11, <1>12, <1>13, <1>14, <1>15, <1>16, <1>17, <1>18, <1>19 DEF IInv

\* The new processing thread takes the canceller, and a change reported
\* meanwhile begins the next rebuild in the same step.
LEMMA ResumeKeeps ==
  ASSUME IInv, NEW g \in Generations, Resume(g)
  PROVE  IInv'
<1>1. /\ rb[g].pc = "resume" /\ rb[g].pc \in Alive \ {"spawned", "stopOld", "join", "handBack"}
      /\ rb[g].pc \notin Taking /\ rb[g].pc \notin LatchOpens
      /\ UNCHANGED <<state, started, finalised, reports, report, watch, writer, wfail, call, fin,
                     files>>
  BY DEF Resume, RAt, Alive, RebuildPcs, Taking, LatchOpens
<1>2. /\ TypeOK /\ rb \in [Generations -> RebuildType] /\ rb[g] \in RebuildType
      /\ rb[g].recording = started /\ started \in Recordings
      /\ StillRebuilding(g) <=> Recording
      /\ held /\ running[started] = "no"
      /\ latch \in [Recordings -> BOOLEAN] /\ stream \in StreamType
  BY <1>1, RebuildFinds
<1>3. CASE /\ rb' = Past(g, "ended")
           /\ UNCHANGED <<active, generation, held, running, latch, stream>>
  <2>1. RPast(g, "ended")
    BY <1>3 DEF RPast
  <2> QED BY <1>1, <1>3, <2>1, EndsKeeps
<1>4. CASE ~/\ rb' = Past(g, "ended")
            /\ UNCHANGED <<active, generation, held, running, latch, stream>>
  <2> DEFINE a == [active EXCEPT !.processing = TRUE, !.rebuild = 0, !.pending = "none"]
  <2>1. /\ Recording /\ running' = [running EXCEPT ![started] = "cancelling"] /\ held' = FALSE
        /\ IF active.pending = "none"
           THEN active' = a /\ rb' = Past(g, "ended") /\ UNCHANGED <<generation, latch, stream>>
           ELSE BeginRebuild(a, Past(g, "ended"), active.pending)
    BY <1>2, <1>4 DEF Resume, ProcessingOf
  <2>2. /\ active \in Actives /\ active.recording = started /\ started # 0
        /\ active.pending \in Maybe(Reasons) /\ generation \in Nat
        /\ started \in 0..MaxStarts /\ MaxReports \in Nat
    <3>1. active \in Actives /\ generation \in Nat /\ MaxReports \in Nat /\ active.recording = started
      BY <1>2, <2>1, Types, RunningNow
    <3>2. started \in 0..MaxStarts /\ started # 0
      BY <1>2, SessionAssumption DEF Recordings
    <3> QED BY <3>1, <3>2 DEF Actives
  <2>3. /\ a \in Actives /\ a.recording = started /\ a.processing /\ a.rebuild = 0
        /\ a.pending = "none"
    <3>1. 0 \in 0..MaxReports /\ "none" \in Maybe(Reasons)
      BY <2>2 DEF Maybe
    <3>2. a \in Actives
      BY <2>2, <3>1 DEF Actives
    <3>3. a.recording = started /\ a.rebuild = 0 /\ a.pending = "none"
      BY <2>2 DEF Actives
    <3>4. a.processing
      BY <2>2 DEF Actives
    <3> QED BY <3>2, <3>3, <3>4
  <2>4. a # NoActive
    BY <2>2, <2>3, NoActiveIsActive
  <2>5. "ended" \in RebuildPcs
    BY DEF RebuildPcs
  <2>6. PICK x \in RebuildType : /\ Past(g, "ended") = [rb EXCEPT ![g] = x] /\ x.pc = "ended"
                                 /\ x.recording = rb[g].recording /\ ~x.took /\ ~x.canceller
    BY <1>2, <2>5, PastIs
  <2>7. CASE active' = a /\ rb' = Past(g, "ended") /\ UNCHANGED generation
             /\ UNCHANGED stream
             /\ \/ active.pending = "none" /\ UNCHANGED latch
                \/ latch' = [latch EXCEPT ![started] = FALSE]
    <3>1. /\ rb' \in [Generations -> RebuildType] /\ rb'[g] = x
          /\ \A h \in Generations : h # g /\ h # 0 => rb'[h] = rb[h]
      BY <1>2, <2>6, <2>7
    <3>2. /\ latch' \in [Recordings -> BOOLEAN] /\ \A r \in Recordings : latch'[r] => latch[r]
          /\ active.pending = "none" \/ ~latch'[started]
      BY <1>2, <2>7
    <3>4. 0 \in 0..MaxReports
      BY <2>2
    <3> HIDE DEF a
    <3>5. /\ active' \in Actives /\ active'.recording = started /\ active'.processing
          /\ active'.rebuild = 0 /\ active'.pending = "none"
      BY <2>3, <2>7
    <3> QED BY <1>1, <2>1, <2>6, <2>7, <3>1, <3>2, <3>4, <3>5, ResumedKeeps
  <2>8. CASE /\ active.pending # "none" /\ generation' = generation + 1
             /\ active' = [a EXCEPT !.rebuild = generation + 1]
             /\ rb' = [Past(g, "ended") EXCEPT ![generation + 1] =
                         [NoRebuild EXCEPT !.pc = "spawned", !.recording = started,
                                           !.reason = active.pending]]
             /\ UNCHANGED <<latch, stream>>
    <3> DEFINE n == generation + 1
               y == [NoRebuild EXCEPT !.pc = "spawned", !.recording = started,
                                      !.reason = active.pending]
    <3>1. n \in Generations /\ n \in 0..MaxReports /\ n # 0
      <4>1. Pending(active) = 1
        BY <2>8 DEF Pending, One
      <4>2. Reporting(report) \in {0, 1} /\ Watching(watch, started) \in {0, 1}
        BY DEF Reporting, Watching, One
      <4>3. reports \in 0..MaxReports
        BY <1>2 DEF TypeOK
      <4> QED BY <2>2, <4>1, <4>2, <4>3 DEF IInv, Budget, Generations
    <3>2. y \in RebuildType /\ y.pc = "spawned" /\ y.recording = started /\ ~y.took /\ ~y.canceller
      <4>1. NoRebuild \in RebuildType
        BY SessionAssumption DEF NoRebuild, RebuildType, RebuildPcs, Maybe
      <4> QED BY <2>2, <4>1, ZenonT(30) DEF NoRebuild, RebuildType, RebuildPcs
    <3>3. n # g
      <4>1. g <= generation
        BY <1>1 DEF IInv, Carried
      <4>2. g \in Nat
        BY <1>2, Types
      <4> QED BY <2>2, <4>1, <4>2
    <3>4. generation' = n /\ active' = [a EXCEPT !.rebuild = n]
          /\ rb' = [[rb EXCEPT ![g] = x] EXCEPT ![n] = y]
      BY <2>6, <2>8
    <3>a. n = generation + 1
      OBVIOUS
    <3> HIDE DEF n, y
    <3>5. /\ rb' \in [Generations -> RebuildType] /\ rb'[g] = x /\ rb'[n] = y
          /\ \A h \in Generations : h # g /\ h # n => rb'[h] = rb[h]
      BY <1>2, <2>6, <3>1, <3>2, <3>3, <3>4
    <3>6. /\ active' \in Actives /\ active'.recording = started /\ active'.processing
          /\ active'.rebuild = n /\ active'.pending = "none"
      <4> HIDE DEF a
      <4> QED BY <2>3, <3>1, <3>4 DEF Actives
    <3>7. UNCHANGED <<latch, stream>> /\ latch \in [Recordings -> BOOLEAN] /\ stream \in StreamType
      BY <1>2, <2>8
    <3>8. n \in Generations /\ n = generation + 1 /\ generation' = n
          /\ rb'[n].pc = "spawned" /\ rb'[n].recording = started /\ ~rb'[n].took /\ ~rb'[n].canceller
      BY <3>1, <3>2, <3>4, <3>a, <3>5
    <3>9. rb'[g].pc = "ended" /\ rb'[g].recording = rb[g].recording /\ ~rb'[g].took /\ ~rb'[g].canceller
      BY <2>6, <3>5
    <3> HIDE DEF a
    <3>10. /\ rb[g].pc = "resume" /\ Recording /\ n \in 0..MaxReports /\ n # 0
           /\ active.pending # "none" /\ rb' \in [Generations -> RebuildType]
           /\ \A h \in Generations : h # g /\ h # n => rb'[h] = rb[h]
           /\ running' = [running EXCEPT ![started] = "cancelling"] /\ held' = FALSE
           /\ UNCHANGED <<state, started, finalised, reports, report, watch, writer, wfail, call, fin,
                          files>>
      BY <1>1, <2>1, <2>8, <3>1, <3>5
    <3>11. \A r \in Recordings : latch'[r] => latch[r]
      BY <3>7
    <3>12. latch' \in [Recordings -> BOOLEAN] /\ UNCHANGED stream
      BY <3>7
    <3> QED BY <3>6, <3>8, <3>9, <3>10, <3>11, <3>12, ResumedKeeps
  <2>9. \/ active.pending = "none" /\ active' = a /\ rb' = Past(g, "ended")
           /\ UNCHANGED <<generation, latch, stream>>
        \/ active.pending # "none" /\ BeginRebuild(a, Past(g, "ended"), active.pending)
    BY <2>1
  <2> HIDE DEF a
  <2> QED BY <2>1, <2>3, <2>4, <2>7, <2>8, <2>9 DEF BeginRebuild
<1> QED BY <1>3, <1>4

\* The rebuild thread becomes its recording's finisher.
LEMMA DeviceLostKeeps ==
  ASSUME IInv, NEW g \in Generations, DeviceLost(g)
  PROVE  IInv'
<1>1. /\ rb[g].pc = "exhausted" /\ rb[g].pc \in Alive \ {"spawned", "stopOld", "join", "handBack"}
      /\ rb[g].pc \notin Taking /\ rb[g].pc \notin LatchOpens /\ rb[g].pc \in Stopped
      /\ UNCHANGED <<started, generation, finalised, reports, report, watch, writer, wfail, call,
                     files, held, latch, stream, running>>
      /\ <<"rebuild", g>> \in Finishers
  BY Kinds DEF DeviceLost, RAt, Alive, RebuildPcs, Taking, LatchOpens, Stopped, backend
<1>2. CASE RPast(g, "ended") /\ UNCHANGED <<active, state, fin>>
  BY <1>1, <1>2, EndsKeeps
<1>3. CASE /\ Recording /\ active' = [active EXCEPT !.rebuild = 0]
           /\ BeginsFinish(<<"rebuild", g>>) /\ RPast(g, "finishing")
  <2>1. /\ TypeOK /\ rb \in [Generations -> RebuildType] /\ rb[g] \in RebuildType
        /\ rb[g].recording = started /\ started \in Recordings /\ running[started] = "no"
        /\ stream = NoStream /\ report = NoReport
    BY <1>1, RebuildFinds
  <2>2. PICK b \in Actives, s \in {"take", "watch", "rebuild"} :
          Now(b, s) /\ b.rebuild = g /\ g = generation /\ ~b.processing
    BY <1>1, RebuildNow
  <2>3. /\ active.rebuild = g /\ Body(active, "take") /\ active.recording = started
        /\ active \in Actives /\ started # 0 /\ ~active.processing /\ g # 0
        /\ MaxReports \in Nat
    <3>1. active = b /\ Body(active, "take") /\ active.recording = started
      BY <1>3, <2>2, RunningNow, OneNow
    <3> QED BY <2>1, <2>2, <3>1, Types, SessionAssumption DEF Recordings
  <2>4. PICK a \in Actives : /\ a = active' /\ a.rebuild = 0 /\ a.recording = started
                             /\ ~a.processing /\ a.pending = active.pending
    <3>1. 0 \in 0..MaxReports
      BY <2>3
    <3> QED BY <1>3, <2>3, <3>1 DEF Actives
  <2>5. "finishing" \in RebuildPcs
    BY DEF RebuildPcs
  <2>6. PICK x \in RebuildType : /\ Past(g, "finishing") = [rb EXCEPT ![g] = x] /\ x.pc = "finishing"
                                 /\ x.recording = rb[g].recording /\ ~x.took /\ ~x.canceller
    BY <2>1, <2>5, PastIs
  <2>7. /\ rb' \in [Generations -> RebuildType] /\ rb'[g] = x
        /\ \A h \in Generations : h # g => rb'[h] = rb[h] /\ rb[h].pc \notin Alive
    BY <1>3, <2>1, <2>3, <2>6 DEF RPast, Body
  <2>8. Body(a, "take")'
    <3>1. \A h \in Generations : rb'[h].pc \notin Alive
      BY <2>6, <2>7 DEF Alive
    <3>2. writer[started] \in {"runs", "failed"} /\ files[started] = "open"
      BY <2>3 DEF Body, PastWriter
    <3>3. "take" \notin PastWatch \cup PastBackend \cup PastWriter
      BY DEF PastWatch, PastBackend, PastWriter
    <3> QED BY <1>1, <2>1, <2>3, <2>4, <3>1, <3>2, <3>3 DEF Body
  <2>9. /\ state' = [kind |-> "stopping", recording |-> 0]
        /\ fin' \in [Finishers -> FinishType]
        /\ \A q \in Finishers : fin'[q].step = IF q = <<"rebuild", g>> THEN "take" ELSE "no"
        /\ \A q \in Finishers : fin[q].step = "no" /\ (fin'[q].step = "no" => fin'[q] = NotFinishing)
        /\ Bodies' /\ Quiet' /\ Latched' /\ Followed'
    <3>1. active' \in Actives /\ \A c \in Actives : c = active' => Body(c, "take")'
      <4>1. ASSUME NEW c \in Actives, c = active' PROVE Body(c, "take")'
        <5>1. c = a
          BY <2>4, <4>1
        <5> QED BY <2>8, <5>1
      <4> QED BY <2>4, <4>1
    <3> QED BY <1>1, <1>3, <3>1, BeginsKeeps
  <2>10. TypeOK'
    BY <1>1, <2>1, <2>4, <2>7, <2>9, SessionAssumption DEF TypeOK, FinishType, RebuildType
  <2>11. Owners'
    <3>1. \A h \in Generations : h # g => <<"rebuild", h>> # <<"rebuild", g>>
      OBVIOUS
    <3>2. /\ \A d \in Callers : <<"call", d>> # <<"rebuild", g>>
          /\ \A r \in Recordings : <<"writer", r>> # <<"rebuild", g>>
      OBVIOUS
    <3>3. /\ \A d \in Callers : call'[d].pc # "finishing"
          /\ \A r \in Recordings : wfail'[r] # "finishing"
          /\ \A h \in Generations : h # g => rb'[h].pc # "finishing"
      <4>1. Owners /\ \A q \in Finishers : fin[q].step = "no"
        BY <2>9 DEF IInv
      <4>2. /\ \A d \in Callers : call[d].pc # "finishing"
            /\ \A r \in Recordings : wfail[r] # "finishing"
            /\ \A h \in Generations : rb[h].pc # "finishing"
        BY <4>1, Kinds DEF Owners
      <4> QED BY <1>1, <2>7, <4>2
    <3> QED BY <1>1, <2>1, <2>2, <2>6, <2>7, <2>9, <3>1, <3>2, <3>3, Kinds DEF Owners
  <2>12. Carried'
    <3>1. rb[g].pc # "none" /\ Fits(x) /\ x.pc # "none"
      BY <1>1, <2>6 DEF Fits, Taking
    <3> QED BY <1>1, <2>7, <3>1 DEF IInv, Carried, Fits
  <2>13. Others'
    BY <1>1 DEF IInv, Others
  <2>14. Canceller'
    BY <1>1, <2>6, <2>7 DEF IInv, Canceller
  <2>15. Streams'
    BY <1>1, <2>1, <2>6, <2>7 DEF IInv, Streams, Stopped
  <2>16. Budget'
    BY <1>1, <2>4 DEF IInv, Budget, Pending
  <2>17. Kept'
    BY <1>1, <2>9 DEF IInv, Kept
  <2> QED BY <2>9, <2>10, <2>11, <2>12, <2>13, <2>14, <2>15, <2>16, <2>17 DEF IInv
<1> QED BY <1>2, <1>3 DEF DeviceLost

\* Every step of a rebuild thread.
LEMMA RebuildsKeeps ==
  ASSUME IInv, NEW g \in Generations, Rebuilds(g)
  PROVE  IInv'
<1>1. CASE Rearm(g, "rearm", [rb[g] EXCEPT !.pc = "restart"])
  <2>1. rb[g].pc \in Alive
    BY <1>1 DEF Rearm, RAt, Alive, RebuildPcs
  <2>2. rb[g] \in RebuildType
    BY <2>1, RebuildFinds
  <2>3. PICK x \in RebuildType : /\ x = [rb[g] EXCEPT !.pc = "restart"] /\ x.pc = "restart"
             /\ x.recording = rb[g].recording /\ x.took = rb[g].took /\ x.canceller = rb[g].canceller
    <3> DEFINE y == [rb[g] EXCEPT !.pc = "restart"]
    <3>1. "restart" \in RebuildPcs
      BY DEF RebuildPcs
    <3>2. /\ y \in RebuildType /\ y.pc = "restart" /\ y.recording = rb[g].recording
          /\ y.took = rb[g].took /\ y.canceller = rb[g].canceller
      BY <2>2, <3>1 DEF RebuildType
    <3> QED BY <3>2
  <2>4. Rearm(g, "rearm", x)
    BY <1>1, <2>3
  <2> QED BY <2>3, <2>4, RearmKeeps
<1>2. CASE Rearm(g, "rearmAgain", StartFailed(rb[g], TRUE))
  <2>1. rb[g].pc \in Alive
    BY <1>2 DEF Rearm, RAt, Alive, RebuildPcs
  <2>2. rb[g] \in RebuildType
    BY <2>1, RebuildFinds
  <2>3. PICK x \in RebuildType : /\ x = StartFailed(rb[g], TRUE) /\ x.pc \in {"try", "exhausted", "restart"}
             /\ x.recording = rb[g].recording /\ x.took = rb[g].took /\ x.canceller = rb[g].canceller
    BY <2>2, StartFailedIs
  <2>4. Rearm(g, "rearmAgain", x)
    BY <1>2, <2>3
  <2> QED BY <2>3, <2>4, RearmKeeps
<1> QED BY <1>1, <1>2, RebuildBeginsKeeps, StopOldStreamKeeps, JoinOldProcessingKeeps, HandBackKeeps,
           NextAttemptKeeps, TryStartKeeps, WaitForFrameKeeps, GiveUpStreamKeeps, ForgetChangeKeeps,
           FillKeeps, ResumeKeeps, DeviceLostKeeps DEF Rebuilds

-----------------------------------------------------------------------------
(* The invariant.                                                           *)

\* The invariant holds at the start.
LEMMA InitIInv == Init => IInv
<1> SUFFICES ASSUME Init PROVE IInv
  OBVIOUS
<1>1. state.kind = "idle" /\ state.recording = 0 /\ ~Recording
  BY DEF Init, Recording
<1>2. TypeOK
  <2>1. NoStream \in StreamType /\ NoReport \in ReportType
    BY SessionAssumption DEF NoStream, StreamType, NoReport, ReportType, Maybe
  <2>2. NoRebuild \in RebuildType
    BY SessionAssumption DEF NoRebuild, RebuildType, RebuildPcs, Maybe
  <2>3. 0 \in 0..MaxStarts /\ 0 \in 0..MaxReports
    BY SessionAssumption
  <2>4. "none" \in Maybe(Reasons)
    BY DEF Maybe
  <2> QED BY <2>1, <2>2, <2>3, <2>4, NoActiveIsActive, NotFinishingType
          DEF Init, TypeOK, StreamType, ReportType, RebuildType, FinishType
<1>3. \A p \in Finishers : fin[p] = NotFinishing /\ fin[p].step = "no"
  BY NotFinishingType DEF Init
<1>4. \A g \in Generations : rb[g].pc = "none" /\ ~rb[g].took /\ ~rb[g].canceller /\ rb[g].recording = 0
  BY DEF Init, NoRebuild
<1>5. Owners
  <2>1. \A r \in Recordings : wfail[r] = "none"
    BY DEF Init
  <2>2. \A c \in Callers : call[c].pc = "idle"
    BY DEF Init
  <2> QED BY <1>1, <1>3, <1>4, <2>1, <2>2, Kinds DEF Owners
<1>6. Carried
  <2>1. \A g \in Generations : ~(g <= generation)
    BY <1>2, Types DEF Init
  <2> QED BY <1>4, <2>1 DEF Carried, Fits, Taking
<1>7. Others
  BY DEF Init, Others
<1>8. Bodies
  <2>1. \A a \in Actives, s \in Steps : ~Now(a, s)
    BY <1>1, <1>3 DEF Now
  <2> QED BY <1>1, <1>3, <2>1 DEF Bodies
<1>9. Canceller
  BY <1>4 DEF Init, Canceller
<1>10. Streams
  BY <1>4 DEF Init, Streams, Stopped
<1>11. Budget
  BY DEF Init, Budget, Pending, Reporting, Watching, One, NoActive
<1>12. Quiet
  BY <1>4 DEF Init, Quiet
<1>13. Latched /\ Followed
  BY <1>1 DEF Latched, Followed
<1>14. Kept
  BY <1>1, <1>3 DEF Init, Kept
<1> QED BY <1>2, <1>5, <1>6, <1>7, <1>8, <1>9, <1>10, <1>11, <1>12, <1>13, <1>14 DEF IInv

\* Whatever is defined of the variables stays while they do.
LEMMA StutterKeeps ==
  ASSUME IInv, UNCHANGED vars
  PROVE  IInv'
<1>1. UNCHANGED <<state, started, generation, finalised, held, active, latch, stream, report,
                  reports, watch, running, writer, wfail, rb, call, fin, files>>
  BY DEF vars, session, backend, threads
<1>2. TypeOK'
  BY <1>1 DEF IInv, TypeOK
<1>3. Bodies'
  <2>1. \A a \in Actives, s \in Steps : Now(a, s) /\ Body(a, s) => Body(a, s)'
    BY <1>1 DEF Body
  <2> QED BY <1>1, <2>1, BodiesStay
<1>4. Owners' /\ Carried' /\ Others' /\ Canceller'
  BY <1>1 DEF IInv, Owners, Carried, Fits, Others, Canceller
<1>5. Streams' /\ Budget' /\ Quiet' /\ Latched' /\ Followed' /\ Kept'
  BY <1>1 DEF IInv, Streams, Budget, Quiet, Latched, Followed, Kept, Recording
<1> QED BY <1>2, <1>3, <1>4, <1>5 DEF IInv

\* Every step of every thread.
LEMMA NextIInv ==
  ASSUME IInv, [Next]_vars
  PROVE  IInv'
<1>1. CASE Start
  BY <1>1, StartKeeps
<1>2. ASSUME NEW c \in Callers, Stop(c) \/ StopWakes(c) PROVE IInv'
  BY <1>2, StopKeeps, StopWakesKeeps
<1>3. ASSUME NEW p \in Finishers, Finish(p) PROVE IInv'
  BY <1>3, FinishKeeps
<1>4. ASSUME NEW r \in Recordings, \/ WriterFails(r) \/ WriterFailed(r)
                                   \/ WatchEnds(r) \/ WatchLatches(r) \/ WatchHandled(r)
      PROVE  IInv'
  BY <1>4, WriterFailsKeeps, WriterFailedKeeps, WatchEndsKeeps, WatchLatchesKeeps, WatchHandledKeeps
<1>5. ASSUME NEW r \in Recordings, NEW reason \in {"stalled", "device"}, WatchDecides(r, reason)
      PROVE  IInv'
  BY <1>5, WatchDecidesKeeps
<1>6. ASSUME StreamDelivers \/ ReportLatches \/ ReportHandled PROVE IInv'
  BY <1>6, StreamDeliversKeeps, ReportLatchesKeeps, ReportHandledKeeps
<1>7. ASSUME NEW reason \in {"device", "service"}, DeviceChanges(reason) PROVE IInv'
  BY <1>7, DeviceChangesKeeps
<1>8. ASSUME NEW g \in Generations, Rebuilds(g) PROVE IInv'
  BY <1>8, RebuildsKeeps
<1>9. CASE UNCHANGED vars
  BY <1>9, StutterKeeps
<1> QED BY <1>1, <1>2, <1>3, <1>4, <1>5, <1>6, <1>7, <1>8, <1>9 DEF Next

\* What is true of every reachable state.
THEOREM Invariant == Spec => []IInv
<1> QED BY InitIInv, NextIInv, PTL DEF Spec

-----------------------------------------------------------------------------
(* What it gives.                                                           *)

\* Every variable keeps its type: the bounds on recordings, reports and
\* attempts are never passed.
THEOREM TypeCorrect == Spec => []TypeOK
<1>1. IInv => TypeOK
  BY DEF IInv
<1> QED BY <1>1, Invariant, PTL

\* A recording that is over, however it ended, leaves no thread, no stream
\* and no finish() behind, and the session has the echo canceller.
THEOREM OverIsQuiet == Spec => []QuietOnceOver
<1>1. IInv => QuietOnceOver
  <2> SUFFICES ASSUME IInv, state.kind \in {"idle", "failed"} PROVE QuietOnceOver
    BY DEF QuietOnceOver
  <2>1. Quiet /\ Owners /\ Canceller /\ Streams
    BY DEF IInv
  <2>2. \A p \in Finishers : fin[p] = NotFinishing
    BY <2>1 DEF Owners
  <2>3. held /\ stream = NoStream
    BY <2>1 DEF Quiet, Canceller, Streams
  <2> QED BY <2>1, <2>2, <2>3 DEF Quiet, QuietOnceOver
<1> QED BY <1>1, Invariant, PTL

\* While a rebuild fills a gap nobody else writes into the relay, and its
\* reader is there.
THEOREM OneProducer == Spec => []OneRelayProducer
<1>1. IInv => OneRelayProducer
  <2> SUFFICES ASSUME IInv, NEW g \in Generations, rb[g].pc = "silence"
               PROVE  /\ running[rb[g].recording] = "no"
                      /\ writer[rb[g].recording] \in {"runs", "failed"}
                      /\ \A h \in Generations \ {g} : rb[h].pc \in {"none", "ended"}
    BY DEF OneRelayProducer
  <2>1. rb[g].pc \in Alive /\ rb[g].pc \notin Taking /\ rb[g].pc # "spawned"
    BY DEF Alive, RebuildPcs, Taking
  <2>2. PICK a \in Actives, s \in {"take", "watch", "rebuild"} :
          /\ Now(a, s) /\ Body(a, s) /\ a.rebuild = g /\ g = generation
          /\ rb[g].recording = started /\ ~a.processing
          /\ running[started] = IF a.processing \/ rb[g].pc \in Taking THEN "cancelling" ELSE "no"
    BY <2>1, RebuildNow
  <2>3. writer[started] \in {"runs", "failed"}
    BY <2>2 DEF Body, PastWriter
  <2>4. ASSUME NEW h \in Generations \ {g} PROVE rb[h].pc \in {"none", "ended"}
    <3>1. rb[h].pc \notin Alive /\ rb[h].pc \in RebuildPcs
      BY <2>2, Types DEF Body, IInv
    <3>2. rb[h].pc # "finishing"
      <4>1. SUFFICES ASSUME rb[h].pc = "finishing" PROVE FALSE
        OBVIOUS
      <4>2. <<"rebuild", h>> \in Finishers /\ fin[<<"rebuild", h>>].step # "no"
            /\ h = generation
        BY <4>1, Kinds DEF IInv, Owners
      <4> QED BY <2>2, <4>2
    <3> QED BY <3>1, <3>2 DEF Alive
  <2> QED BY <2>1, <2>2, <2>3, <2>4
<1> QED BY <1>1, Invariant, PTL

\* A change reported under the running stream always has somebody who will
\* see to it.
THEOREM ChangesAreFollowed == Spec => []ChangeIsFollowed
<1>1. IInv => ChangeIsFollowed
  <2> SUFFICES ASSUME IInv, Recording, stream.changed PROVE ChangeIsFollowed
    BY DEF ChangeIsFollowed
  <2>1. active.rebuild # 0 => active.rebuild \in Generations
    BY RunningNow DEF Body
  <2> QED BY <2>1 DEF IInv, Followed, ChangeIsFollowed
<1> QED BY <1>1, Invariant, PTL

\* A finish() ends the recording of the thread it runs in, and is the only one.
THEOREM OwnRecordingEnds == Spec => []EachEndsItsOwn
<1>1. IInv => EachEndsItsOwn
  <2> SUFFICES ASSUME IInv, NEW p \in Finishers, fin[p].step # "no"
               PROVE  /\ state.kind = "stopping"
                      /\ started = CASE p[1] = "call" -> call[p[2]].of
                                     [] p[1] = "writer" -> p[2]
                                     [] OTHER -> rb[p[2]].recording
                      /\ \A q \in Finishers \ {p} : fin[q] = NotFinishing
    BY DEF EachEndsItsOwn
  <2>1. Owners
    BY DEF IInv
  <2>2. state.kind = "stopping" /\ \A q \in Finishers \ {p} : fin[q] = NotFinishing
    BY <2>1 DEF Owners
  <2>3. CASE \E c \in Callers : p = <<"call", c>>
    BY <2>1, <2>2, <2>3 DEF Owners
  <2>4. CASE \E r \in Recordings : p = <<"writer", r>>
    BY <2>1, <2>2, <2>4 DEF Owners
  <2>5. CASE \E g \in Generations : p = <<"rebuild", g>>
    BY <2>1, <2>2, <2>5 DEF Owners
  <2> QED BY <2>3, <2>4, <2>5, Kinds
<1> QED BY <1>1, Invariant, PTL

\* A stop() answers with the recording it was called for, saved, or with none.
THEOREM OwnRecordingAnswers == Spec => []StopAnswersItsOwn
<1>1. IInv => StopAnswersItsOwn
  BY DEF IInv, Kept, StopAnswersItsOwn
<1> QED BY <1>1, Invariant, PTL

\* A stream that goes on is not another, and goes on delivering.
StreamStays ==
  stream # NoStream /\ stream' # NoStream => stream.recording = stream'.recording
                                             /\ (stream.delivering => stream'.delivering)

\* The files that are saved have nobody left to write them.
SavedAtRest ==
  \A r \in Recordings : files[r] = "open" /\ files'[r] = "saved" =>
     /\ stream = NoStream /\ running[r] = "no" /\ writer[r] = "ended"
     /\ \A g \in Generations : rb[g].recording = r => rb[g].pc \in {"ended", "finishing"}

\* begin_rebuild never stops or starts a stream.
LEMMA BeginRebuildStays ==
  ASSUME IInv, NEW a, NEW threads0, NEW reason, BeginRebuild(a, threads0, reason)
  PROVE  StreamStays
<1>1. stream \in StreamType
  BY ReportTypes DEF IInv
<1> QED BY <1>1 DEF BeginRebuild, StreamStays, StreamType

\* A rebuild starts its stream where none runs.
LEMMA RebuildStreams ==
  ASSUME IInv, NEW g \in Generations, Rebuilds(g)
  PROVE  StreamStays /\ UNCHANGED files
<1>1. CASE RebuildBegins(g) \/ JoinOldProcessing(g) \/ HandBackCanceller(g) \/ NextAttempt(g)
           \/ WaitForFrame(g) \/ ForgetChange(g) \/ Fill(g)
  BY <1>1 DEF RebuildBegins, JoinOldProcessing, HandBackCanceller, NextAttempt, WaitForFrame,
              ForgetChange, Fill, RebuildOthers, StreamStays
<1>2. CASE \/ Rearm(g, "rearm", [rb[g] EXCEPT !.pc = "restart"])
           \/ Rearm(g, "rearmAgain", StartFailed(rb[g], TRUE))
  BY <1>2 DEF Rearm, RebuildOthers, StreamStays
<1>3. CASE StopOldStream(g) \/ GiveUpStream(g)
  BY <1>3 DEF StopOldStream, GiveUpStream, BackendStops, RebuildOthers, StreamStays
<1>4. CASE TryStart(g)
  <2>1. rb[g].pc \in Stopped
    BY <1>4 DEF TryStart, RAt, Stopped
  <2>2. stream = NoStream
    BY <2>1 DEF IInv, Streams
  <2> QED BY <1>4, <2>2 DEF TryStart, RebuildOthers, StreamStays
<1>5. CASE Resume(g)
  <2>1. \/ UNCHANGED stream
        \/ \E a, threads0 : BeginRebuild(a, threads0, active.pending)
    BY <1>5 DEF Resume
  <2> QED BY <1>5, <2>1, BeginRebuildStays DEF Resume, StreamStays
<1>6. CASE DeviceLost(g)
  BY <1>6 DEF DeviceLost, backend, StreamStays
<1> QED BY <1>1, <1>2, <1>3, <1>4, <1>5, <1>6 DEF Rebuilds

\* finish() closes the files when nothing writes them.
LEMMA FinishStreams ==
  ASSUME IInv, NEW p \in Finishers, Finish(p)
  PROVE  StreamStays /\ SavedAtRest
<1>1. CASE TakeActive(p) \/ JoinWatch(p) \/ JoinRebuild(p) \/ JoinProcessing(p) \/ SetFinished(p)
  BY <1>1 DEF TakeActive, JoinWatch, JoinRebuild, JoinProcessing, SetFinished, backend, threads,
              StreamStays, SavedAtRest
<1>2. CASE StopBackend(p)
  BY <1>2 DEF StopBackend, BackendStops, StreamStays, SavedAtRest
<1>3. CASE JoinWriter(p)
  <2>1. files \in [Recordings -> {"none", "open", "saved", "gone"}]
    BY DEF IInv, TypeOK
  <2> QED BY <1>3, <2>1 DEF JoinWriter, backend, StreamStays, SavedAtRest
<1>4. CASE CloseFiles(p)
  <2>1. fin[p].step = "close" /\ UNCHANGED stream
    BY <1>4 DEF CloseFiles, At, backend
  <2>2. PICK a \in Actives : a = fin[p].taken
    BY Types DEF IInv
  <2>3. Body(a, "close") /\ started \in Recordings /\ a.recording = started
    BY <2>1, <2>2, FinishingNow DEF PartsOf
  <2>4. /\ stream = NoStream /\ running[started] = "no" /\ writer[started] = "ended"
        /\ \A g \in Generations : g = a.rebuild => rb[g].pc = "ended"
        /\ \A g \in Generations : g # a.rebuild => rb[g].pc \notin Alive
    BY <2>3, Types DEF Body, PastBackend, PastProcessing, PastWriter, PastRebuild, IInv
  <2>5. ASSUME NEW g \in Generations, rb[g].recording = started PROVE rb[g].pc \in {"ended", "finishing"}
    <3>1. rb[g].pc # "none"
      BY <2>3, <2>5 DEF IInv, Carried, Fits, Body
    <3>2. rb[g].pc \in RebuildPcs
      BY Types DEF IInv
    <3> QED BY <2>4, <3>1, <3>2 DEF Alive
  <2>6. \A r \in Recordings : r # started => files'[r] = files[r]
    <3>1. files \in [Recordings -> {"none", "open", "saved", "gone"}]
      BY DEF IInv, TypeOK
    <3> QED BY <1>4, <2>2, <2>3, <3>1 DEF CloseFiles, Taken
  <2> QED BY <2>1, <2>4, <2>5, <2>6 DEF StreamStays, SavedAtRest
<1> QED BY <1>1, <1>2, <1>3, <1>4 DEF Finish

\* No stream is started over another, and a recording's files are closed when
\* none of its threads writes them any more.
THEOREM StreamsStopFirst == Spec => StreamsAreStoppedFirst
<1>1. ASSUME IInv, [Next]_vars
      PROVE  StreamStays /\ SavedAtRest
  <2>1. CASE Start
    <3>1. stream = NoStream
      BY <1>1, <2>1 DEF Start, IInv, Streams
    <3>2. files \in [Recordings -> {"none", "open", "saved", "gone"}]
      BY <1>1 DEF IInv, TypeOK
    <3> QED BY <2>1, <3>1, <3>2 DEF Start, StartRuns, StartFails, StreamStays, SavedAtRest
  <2>2. ASSUME NEW c \in Callers, Stop(c) \/ StopWakes(c) PROVE StreamStays /\ SavedAtRest
    BY <2>2 DEF Stop, StopWakes, StopOthers, backend, StreamStays, SavedAtRest
  <2>3. ASSUME NEW p \in Finishers, Finish(p) PROVE StreamStays /\ SavedAtRest
    BY <1>1, <2>3, FinishStreams
  <2>4. ASSUME NEW r \in Recordings, WriterFails(r) \/ WriterFailed(r) \/ WatchEnds(r) \/ WatchLatches(r)
        PROVE  StreamStays /\ SavedAtRest
    BY <2>4 DEF WriterFails, WriterFailed, WatchEnds, WatchLatches, WatchOthers, backend,
                StreamStays, SavedAtRest
  <2>5. ASSUME NEW r \in Recordings, NEW reason \in {"stalled", "device"}, WatchDecides(r, reason)
        PROVE  StreamStays /\ SavedAtRest
    BY <2>5 DEF WatchDecides, WatchOthers, StreamStays, SavedAtRest
  <2>6. ASSUME NEW r \in Recordings, WatchHandled(r) PROVE StreamStays /\ SavedAtRest
    <3>1. BeginRebuild(active, rb, watch[r].reason) \/ UNCHANGED stream
      BY <2>6 DEF WatchHandled, DeviceChangedIn
    <3>2. UNCHANGED files
      BY <2>6 DEF WatchHandled, WatchOthers
    <3> QED BY <1>1, <3>1, <3>2, BeginRebuildStays DEF StreamStays, SavedAtRest
  <2>7. CASE ReportHandled
    <3>1. BeginRebuild(active, rb, report.reason) \/ UNCHANGED stream
      BY <2>7 DEF ReportHandled, DeviceChangedIn
    <3>2. UNCHANGED files
      BY <2>7 DEF ReportHandled
    <3> QED BY <1>1, <3>1, <3>2, BeginRebuildStays DEF StreamStays, SavedAtRest
  <2>8. ASSUME StreamDelivers \/ ReportLatches
                \/ \E reason \in {"device", "service"} : DeviceChanges(reason)
        PROVE  StreamStays /\ SavedAtRest
    <3>1. stream \in StreamType
      BY <1>1, ReportTypes DEF IInv
    <3> QED BY <2>8, <3>1 DEF StreamDelivers, ReportLatches, DeviceChanges, StreamStays, StreamType,
                              SavedAtRest
  <2>9. ASSUME NEW g \in Generations, Rebuilds(g) PROVE StreamStays /\ SavedAtRest
    BY <1>1, <2>9, RebuildStreams DEF SavedAtRest
  <2>10. CASE UNCHANGED vars
    BY <2>10 DEF vars, backend, StreamStays, SavedAtRest
  <2> QED BY <1>1, <2>1, <2>2, <2>3, <2>4, <2>5, <2>6, <2>7, <2>8, <2>9, <2>10 DEF Next
<1>2. StreamStays /\ SavedAtRest =>
        [/\ stream # NoStream /\ stream' # NoStream => stream.recording = stream'.recording
                                                  /\ (stream.delivering => stream'.delivering)
         /\ \A r \in Recordings : files[r] = "open" /\ files'[r] = "saved" =>
              /\ stream = NoStream /\ running[r] = "no" /\ writer[r] = "ended"
              /\ \A g \in Generations : rb[g].recording = r => rb[g].pc \in {"ended", "finishing"}
        ]_vars
  BY DEF StreamStays, SavedAtRest
<1> QED BY <1>1, <1>2, Invariant, PTL DEF Spec, StreamsAreStoppedFirst
=============================================================================
