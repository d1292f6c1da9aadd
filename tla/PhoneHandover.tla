---------------------------- MODULE PhoneHandover ----------------------------
(***************************************************************************)
(* The computer's end of the hand-over of one phone recording              *)
(* (steno-handover: engine/mod.rs, engine/recording.rs, upload/inbox.rs)   *)
(* with the intake's store step (steno-pipeline intake.rs, steno-core      *)
(* store/handover.rs).                                                     *)
(*                                                                         *)
(* Phones send requests for one recording id, several at once; a request   *)
(* is a process that stops at every await.  The receipt lives in memory    *)
(* and in the store, whose writes go in line; the inbox holds a partial, a *)
(* metadata sidecar and a verified file.  A phone may hang up, a store     *)
(* write may fail, a device be revoked and paired again, a meeting be      *)
(* deleted, the computer crash or lose power.                              *)
(*                                                                         *)
(* Receipts carry no times and one split, and the auth gate's read of the  *)
(* device is one step with the handler's check.                            *)
(***************************************************************************)
EXTENDS Naturals, Sequences, FiniteSets

CONSTANTS
  Devices,
  Contents,    \* the bytes a phone may announce under the id
  Starts,      \* what <<device, content>> phones hold and which faults may happen
  Chunks,
  Requests,    \* the requests the computer serves at once
  None,
  MaxFaults    \* how many of them in all

Uploads == UNION {s.phones : s \in Starts}
FaultKinds == {"revoke", "write", "intake", "crash", "hang_up"}

ASSUME HandoverAssumption ==
  /\ \A s \in Starts :
       /\ s.phones \subseteq Devices \X Contents /\ s.faults \subseteq FaultKinds
       /\ \A u, v \in s.phones : u[1] = v[1] => u = v
  /\ None \notin Devices \cup Contents \cup Requests
  /\ MaxFaults \in Nat

VARIABLES
  mem,         \* the receipt memory holds, or None
  revoked,     \* devices revoked since start and not paired again
  completing,  \* the request with the `completing` mark, or None
  line,        \* the store writes, in the order memory changed
  partial, sidecar, verified,  \* the inbox files, or None
  row,         \* the stored receipt, or None
  safe,        \* the store's receipt and ledger that a power loss leaves
  paired,      \* the devices with a row
  ledger,      \* what became of each content: no admission, a meeting, a deleted one
  reqs,        \* the requests
  strays,      \* chunk writes whose request is gone
  discards,    \* revokes that have still to discard their files
  phones,      \* whether each phone still holds its copy
  faults       \* what may go wrong, and what did

memory  == <<mem, revoked, line>>
files   == <<partial, sidecar, verified>>
store   == <<row, safe, paired, ledger>>
outside == <<strays, discards, phones, faults>>
vars    == <<memory, completing, files, store, reqs, outside>>

States == {"receiving", "verifying", "failed", "complete"}
Fates == {"none", "kept", "deleted"}
Receipts == [dev : Devices, content : Contents, state : States, chunks : SUBSET Chunks]
Data == [Chunks -> Contents \cup {None}]
\* `hashed` is what the file's SHA-256 was found to be, None when nobody looked.
Verified == [data : Data, hashed : Contents \cup {None}]
Writes ==
  [kind : {"receipt", "pair", "delete"}, dev : Devices, receipt : Receipts \cup {None},
   for : Requests \cup {None}]

ASSUME NoneAssumption == None \notin Receipts \cup Data

Awaits == {"fetch", "ledger", "saving", "writing", "hash"}
Steps == Awaits \cup
  {"idle", "decide", "remember", "replace", "opened", "resume", "reopened", "resumed",
   "written", "verify", "missing", "open", "conflict", "verifying", "hashed", "damaged", "promote",
   "intake", "commit", "admitted", "finish", "refused", "stays", "paired", "answer"}

\* A request: its route and device, where it is, the receipt it read, the
\* state of the partial it opened, and its admission.
Request ==
  [op : {"none", "announce", "status", "chunk", "complete", "pair"},
   dev : Devices \cup {None}, content : Contents \cup {None}, chunk : Chunks \cup {None},
   pc : Steps, then : Steps, got : Receipts \cup {None}, ok : BOOLEAN, since : BOOLEAN,
   file : {"closed", "open", "replaced"}, meta : Contents \cup {None},
   copied : Verified \cup {None}, heard : BOOLEAN]

Idle ==
  [op |-> "none", dev |-> None, content |-> None, chunk |-> None, pc |-> "idle",
   then |-> "idle", got |-> None, ok |-> TRUE, since |-> FALSE, file |-> "closed",
   meta |-> None, copied |-> None, heard |-> TRUE]

TypeOK ==
  /\ mem \in Receipts \cup {None}
  /\ revoked \subseteq Devices
  /\ completing \in Requests \cup {None}
  /\ line \in Seq(Writes)
  /\ partial \in Data \cup {None}
  /\ sidecar \in Contents \cup {None}
  /\ verified \in Verified \cup {None}
  /\ row \in Receipts \cup {None}
  /\ paired \subseteq Devices
  /\ ledger \in [Contents -> Fates]
  /\ safe \in [row : Receipts \cup {None}, ledger : [Contents -> Fates]]
  /\ reqs \in [Requests -> Request]
  /\ strays \subseteq Contents \X Chunks
  /\ discards \subseteq Devices
  /\ phones \in [Uploads -> {"held", "gone"}]
  /\ faults \in [may : SUBSET FaultKinds, met : SUBSET FaultKinds]

Init ==
  /\ mem = None /\ revoked = {} /\ completing = None /\ line = << >>
  /\ partial = None /\ sidecar = None /\ verified = None
  /\ row = None /\ paired = Devices
  /\ ledger = [b \in Contents |-> "none"]
  /\ safe = [row |-> row, ledger |-> ledger]
  /\ reqs = [r \in Requests |-> Idle]
  /\ strays = {} /\ discards = {}
  /\ \E s \in Starts :
       /\ phones = [u \in Uploads |-> IF u \in s.phones THEN "held" ELSE "gone"]
       /\ faults = [may |-> s.faults, met |-> {}]

-----------------------------------------------------------------------------
(* The store, memory and the inbox.                                         *)

MayFail(kind) == kind \in faults.may \ faults.met /\ Cardinality(faults.met) < MaxFaults
Fault(kind) ==
  /\ MayFail(kind)
  /\ faults' = [faults EXCEPT !.met = @ \cup {kind}]

\* What the store's receipt reads as, with the admission ledger.
Stored(r) ==
  IF r = None THEN None
  ELSE IF ledger[r.content] # "none" THEN [r EXCEPT !.state = "complete"]
  ELSE IF r.state = "complete" THEN [r EXCEPT !.state = "failed"]
  ELSE r

\* A durable commit is on disk; after another the log may have been
\* checkpointed with it, which matters only while a crash is to come.
Now == [row |-> row, ledger |-> ledger]
Logged == safe' \in IF MayFail("crash") THEN {safe, Now'} ELSE {Now'}

\* Mutant of SameUpload: any receipt of the id.
SameIdOnly(held, read) == TRUE

SameUpload(held, read) == held.dev = read.dev /\ held.content = read.content
HoldsAnothers(d) == mem # None /\ mem.dev # d
Remembered(receipt) == IF receipt.dev \in revoked THEN mem ELSE receipt

Blank == [c \in Chunks |-> None]
Whole(data, b) == \A c \in Chunks : data[c] = b

\* A partial that goes is another file than the one a verify has open.
Closed(rs) == [q \in Requests |-> IF rs[q].file = "open" THEN [rs[q] EXCEPT !.file = "replaced"]
                                                      ELSE rs[q]]
NoFiles == partial' = None /\ sidecar' = None /\ verified' = None

\* A request goes on at `pc`.
At(r, pc) == reqs[r].pc = pc
Goes(r, pc) == reqs' = [reqs EXCEPT ![r].pc = pc]
Over(rs, r) == [rs EXCEPT ![r] = Idle]
Unmark(r) == completing' = IF completing = r THEN None ELSE completing
Answer(r) == reqs' = Over(reqs, r) /\ Unmark(r)

\* The files of `d`'s recording go, unless memory holds another device's
\* receipt of it; `rs` is where the requests go.
DiscardOwn(d, rs) ==
  IF HoldsAnothers(d)
  THEN reqs' = rs /\ UNCHANGED files
  ELSE reqs' = Closed(rs) /\ NoFiles

\* Mutant of Change: the save goes ahead of the line.
ChangeOutOfLine(r, receipt, then, rs) ==
  /\ mem' = Remembered(receipt)
  /\ line' = <<[kind |-> "receipt", dev |-> receipt.dev, receipt |-> receipt, for |-> r]>> \o line
  /\ reqs' = [rs EXCEPT ![r].pc = "saving", ![r].then = then, ![r].got = receipt]

\* Memory changes and the save takes its place in line, under one guard; the
\* request waits for the save and goes on at `then`.
Change(r, receipt, then, rs) ==
  /\ mem' = Remembered(receipt)
  /\ line' = Append(line, [kind |-> "receipt", dev |-> receipt.dev, receipt |-> receipt, for |-> r])
  /\ reqs' = [rs EXCEPT ![r].pc = "saving", ![r].then = then, ![r].got = receipt]

\* A change of the receipt the request read: of memory's copy, of its own
\* when memory holds none, and none when memory holds another upload or has
\* it complete.
Update(r, state, emptied, then) ==
  LET got == reqs[r].got
      base == IF mem = None THEN got ELSE mem
  IN \/ /\ mem # None
        /\ ~SameUpload(mem, got)
        /\ reqs' = [reqs EXCEPT ![r].pc = then, ![r].ok = TRUE]
        /\ UNCHANGED <<mem, line>>
     \/ /\ mem # None
        /\ SameUpload(mem, got) /\ mem.state = "complete"
        /\ reqs' = [reqs EXCEPT ![r].pc = then, ![r].ok = TRUE, ![r].got = mem]
        /\ UNCHANGED <<mem, line>>
     \/ /\ mem # None => SameUpload(mem, got) /\ mem.state # "complete"
        /\ Change(r, [base EXCEPT !.state = IF state = "same" THEN @ ELSE state,
                                  !.chunks = IF emptied THEN {} ELSE @], then, reqs)

-----------------------------------------------------------------------------
(* A request's receipt.                                                     *)

\* A request of a paired device that is not revoked; memory's receipt is read
\* at once, the store's after an await.
Ask(r, op, u, c) ==
  /\ At(r, "idle")
  /\ phones[u] = "held"
  /\ u[1] \in paired \ revoked
  /\ reqs' = [reqs EXCEPT ![r] =
       [Idle EXCEPT !.op = op, !.dev = u[1], !.content = u[2], !.chunk = c, !.got = mem,
                    !.pc = IF mem = None THEN "fetch" ELSE "decide"]]
  /\ UNCHANGED <<memory, completing, files, store, outside>>

Fetch(r) ==
  /\ At(r, "fetch")
  /\ reqs' = [reqs EXCEPT ![r].got = Stored(row),
                          ![r].pc = IF row = None THEN "decide" ELSE "remember"]
  /\ UNCHANGED <<memory, completing, files, store, outside>>

\* Memory wins over what was read from the store.
Remember(r) ==
  /\ At(r, "remember")
  /\ mem' = IF mem = None THEN Remembered(reqs[r].got) ELSE mem
  /\ reqs' = [reqs EXCEPT ![r].got = IF mem = None THEN @ ELSE mem, ![r].pc = "decide"]
  /\ UNCHANGED <<revoked, line, completing, files, store, outside>>

Decides(r, op) == At(r, "decide") /\ reqs[r].op = op
Owned(r) == reqs[r].got # None /\ reqs[r].got.dev = reqs[r].dev

Status(r) ==
  /\ Decides(r, "status")
  /\ Answer(r)
  /\ UNCHANGED <<memory, files, store, outside>>

-----------------------------------------------------------------------------
(* announce                                                                 *)

SameBytes(r) == reqs[r].got # None /\ reqs[r].got.content = reqs[r].content
\* Memory holds another receipt than the announce read: it decides again.
Changed(r) == mem # None /\ mem # reqs[r].got
DecideAgain(r) ==
  /\ reqs' = [reqs EXCEPT ![r].got = mem, ![r].pc = "decide"]
  /\ UNCHANGED <<mem, line>>

Announce(r) ==
  /\ Decides(r, "announce")
  /\ \/ /\ ~SameBytes(r)
        /\ Goes(r, "ledger")
        /\ UNCHANGED <<memory, completing>>
     \/ /\ SameBytes(r) /\ Owned(r) /\ reqs[r].got.state = "complete"
        /\ Answer(r)
        /\ UNCHANGED memory
     \/ /\ SameBytes(r) /\ Owned(r) /\ reqs[r].got.state # "complete"
        /\ Goes(r, "resume")
        /\ UNCHANGED <<memory, completing>>
  /\ UNCHANGED <<files, store, outside>>

\* The same bytes from another device: the receipt becomes its own.
TakeOver(r) ==
  LET taken == [reqs[r].got EXCEPT !.dev = reqs[r].dev]
  IN /\ Decides(r, "announce") /\ SameBytes(r) /\ ~Owned(r)
     /\ \/ Changed(r) /\ DecideAgain(r)
        \/ /\ ~Changed(r)
           /\ Change(r, taken, IF taken.state = "complete" THEN "answer" ELSE "resume", reqs)
     /\ UNCHANGED <<revoked, completing, files, store, outside>>

\* Bytes the receipt does not hold: the admission ledger is read.
ReadLedger(r) ==
  /\ At(r, "ledger")
  /\ reqs' = [reqs EXCEPT ![r].ok = (ledger[reqs[r].content] = "none"), ![r].pc = "replace"]
  /\ UNCHANGED <<memory, completing, files, store, outside>>

\* Mutant of OpenFiles: the verified file of other bytes stays.
OpenFilesOverOld(q, admitted) ==
  /\ verified' = verified
  /\ partial' = IF admitted THEN None ELSE Blank
  /\ sidecar' = IF admitted THEN None ELSE q.content

\* The files of a fresh receipt: those of other bytes go, a partial opens
\* unless the bytes are admitted.
OpenFiles(q, admitted) ==
  /\ verified' = None
  /\ partial' = IF admitted THEN None ELSE Blank
  /\ sidecar' = IF admitted THEN None ELSE q.content

\* make_and_open, under the files lock: a fresh receipt takes the read one's
\* place, complete when the ledger had the bytes, and the files start over
\* unless memory did not keep it (the device is revoked).  Admitted bytes
\* over another device's unfinished upload are refused.
Replace(r) ==
  LET q == reqs[r]
      admitted == ~q.ok
      refused == admitted /\ q.got # None /\ q.got.state # "complete" /\ q.got.dev # q.dev
      fresh == [dev |-> q.dev, content |-> q.content, chunks |-> {},
                state |-> IF admitted THEN "complete" ELSE "receiving"]
  IN /\ At(r, "replace")
     /\ \/ /\ refused
           /\ Answer(r)
           /\ UNCHANGED <<mem, line, files>>
        \/ /\ ~refused /\ Changed(r)
           /\ DecideAgain(r)
           /\ UNCHANGED <<completing, files>>
        \/ /\ ~refused /\ ~Changed(r)
           /\ LET ours == Remembered(fresh) # None /\ Remembered(fresh).dev = q.dev
              IN IF ours
                 THEN /\ Change(r, fresh, "opened", Closed(reqs))
                      /\ OpenFiles(q, admitted)
                 ELSE Change(r, fresh, "answer", reqs) /\ UNCHANGED files
           /\ UNCHANGED completing
     /\ UNCHANGED <<revoked, store, outside>>

\* The save is back.  Without it the files go again; a revoked device opened none.
Opened(r) ==
  /\ At(r, "opened")
  /\ Unmark(r)
  /\ IF ~reqs[r].ok
     THEN DiscardOwn(reqs[r].dev, Over(reqs, r))
     ELSE reqs' = Over(reqs, r) /\ UNCHANGED files
  /\ UNCHANGED <<memory, store, outside>>

\* The owner's re-announce: missing files are opened again, unless a
\* verified one waits for its second intake.
Resume(r) ==
  LET q == reqs[r]
      there == verified # None \/ (partial # None /\ sidecar # None)
  IN /\ At(r, "resume")
     /\ \/ /\ q.dev \in revoked
           /\ Answer(r)
           /\ UNCHANGED files
        \/ /\ q.dev \notin revoked
           /\ partial' = IF there \/ partial # None THEN partial ELSE Blank
           /\ sidecar' = IF there THEN sidecar ELSE q.content
           /\ reqs' = [reqs EXCEPT ![r].pc = "reopened", ![r].ok = there]
           /\ UNCHANGED <<verified, completing>>
     /\ UNCHANGED <<memory, store, outside>>

Reopened(r) ==
  /\ At(r, "reopened")
  /\ Update(r, "receiving", ~reqs[r].ok, "resumed")
  /\ UNCHANGED <<revoked, completing, files, store, outside>>

\* Admitted meanwhile: the files just opened go.
Resumed(r) ==
  /\ At(r, "resumed")
  /\ Unmark(r)
  /\ IF reqs[r].ok /\ reqs[r].got.state = "complete"
     THEN DiscardOwn(reqs[r].dev, Over(reqs, r))
     ELSE reqs' = Over(reqs, r) /\ UNCHANGED files
  /\ UNCHANGED <<memory, store, outside>>

-----------------------------------------------------------------------------
(* receive_chunk                                                            *)

Chunk(r) ==
  LET q == reqs[r]
      written == Owned(r) /\ (q.got.state = "complete" \/ q.chunk \in q.got.chunks)
  IN /\ Decides(r, "chunk")
     /\ IF ~Owned(r) \/ written \/ partial = None
        THEN Answer(r)
        ELSE Goes(r, "writing") /\ UNCHANGED completing
     /\ UNCHANGED <<memory, files, store, outside>>

\* On the blocking pool, to whatever partial is at the path.
WriteChunk(r) ==
  LET q == reqs[r]
  IN /\ At(r, "writing")
     /\ IF partial = None
        THEN Answer(r) /\ UNCHANGED partial
        ELSE /\ partial' = [partial EXCEPT ![q.chunk] = q.content]
             /\ Goes(r, "written")
             /\ UNCHANGED completing
     /\ UNCHANGED <<memory, sidecar, verified, store, outside>>

\* add_chunk: the chunk is folded into the receipt as it stands now.
AddChunk(r) ==
  LET q == reqs[r]
      held == mem # None /\ SameUpload(mem, q.got)
  IN /\ At(r, "written")
     /\ IF ~held \/ mem.state = "complete"
        THEN Answer(r) /\ UNCHANGED <<mem, line>>
        ELSE /\ Change(r, [mem EXCEPT !.state = "receiving", !.chunks = @ \cup {q.chunk}],
                       "answer", reqs)
             /\ UNCHANGED completing
     /\ UNCHANGED <<revoked, files, store, outside>>

-----------------------------------------------------------------------------
(* complete                                                                 *)

\* The phone has its 200, unless the answer is lost, and drops its copy.
Delivered(r) ==
  LET u == <<reqs[r].dev, reqs[r].content>>
  IN \/ UNCHANGED phones
     \/ reqs[r].heard /\ phones' = [phones EXCEPT ![u] = "gone"]

\* A complete receipt answers 200, also to a device revoked since, which
\* forgets it.  Else: 401 to a device revoked since, whose files go, 409
\* while another `complete` holds the mark, 404 without the sidecar.
Complete(r) ==
  LET q == reqs[r]
      forgets == q.since /\ ~HoldsAnothers(q.dev)
  IN /\ Decides(r, "complete")
     /\ \/ /\ ~Owned(r)
           /\ Answer(r)
           /\ UNCHANGED <<mem, files, phones>>
        \/ /\ Owned(r) /\ q.got.state = "complete"
           /\ mem' = IF forgets THEN None ELSE mem
           /\ Answer(r) /\ Delivered(r)
           /\ UNCHANGED files
        \/ /\ Owned(r) /\ q.got.state # "complete" /\ q.since
           /\ Unmark(r)
           /\ IF forgets
              THEN mem' = None /\ NoFiles /\ reqs' = Over(Closed(reqs), r)
              ELSE reqs' = Over(reqs, r) /\ UNCHANGED <<mem, files>>
           /\ UNCHANGED phones
        \/ /\ Owned(r) /\ q.got.state # "complete" /\ ~q.since
           /\ IF completing # None \/ sidecar = None
              THEN Answer(r)
              ELSE /\ completing' = r
                   /\ reqs' = [reqs EXCEPT ![r].pc = "verify", ![r].meta = sidecar]
           /\ UNCHANGED <<mem, files, phones>>
     /\ UNCHANGED <<revoked, line, store, strays, discards, faults>>

\* A verified file that waits goes to the intake; a missing partial empties
\* the chunk set; missing chunks are a 409; else the partial is opened and
\* the receipt set to `verifying`.
Verify(r) ==
  LET q == reqs[r]
  IN /\ At(r, "verify")
     /\ \/ /\ verified # None
           /\ Goes(r, "intake")
           /\ UNCHANGED <<mem, line, completing>>
        \/ /\ verified = None /\ partial = None
           /\ Update(r, "same", TRUE, "missing")
           /\ UNCHANGED completing
        \/ /\ verified = None /\ partial # None /\ q.got.chunks # Chunks
           /\ Answer(r)
           /\ UNCHANGED <<mem, line>>
        \/ /\ verified = None /\ partial # None /\ q.got.chunks = Chunks
           /\ reqs' = [reqs EXCEPT ![r].pc = "open", ![r].file = "open"]
           /\ UNCHANGED <<mem, line, completing>>
     /\ UNCHANGED <<revoked, files, store, outside>>

\* No partial: 409, or 200 when another `complete` admitted it meanwhile.
Missing(r) ==
  /\ At(r, "missing")
  /\ Answer(r)
  /\ IF reqs[r].got.state = "complete" THEN Delivered(r) ELSE UNCHANGED phones
  /\ UNCHANGED <<memory, files, store, strays, discards, faults>>

SetVerifying(r) ==
  /\ At(r, "open")
  /\ Update(r, "verifying", FALSE, "verifying")
  /\ UNCHANGED <<revoked, completing, files, store, outside>>

Verifying(r) ==
  /\ At(r, "verifying")
  /\ IF reqs[r].got.state = "complete"
     THEN Answer(r) /\ Delivered(r)
     ELSE Goes(r, "hash") /\ UNCHANGED <<completing, phones>>
  /\ UNCHANGED <<memory, files, store, strays, discards, faults>>

\* The open file is hashed, on the blocking pool.
Hash(r) ==
  /\ At(r, "hash")
  /\ reqs' = [reqs EXCEPT ![r].pc = "hashed",
       ![r].ok = (reqs[r].file = "open" /\ Whole(partial, reqs[r].got.content))]
  /\ UNCHANGED <<memory, completing, files, store, outside>>

\* The answers of a verify: 401 without a write to a device revoked since, a
\* 409 and an empty chunk set when the partial was replaced, 422 when the
\* bytes are others.
Hashed(r) ==
  LET q == reqs[r]
  IN /\ At(r, "hashed")
     /\ \/ /\ q.since
           /\ Unmark(r)
           /\ IF q.dev \in revoked THEN DiscardOwn(q.dev, Over(reqs, r))
                                   ELSE reqs' = Over(reqs, r) /\ UNCHANGED files
           /\ UNCHANGED <<mem, line>>
        \/ /\ ~q.since /\ q.file = "replaced"
           /\ Update(r, "receiving", TRUE, "conflict")
           /\ UNCHANGED <<completing, files>>
        \/ /\ ~q.since /\ q.file = "open" /\ ~q.ok
           /\ DiscardOwn(q.dev, [reqs EXCEPT ![r].pc = "damaged"])
           /\ UNCHANGED <<mem, line, completing>>
        \/ /\ ~q.since /\ q.file = "open" /\ q.ok
           /\ Goes(r, "promote")
           /\ UNCHANGED <<mem, line, completing, files>>
     /\ UNCHANGED <<revoked, store, outside>>

Damaged(r) ==
  /\ At(r, "damaged")
  /\ Update(r, "failed", TRUE, "conflict")
  /\ UNCHANGED <<revoked, completing, files, store, outside>>

Conflict(r) ==
  /\ At(r, "conflict")
  /\ Answer(r)
  /\ UNCHANGED <<memory, files, store, outside>>

\* The rename; a file moved in the hashed one's place goes.
Promote(r) ==
  LET q == reqs[r]
  IN /\ At(r, "promote")
     /\ \/ /\ partial = None
           /\ Answer(r)
           /\ UNCHANGED <<mem, line, partial, verified>>
        \/ /\ partial # None /\ q.file = "open"
           /\ partial' = None
           /\ verified' = [data |-> partial, hashed |-> q.got.content]
           /\ reqs' = [reqs EXCEPT ![r].pc = "intake", ![r].file = "closed"]
           /\ UNCHANGED <<mem, line, completing>>
        \/ /\ partial # None /\ q.file = "replaced"
           /\ partial' = None /\ verified' = None
           /\ Update(r, "receiving", TRUE, "conflict")
           /\ UNCHANGED completing
     /\ UNCHANGED <<revoked, sidecar, store, outside>>

-----------------------------------------------------------------------------
(* The admission, in a task of its own that holds the mark.                 *)

Row(dev, content, state, chunks) ==
  [dev |-> dev, content |-> content, state |-> state, chunks |-> chunks]
Another(r) == row # None /\ (row.dev # reqs[r].dev \/ row.content # reqs[r].meta)

\* The intake's reads and its copy of the file.  Another upload's row is
\* refused, an admitted one answered; a copy may fail.
Intake(r) ==
  LET q == reqs[r]
      answered == row # None /\ row.state = "complete" /\ ledger[row.content] = "kept"
  IN /\ At(r, "intake")
     /\ \/ /\ Another(r) \/ (~answered /\ verified = None)
           /\ Goes(r, "refused")
           /\ UNCHANGED faults
        \/ /\ ~Another(r) /\ answered
           /\ Goes(r, "admitted")
           /\ UNCHANGED faults
        \/ /\ ~Another(r) /\ ~answered /\ verified # None
           /\ \/ /\ reqs' = [reqs EXCEPT ![r].pc = "commit", ![r].copied = verified]
                 /\ UNCHANGED faults
              \/ /\ Fault("intake")
                 /\ Goes(r, "refused")
     /\ UNCHANGED <<memory, completing, files, store, strays, discards, phones>>

\* One durable transaction: the receipt complete with, unless the ledger
\* has a meeting of these bytes, the meeting and its ledger row.  The device
\* must still have a row.
Commits(r) ==
  LET q == reqs[r]
  IN /\ row' = Row(q.dev, q.meta, "complete", IF row = None THEN {} ELSE row.chunks)
     /\ ledger' = [ledger EXCEPT ![q.meta] = "kept"]
     /\ safe' = Now'
     /\ verified' = None
     /\ reqs' = [reqs EXCEPT ![r].pc = "admitted", ![r].copied = None]
     /\ UNCHANGED faults

\* A failed commit leaves the receipt failed.
CommitFails(r) ==
  LET q == reqs[r]
  IN /\ Fault("intake")
     /\ row' = Row(q.dev, q.meta, "failed", IF row = None THEN {} ELSE row.chunks)
     /\ UNCHANGED <<ledger, verified>>
     /\ safe' = Now'
     /\ Goes(r, "refused")

Commit(r) ==
  LET refused == Another(r) \/ reqs[r].dev \notin paired
  IN /\ At(r, "commit")
     /\ \/ refused /\ Goes(r, "refused") /\ UNCHANGED <<row, safe, ledger, verified, faults>>
        \/ ~refused /\ (Commits(r) \/ CommitFails(r))
     /\ UNCHANGED <<memory, completing, partial, sidecar, paired, strays, discards, phones>>

Admitted(r) ==
  /\ At(r, "admitted")
  /\ Update(r, "complete", FALSE, "finish")
  /\ UNCHANGED <<revoked, completing, files, store, outside>>

\* Every file goes, only the verified one when another device announced the
\* id meanwhile, and the phone is answered 200.
Finish(r) ==
  LET d == reqs[r].dev
  IN /\ At(r, "finish")
     /\ Unmark(r) /\ Delivered(r)
     /\ IF HoldsAnothers(d)
        THEN reqs' = Over(reqs, r) /\ verified' = None /\ UNCHANGED <<partial, sidecar>>
        ELSE NoFiles /\ reqs' = Over(Closed(reqs), r)
     /\ UNCHANGED <<memory, store, strays, discards, faults>>

Refused(r) ==
  /\ At(r, "refused")
  /\ Update(r, "failed", FALSE, "stays")
  /\ UNCHANGED <<revoked, completing, files, store, outside>>

\* Mutant of Stays: a refused admission keeps the mark.
StaysMarked(r) ==
  /\ At(r, "stays")
  /\ verified' = IF mem # None /\ mem.content # reqs[r].got.content THEN None ELSE verified
  /\ reqs' = Over(reqs, r)
  /\ UNCHANGED <<memory, completing, partial, sidecar, store, outside>>

\* The verified file stays for the retry, unless memory now holds other bytes.
Stays(r) ==
  /\ At(r, "stays")
  /\ verified' = IF mem # None /\ mem.content # reqs[r].got.content THEN None ELSE verified
  /\ Answer(r)
  /\ UNCHANGED <<memory, partial, sidecar, store, outside>>

-----------------------------------------------------------------------------
(* Pairing, revoking, and the line of store writes.                         *)

\* A phone pairs again; the save has its place in line.
Pair(r, d) ==
  /\ At(r, "idle")
  /\ d \notin paired \/ d \in revoked
  /\ line' = Append(line, [kind |-> "pair", dev |-> d, receipt |-> None, for |-> r])
  /\ reqs' = [reqs EXCEPT ![r] =
       [Idle EXCEPT !.op = "pair", !.dev = d, !.pc = "saving", !.then = "paired"]]
  /\ UNCHANGED <<mem, revoked, completing, files, store, outside>>

\* Unless it was revoked during the save, the device is no longer revoked.
Paired(r) ==
  LET q == reqs[r]
  IN /\ At(r, "paired")
     /\ revoked' = IF q.ok /\ ~q.since THEN revoked \ {q.dev} ELSE revoked
     /\ Answer(r)
     /\ UNCHANGED <<mem, line, files, store, outside>>

\* Every request of the device sees the revoke, its receipt leaves memory,
\* and the delete takes its place in line, under one guard.
Revoke(d) ==
  /\ d \in paired
  /\ Fault("revoke")
  /\ revoked' = revoked \cup {d}
  /\ reqs' = [q \in Requests |-> IF reqs[q].dev = d THEN [reqs[q] EXCEPT !.since = TRUE] ELSE reqs[q]]
  /\ LET owned == mem # None /\ mem.dev = d
     IN /\ mem' = IF owned THEN None ELSE mem
        /\ discards' = IF owned /\ mem.state # "complete" THEN discards \cup {d} ELSE discards
  /\ line' = Append(line, [kind |-> "delete", dev |-> d, receipt |-> None, for |-> None])
  /\ UNCHANGED <<completing, files, store, strays, phones>>

\* The revoke's discard, under the files lock.
DiscardRevoked(d) ==
  /\ d \in discards
  /\ discards' = discards \ {d}
  /\ DiscardOwn(d, reqs)
  /\ UNCHANGED <<memory, completing, store, strays, phones, faults>>

\* The request that waits for write `w` is told how it went; with nothing
\* left to do it answers, and a takeover whose save failed answers 500.
Told(w, ok) ==
  LET q == reqs[w.for]
  IN reqs' = IF w.for = None THEN reqs
             ELSE IF q.then = "answer" \/ (q.then = "resume" /\ ~ok) THEN Over(reqs, w.for)
             ELSE [reqs EXCEPT ![w.for].pc = q.then, ![w.for].then = "idle", ![w.for].ok = ok]

\* The next write in line.  A receipt of a device without a row is refused;
\* a device's receipts go with it.  Pairings and deletes are durable.
Written ==
  LET w == Head(line)
  IN /\ line # << >>
     /\ line' = Tail(line)
     /\ CASE w.kind = "receipt" /\ w.dev \in paired ->
               row' = w.receipt /\ UNCHANGED <<ledger, paired>> /\ Logged /\ Told(w, TRUE)
          [] w.kind = "receipt" /\ w.dev \notin paired ->
               UNCHANGED store /\ Told(w, FALSE)
          [] w.kind = "pair" ->
               /\ paired' = paired \cup {w.dev} /\ UNCHANGED <<row, ledger>>
               /\ safe' = Now /\ Told(w, TRUE)
          [] w.kind = "delete" ->
               /\ paired' = paired \ {w.dev}
               /\ row' = IF row # None /\ row.dev = w.dev THEN None ELSE row
               /\ UNCHANGED ledger /\ safe' = Now' /\ Told(w, TRUE)
     /\ UNCHANGED <<mem, revoked, completing, files, outside>>

WriteFails ==
  /\ line # << >>
  /\ Fault("write")
  /\ line' = Tail(line)
  /\ Told(Head(line), FALSE)
  /\ UNCHANGED <<mem, revoked, completing, files, store, strays, discards, phones>>

-----------------------------------------------------------------------------
(* What the computer does not decide.                                       *)

InAdmission(r) == reqs[r].pc \in {"intake", "commit", "admitted", "finish", "refused", "stays"}
                  \/ (At(r, "saving") /\ reqs[r].then \in {"finish", "stays"})

\* The phone hangs up.  The request is dropped at its await; its write stays
\* in line, its chunk write runs on, and an admission goes on unheard.
HangUp(r) ==
  LET q == reqs[r]
  IN /\ Fault("hang_up")
     /\ \/ /\ InAdmission(r) /\ q.heard
           /\ reqs' = [reqs EXCEPT ![r].heard = FALSE]
           /\ UNCHANGED <<line, completing, strays>>
        \/ /\ ~InAdmission(r) /\ q.pc \in Awaits
           /\ Answer(r)
           /\ line' = [i \in DOMAIN line |-> IF line[i].for = r THEN [line[i] EXCEPT !.for = None]
                                                                ELSE line[i]]
           /\ strays' = IF q.pc = "writing" THEN strays \cup {<<q.content, q.chunk>>} ELSE strays
     /\ UNCHANGED <<mem, revoked, files, store, discards, phones>>

StrayWrite(b, c) ==
  /\ <<b, c>> \in strays
  /\ strays' = strays \ {<<b, c>>}
  /\ partial' = IF partial = None THEN None ELSE [partial EXCEPT ![c] = b]
  /\ UNCHANGED <<memory, completing, sidecar, verified, store, reqs, discards, phones, faults>>

\* The user deletes the meeting, with the receipts that name it; its ledger
\* row stays.
DeleteMeeting(b) ==
  /\ ledger[b] = "kept"
  /\ ledger' = [ledger EXCEPT ![b] = "deleted"]
  /\ row' = IF row # None /\ row.content = b /\ row.state = "complete" THEN None ELSE row
  /\ Logged
  /\ UNCHANGED <<memory, completing, files, paired, reqs, outside>>

\* A crash or a power loss, and the next start: the sweep drops the files no
\* receipt accounts for, an admitted one's and an abandoned one's.
Restart(abandoned) ==
  /\ Fault("crash")
  /\ \E kept \in {Now, safe} : row' = kept.row /\ ledger' = kept.ledger /\ safe' = kept
  /\ mem' = None /\ revoked' = {} /\ completing' = None /\ line' = << >>
  /\ reqs' = [r \in Requests |-> Idle]
  /\ strays' = {} /\ discards' = {}
  /\ IF row' = None \/ Stored(row)'.state = "complete" \/ abandoned
     THEN NoFiles
     ELSE UNCHANGED files
  /\ UNCHANGED <<paired, phones>>

-----------------------------------------------------------------------------
Handler(r) ==
  \/ Fetch(r) \/ Remember(r) \/ Status(r)
  \/ Announce(r) \/ TakeOver(r) \/ ReadLedger(r) \/ Replace(r) \/ Opened(r)
  \/ Resume(r) \/ Reopened(r) \/ Resumed(r)
  \/ Chunk(r) \/ WriteChunk(r) \/ AddChunk(r)
  \/ Complete(r) \/ Verify(r) \/ Missing(r) \/ SetVerifying(r) \/ Verifying(r)
  \/ Hash(r) \/ Hashed(r) \/ Damaged(r) \/ Conflict(r) \/ Promote(r)
  \/ Intake(r) \/ Commit(r) \/ Admitted(r) \/ Finish(r) \/ Refused(r) \/ Stays(r)
  \/ Paired(r)

Phone(r) ==
  \/ \E u \in Uploads : \E op \in {"announce", "status", "complete"} : Ask(r, op, u, None)
  \/ \E u \in Uploads, c \in Chunks : Ask(r, "chunk", u, c)
  \/ \E d \in Devices : Pair(r, d)
  \/ HangUp(r)

Computer ==
  \/ Written \/ WriteFails
  \/ \E d \in Devices : Revoke(d) \/ DiscardRevoked(d)
  \/ \E b \in Contents : DeleteMeeting(b)
  \/ \E b \in Contents, c \in Chunks : StrayWrite(b, c)
  \/ \E abandoned \in BOOLEAN : Restart(abandoned)

Next == Computer \/ \E r \in Requests : Handler(r) \/ Phone(r)

Spec == Init /\ [][Next]_vars

-----------------------------------------------------------------------------
(* Properties.                                                              *)

\* What the intake admits under an upload was hashed to be that upload,
\* while no device is revoked: no request gets an old verified file, or
\* another upload's, admitted unhashed (open_files, "`complete` would hand an
\* old verified file to the intake unhashed").
AdmittedWasHashed ==
  \A r \in Requests :
    At(r, "commit") /\ "revoke" \notin faults.met /\ ~Another(r) => reqs[r].copied.hashed = reqs[r].meta

\* ... and its bytes are still that upload's (verified_file, "so the hash is
\* of the file the intake gets").
AdmittedHoldsItsBytes ==
  \A r \in Requests :
    At(r, "commit") /\ "revoke" \notin faults.met /\ ~Another(r) => Whole(reqs[r].copied.data, reqs[r].meta)

Custody == INSTANCE Custody WITH
  holds <- {u \in Uploads : phones[u] = "held"}, meeting <- ledger

\* No phone drops its copy before the computer has the bytes for good.
IsCustody == Custody!Spec

Quiet == line = << >> /\ discards = {} /\ \A r \in Requests : ~InAdmission(r)

\* Once the line is empty the store has the receipt memory holds, or the
\* ledger knows better than memory (in_order, "an older receipt could commit
\* over a newer one").  A revoke forgets receipts whose save is on its way.
StoreFollowsMemory ==
  /\ Quiet /\ mem # None /\ row # None
  /\ faults.met \cap {"write", "revoke"} = {}
  =>
    Stored(row) \in {mem, [mem EXCEPT !.state = "complete"]}

\* The mark is that of the `complete` that is past its checks, until it ends
\* whatever becomes of it (Completing's Drop): no two admissions at once, and
\* no later `complete` answered 409 for a mark left behind.
MarkIsOfARunningComplete ==
  \A r \in Requests :
    completing = r
    <=> reqs[r].op = "complete" /\ reqs[r].pc \notin {"fetch", "remember", "decide"}
=============================================================================
