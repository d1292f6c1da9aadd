------------------------- MODULE PhoneHandoverProofs -------------------------
(***************************************************************************)
(* Proofs about PhoneHandover: types and the mark of `complete` for any    *)
(* phones, recordings, requests and faults, custody of one recording that  *)
(* any number of phones may hold, what the intake admits of it, and the    *)
(* store beside memory for one phone.                                      *)
(***************************************************************************)
EXTENDS PhoneHandover, TLAPS

-----------------------------------------------------------------------------
(* The inductive invariant.                                                 *)

Asks == {"announce", "status", "chunk", "complete"}

\* Where every route reads its receipt.
Reads == {"fetch", "remember", "decide"}

\* The steps of `complete` that are past its checks.
Completes ==
  {"verify", "missing", "open", "conflict", "verifying", "hash", "hashed", "damaged", "promote",
   "intake", "commit", "admitted", "finish", "refused", "stays"}

Saves(q, goesOn) == q.pc = "saving" /\ q.then \in goesOn

\* A request is at a step of its route, and waits for a save to go on there.
InRoute(q) ==
  /\ q.op = "none" => q.pc = "idle"
  /\ q.op = "status" => q.pc \in Reads
  /\ q.op = "chunk" => q.pc \in Reads \cup {"writing", "written"} \/ Saves(q, {"answer"})
  /\ q.op = "pair" => q.pc = "paired" \/ Saves(q, {"paired"})
  /\ q.op = "announce" =>
       \/ q.pc \in Reads \cup {"ledger", "replace", "opened", "resume", "reopened", "resumed"}
       \/ Saves(q, {"answer", "opened", "resume", "resumed"})
  /\ q.op = "complete" =>
       q.pc \in Reads \cup Completes \/ Saves(q, {"missing", "verifying", "conflict", "finish", "stays"})

\* ... for a phone's upload, with the receipt and the metadata its step needs.
Fine(q) ==
  /\ q \in Request
  /\ InRoute(q)
  /\ q.op \in Asks => <<q.dev, q.content>> \in Uploads
  /\ q.op = "pair" => q.dev \in Devices
  /\ q.op = "chunk" => q.chunk \in Chunks
  /\ q.op \in Asks /\ q.pc \notin {"fetch", "decide", "ledger", "replace"} => q.got # None
  /\ q.op = "complete" /\ q.pc \notin Reads => q.meta \in Contents

AllFine == \A r \in Requests : Fine(reqs[r])

\* A write in line is waited for by its request, and each waits for one.
Lined ==
  /\ \A i \in 1..Len(line) : line[i].for # None => reqs[line[i].for].pc = "saving"
  /\ \A i, j \in 1..Len(line) : line[i].for = line[j].for /\ line[i].for # None => i = j

Core == TypeOK /\ AllFine /\ Lined /\ MarkIsOfARunningComplete

-----------------------------------------------------------------------------
(* Steps of one request.                                                    *)

\* The types of what is neither the requests, the line nor the mark.
Plain ==
  /\ mem \in Receipts \cup {None}
  /\ revoked \subseteq Devices
  /\ partial \in Data \cup {None}
  /\ sidecar \in Contents \cup {None}
  /\ verified \in Verified \cup {None}
  /\ row \in Receipts \cup {None}
  /\ paired \subseteq Devices
  /\ ledger \in [Contents -> Fates]
  /\ safe \in [row : Receipts \cup {None}, ledger : [Contents -> Fates]]
  /\ strays \subseteq Contents \X Chunks
  /\ discards \subseteq Devices
  /\ phones \in [Uploads -> {"held", "gone"}]
  /\ faults \in [may : SUBSET FaultKinds, met : SUBSET FaultKinds]

Marked(q) == q.op = "complete" /\ q.pc \notin Reads

\* A request that only saw its file replaced, or a revoke.
Like(p, q) ==
  /\ p \in Request
  /\ p.op = q.op /\ p.dev = q.dev /\ p.content = q.content /\ p.chunk = q.chunk
  /\ p.pc = q.pc /\ p.then = q.then /\ p.got = q.got /\ p.ok = q.ok /\ p.meta = q.meta

\* Request r moves, to where its route allows, and its save joins the line.
Moves(r) ==
  /\ reqs' = [s \in Requests |-> reqs'[s]]
  /\ \A s \in Requests : s # r => Like(reqs'[s], reqs[s])
  /\ Fine(reqs'[r])
  /\ reqs[r].pc # "saving"

Joins(r) ==
  \/ line' = line
  \/ \E w \in Writes : w.for = r /\ line' = Append(line, w) /\ reqs'[r].pc = "saving"

\* The mark is given, kept or given up with the step of r.
Marks(r) ==
  /\ completing' = r <=> Marked(reqs'[r])
  /\ completing' \in {r, completing, None}
  /\ completing \notin {r, None} => completing' = completing

\* The parts of a phone's upload.
LEMMA UploadParts ==
  ASSUME NEW u \in Uploads
  PROVE  u[1] \in Devices /\ u[2] \in Contents /\ u = <<u[1], u[2]>>
BY HandoverAssumption DEF Uploads

\* The same for the upload of a request.
LEMMA AskParts ==
  ASSUME NEW q, Fine(q), q.op \in Asks
  PROVE  q.dev \in Devices /\ q.content \in Contents
<1>1. <<q.dev, q.content>> \in Uploads
  BY DEF Fine
<1> QED
  BY <1>1, UploadParts

\* None is no request, device, content, receipt or file.
LEMMA NoneIsNothing ==
  /\ None \notin Devices /\ None \notin Contents
  /\ None \notin Requests /\ None \notin Receipts /\ None \notin Data
BY HandoverAssumption, NoneAssumption

\* A request that is like a fine one is fine.
LEMMA LikeIsFine ==
  ASSUME NEW p, NEW q, Fine(q), Like(p, q)
  PROVE  Fine(p)
BY DEF Fine, Like, InRoute, Saves

\* What stands in line is a write.
LEMMA LineElements ==
  ASSUME NEW l \in Seq(Writes)
  PROVE  \A i \in 1..Len(l) : l[i] \in Writes /\ l[i].for \in Requests \cup {None}
<1>1. \A i \in 1..Len(l) : l[i] \in Writes
  OBVIOUS
<1>2. \A w \in Writes : w.for \in Requests \cup {None}
  BY DEF Writes
<1> QED
  BY <1>1, <1>2

\* The mark in terms of Marked.
LEMMA MarkIsMarked ==
  ASSUME MarkIsOfARunningComplete
  PROVE  \A r \in Requests : completing = r <=> Marked(reqs[r])
BY DEF MarkIsOfARunningComplete, Marked, Reads

\* A step of one request leaves all of them fine, and the mark right.
LEMMA StepIsFine ==
  ASSUME Core, NEW r \in Requests, reqs' = [s \in Requests |-> reqs'[s]],
         \A s \in Requests : s # r => Like(reqs'[s], reqs[s]),
         Fine(reqs'[r]), Marks(r)
  PROVE  /\ AllFine' /\ MarkIsOfARunningComplete'
         /\ reqs' \in [Requests -> Request] /\ completing' \in Requests \cup {None}
<1>1. AllFine'
  <2>1. ASSUME NEW s \in Requests, s # r
        PROVE  Fine(reqs'[s])
    BY <2>1, LikeIsFine DEF Core, AllFine
  <2> QED
    BY <2>1 DEF AllFine
<1>2. reqs' \in [Requests -> Request]
  BY <1>1 DEF AllFine, Fine
<1>3. completing' \in Requests \cup {None}
  BY DEF Marks, Core, TypeOK
<1>4. MarkIsOfARunningComplete'
  <2>1. completing' = r <=> Marked(reqs'[r])
    BY DEF Marks
  <2>2. ASSUME NEW s \in Requests, s # r
        PROVE  completing' = s <=> Marked(reqs'[s])
    <3>1. completing = s <=> Marked(reqs[s])
      BY MarkIsMarked DEF Core
    <3>2. Marked(reqs'[s]) <=> Marked(reqs[s])
      BY <2>2 DEF Like, Marked
    <3>3. completing' = s <=> completing = s
      BY <2>2, NoneIsNothing DEF Marks
    <3> QED
      BY <3>1, <3>2, <3>3
  <2> QED
    BY <2>1, <2>2 DEF MarkIsOfARunningComplete, Marked, Reads
<1> QED
  BY <1>1, <1>2, <1>3, <1>4

\* A step of one request keeps the discipline of requests, line and mark.
LEMMA StepIsCore ==
  ASSUME Core, NEW r \in Requests, Plain', Moves(r), Joins(r), Marks(r)
  PROVE  Core'
<1>1. /\ AllFine' /\ MarkIsOfARunningComplete'
      /\ reqs' \in [Requests -> Request] /\ completing' \in Requests \cup {None}
  BY StepIsFine DEF Moves
<1>2. line' \in Seq(Writes)
  BY SMTT(30) DEF Joins, Core, TypeOK
<1>3. TypeOK'
  BY <1>1, <1>2 DEF TypeOK, Plain
<1>4. Lined'
  <2>1. \A i \in 1..Len(line) : line[i] \in Writes /\ line[i].for \in Requests \cup {None}
    BY LineElements DEF Core, TypeOK
  <2>2. \A i \in 1..Len(line) : line[i].for # None => line[i].for # r /\ reqs'[line[i].for].pc = "saving"
    BY <2>1 DEF Core, Lined, Moves, Like
  <2>3. CASE line' = line
    BY <2>2, <2>3 DEF Lined, Core
  <2>4. ASSUME NEW w \in Writes, w.for = r, line' = Append(line, w), reqs'[r].pc = "saving"
        PROVE  Lined'
    <3>1. Len(line') = Len(line) + 1 /\ Len(line) \in Nat
      BY <2>4 DEF Core, TypeOK
    <3>2. line'[Len(line) + 1] = w
      BY <2>4 DEF Core, TypeOK
    <3>3. \A i \in 1..Len(line) : line'[i] = line[i]
      BY <2>4 DEF Core, TypeOK
    <3>4. ASSUME NEW i \in 1..Len(line')
          PROVE  i \in 1..Len(line) \/ i = Len(line) + 1
      BY <3>1
    <3>5. \A i \in 1..Len(line') : line'[i].for # None => reqs'[line'[i].for].pc = "saving"
      BY <2>2, <2>4, <3>2, <3>3, <3>4
    <3>6. \A i, j \in 1..Len(line') : line'[i].for = line'[j].for /\ line'[i].for # None => i = j
      BY <2>2, <2>4, <3>2, <3>3, <3>4 DEF Core, Lined
    <3> QED
      BY <3>5, <3>6 DEF Lined
  <2> QED
    BY <2>3, <2>4 DEF Joins
<1> QED
  BY <1>1, <1>3, <1>4 DEF Core

-----------------------------------------------------------------------------
(* Saves.                                                                   *)

\* The same request, at another step.
SameAsk(p, q) ==
  /\ p \in Request
  /\ p.op = q.op /\ p.dev = q.dev /\ p.content = q.content /\ p.chunk = q.chunk
  /\ p.meta = q.meta

\* Closing files leaves requests alike.
LEMMA ClosedIsLike ==
  ASSUME Core
  PROVE  /\ Closed(reqs) = [s \in Requests |-> Closed(reqs)[s]]
         /\ \A s \in Requests : Like(Closed(reqs)[s], reqs[s])
<1>1. ASSUME NEW s \in Requests
      PROVE  Like(Closed(reqs)[s], reqs[s])
  <2>1. reqs[s] \in Request
    BY DEF Core, TypeOK
  <2>2. CASE reqs[s].file = "open"
    <3>1. Closed(reqs)[s] = [reqs[s] EXCEPT !.file = "replaced"]
      BY <2>2 DEF Closed
    <3> QED
      BY <2>1, <3>1 DEF Like, Request
  <2>3. CASE reqs[s].file # "open"
    <3>1. Closed(reqs)[s] = reqs[s]
      BY <2>3 DEF Closed
    <3> QED
      BY <2>1, <3>1 DEF Like
  <2> QED
    BY <2>2, <2>3
<1> QED
  BY <1>1 DEF Closed

\* Requests left alone are alike.
LEMMA ReqsAreLike ==
  ASSUME Core
  PROVE  /\ reqs = [s \in Requests |-> reqs[s]]
         /\ \A s \in Requests : Like(reqs[s], reqs[s])
BY DEF Core, TypeOK, Like

\* A change of the receipt: memory keeps a receipt, the save joins the line
\* and the request waits for it.
LEMMA ChangeSaves ==
  ASSUME Core, NEW r \in Requests, NEW receipt \in Receipts, NEW then \in Steps,
         NEW rs, rs = [s \in Requests |-> rs[s]],
         \A s \in Requests : Like(rs[s], reqs[s]),
         Change(r, receipt, then, rs)
  PROVE  /\ mem' \in Receipts \cup {None}
         /\ reqs' = [s \in Requests |-> reqs'[s]]
         /\ \A s \in Requests : s # r => Like(reqs'[s], reqs[s])
         /\ SameAsk(reqs'[r], reqs[r])
         /\ reqs'[r].pc = "saving" /\ reqs'[r].then = then /\ reqs'[r].got = receipt
         /\ Joins(r)
<1>1. mem' \in Receipts \cup {None}
  BY DEF Change, Remembered, Core, TypeOK
<1>2. reqs' = [rs EXCEPT ![r] = [rs[r] EXCEPT !.pc = "saving", !.then = then, !.got = receipt]]
  BY DEF Change
<1>3. /\ reqs' = [s \in Requests |-> reqs'[s]]
      /\ \A s \in Requests : s # r => reqs'[s] = rs[s]
  BY <1>2
<1>4. reqs'[r] = [rs[r] EXCEPT !.pc = "saving", !.then = then, !.got = receipt]
  BY <1>2
<1>5. Like(rs[r], reqs[r])
  OBVIOUS
<1>6. SameAsk(reqs'[r], reqs[r]) /\ reqs'[r].pc = "saving" /\ reqs'[r].then = then
      /\ reqs'[r].got = receipt
  <2>1. "saving" \in Steps
    BY DEF Steps, Awaits
  <2>2. rs[r] \in Request
    BY <1>5 DEF Like
  <2>3. reqs'[r] \in Request
    BY <1>4, <2>1, <2>2 DEF Request
  <2>4. /\ reqs'[r].op = rs[r].op /\ reqs'[r].dev = rs[r].dev /\ reqs'[r].content = rs[r].content
        /\ reqs'[r].chunk = rs[r].chunk /\ reqs'[r].meta = rs[r].meta
        /\ reqs'[r].pc = "saving" /\ reqs'[r].then = then /\ reqs'[r].got = receipt
    BY <1>4, <2>2 DEF Request
  <2> QED
    BY <1>5, <2>3, <2>4 DEF Like, SameAsk
<1>7. Joins(r)
  <2> DEFINE w == [kind |-> "receipt", dev |-> receipt.dev, receipt |-> receipt, for |-> r]
  <2>1. w \in Writes /\ w.for = r
    BY DEF Writes, Receipts
  <2>2. line' = Append(line, w)
    BY DEF Change
  <2> QED
    BY <1>6, <2>1, <2>2 DEF Joins
<1> QED
  BY <1>1, <1>3, <1>6, <1>7

\* The receipt an update writes.
LEMMA UpdatedReceipt ==
  ASSUME NEW base \in Receipts, NEW state \in States \cup {"same"}, NEW emptied \in BOOLEAN
  PROVE  [base EXCEPT !.state = IF state = "same" THEN @ ELSE state,
                      !.chunks = IF emptied THEN {} ELSE @] \in Receipts
BY DEF Receipts

\* An update of the receipt: the request goes on at once, or with its save.
LEMMA UpdateGoesOn ==
  ASSUME Core, NEW r \in Requests, reqs[r].got # None,
         NEW state \in States \cup {"same"}, NEW emptied \in BOOLEAN, NEW then \in Steps,
         Update(r, state, emptied, then)
  PROVE  /\ mem' \in Receipts \cup {None}
         /\ reqs' = [s \in Requests |-> reqs'[s]]
         /\ \A s \in Requests : s # r => Like(reqs'[s], reqs[s])
         /\ SameAsk(reqs'[r], reqs[r])
         /\ reqs'[r].pc = then \/ Saves(reqs'[r], {then})
         /\ reqs'[r].got # None
         /\ Joins(r)
<1>1. reqs[r] \in Request /\ reqs[r].got \in Receipts /\ mem \in Receipts \cup {None}
      /\ None \notin Receipts
  BY NoneIsNothing DEF Core, TypeOK, Request
<1> DEFINE base == IF mem = None THEN reqs[r].got ELSE mem
           receipt == [base EXCEPT !.state = IF state = "same" THEN @ ELSE state,
                                   !.chunks = IF emptied THEN {} ELSE @]
<1>2. CASE Change(r, receipt, then, reqs)
  <2>1. base \in Receipts
    BY <1>1
  <2>2. receipt \in Receipts
    BY <2>1, UpdatedReceipt
  <2> HIDE DEF receipt
  <2> QED
    BY <1>1, <1>2, <2>2, ChangeSaves, ReqsAreLike DEF Saves
<1>3. CASE /\ mem # None
           /\ reqs' = [reqs EXCEPT ![r].pc = then, ![r].ok = TRUE]
           /\ UNCHANGED <<mem, line>>
  <2>1. reqs'[r] = [reqs[r] EXCEPT !.pc = then, !.ok = TRUE]
    BY <1>3 DEF Core, TypeOK
  <2>2. SameAsk(reqs'[r], reqs[r]) /\ reqs'[r].pc = then /\ reqs'[r].got # None
    BY <1>1, <2>1 DEF SameAsk, Request
  <2>3. /\ reqs' = [s \in Requests |-> reqs'[s]]
        /\ \A s \in Requests : s # r => reqs'[s] = reqs[s]
    BY <1>3 DEF Core, TypeOK
  <2> QED
    BY <1>1, <1>3, <2>2, <2>3, ReqsAreLike DEF Joins
<1>4. CASE /\ mem # None
           /\ reqs' = [reqs EXCEPT ![r].pc = then, ![r].ok = TRUE, ![r].got = mem]
           /\ UNCHANGED <<mem, line>>
  <2>1. reqs'[r] = [reqs[r] EXCEPT !.pc = then, !.ok = TRUE, !.got = mem]
    BY <1>4 DEF Core, TypeOK
  <2>2. SameAsk(reqs'[r], reqs[r]) /\ reqs'[r].pc = then /\ reqs'[r].got # None
    <3>1. mem \in Receipts
      BY <1>1, <1>4
    <3>2. reqs'[r] \in Request
      BY <1>1, <2>1, <3>1 DEF Request
    <3>3. /\ reqs'[r].op = reqs[r].op /\ reqs'[r].dev = reqs[r].dev
          /\ reqs'[r].content = reqs[r].content /\ reqs'[r].chunk = reqs[r].chunk
          /\ reqs'[r].meta = reqs[r].meta /\ reqs'[r].pc = then /\ reqs'[r].got = mem
      BY <1>1, <2>1 DEF Request
    <3> QED
      BY <1>4, <3>2, <3>3 DEF SameAsk
  <2>3. /\ reqs' = [s \in Requests |-> reqs'[s]]
        /\ \A s \in Requests : s # r => reqs'[s] = reqs[s]
    BY <1>4 DEF Core, TypeOK
  <2> QED
    BY <1>1, <1>4, <2>2, <2>3, ReqsAreLike DEF Joins
<1> QED
  BY <1>2, <1>3, <1>4 DEF Update

-----------------------------------------------------------------------------
(* How requests move.                                                       *)

\* A request with nothing to do.
LEMMA IdleIsFine == Fine(Idle) /\ ~Marked(Idle)
<1>1. "idle" \in Steps
  BY DEF Steps, Awaits
<1>2. Idle \in Request
  BY <1>1 DEF Idle, Request
<1> QED
  BY <1>2 DEF Idle, Fine, InRoute, Asks, Marked

\* An answered request gives its mark up.
LEMMA AnswerMoves ==
  ASSUME Core, NEW r \in Requests, reqs[r].pc # "saving",
         NEW rs, rs = [s \in Requests |-> rs[s]],
         \A s \in Requests : Like(rs[s], reqs[s]),
         reqs' = Over(rs, r), Unmark(r)
  PROVE  Moves(r) /\ Marks(r) /\ reqs'[r] = Idle
<1>1. reqs' = [s \in Requests |-> reqs'[s]] /\ reqs'[r] = Idle
      /\ \A s \in Requests : s # r => reqs'[s] = rs[s]
  BY DEF Over
<1>2. Moves(r)
  BY <1>1, IdleIsFine DEF Moves
<1>3. Marks(r)
  BY <1>1, IdleIsFine, NoneIsNothing DEF Unmark, Marks
<1> QED
  BY <1>1, <1>2, <1>3

\* The same when nothing else moves.
LEMMA PlainAnswerMoves ==
  ASSUME Core, NEW r \in Requests, reqs[r].pc # "saving", Answer(r)
  PROVE  Moves(r) /\ Marks(r) /\ reqs'[r] = Idle
BY AnswerMoves, ReqsAreLike DEF Answer

\* A request that goes on keeps its ask.
LEMMA EditMoves ==
  ASSUME Core, NEW r \in Requests, reqs[r].pc # "saving",
         NEW x, reqs' = [reqs EXCEPT ![r] = x],
         SameAsk(x, reqs[r]), InRoute(x),
         x.op \in Asks /\ x.pc \notin {"fetch", "decide", "ledger", "replace"} => x.got # None,
         x.op = "complete" /\ x.pc \notin Reads => x.meta \in Contents
  PROVE  Moves(r) /\ reqs'[r] = x
<1>1. Fine(reqs[r])
  BY DEF Core, AllFine
<1>2. Fine(x)
  BY <1>1 DEF Fine, SameAsk
<1>3. reqs' = [s \in Requests |-> reqs'[s]] /\ reqs'[r] = x
      /\ \A s \in Requests : s # r => reqs'[s] = reqs[s]
  BY DEF Core, TypeOK
<1> QED
  BY <1>2, <1>3, ReqsAreLike DEF Moves

\* A step that leaves the mark and does not pass the checks of `complete`.
LEMMA MarkStays ==
  ASSUME Core, NEW r \in Requests, completing' = completing,
         Marked(reqs'[r]) <=> Marked(reqs[r])
  PROVE  Marks(r)
BY MarkIsMarked DEF Marks, Core

\* An update in a `complete` past its checks keeps the mark.
LEMMA CompleteUpdates ==
  ASSUME Core, NEW r \in Requests, reqs[r].pc \in Completes,
         NEW state \in States \cup {"same"}, NEW emptied \in BOOLEAN,
         NEW then \in {"missing", "verifying", "conflict", "finish", "stays"},
         Update(r, state, emptied, then)
  PROVE  /\ mem' \in Receipts \cup {None}
         /\ Moves(r) /\ Joins(r)
         /\ completing' = completing => Marks(r)
<1>1. Fine(reqs[r])
  BY DEF Core, AllFine
<1>2. reqs[r].op = "complete" /\ reqs[r].pc \notin Reads /\ reqs[r].pc # "saving"
  BY <1>1 DEF Fine, InRoute, Saves, Completes, Reads, Request
<1>3. reqs[r].got # None /\ reqs[r].meta \in Contents
  BY <1>1, <1>2 DEF Fine, Asks, Completes
<1>4. then \in Steps
  BY DEF Steps
<1>5. /\ mem' \in Receipts \cup {None}
      /\ reqs' = [s \in Requests |-> reqs'[s]]
      /\ \A s \in Requests : s # r => Like(reqs'[s], reqs[s])
      /\ SameAsk(reqs'[r], reqs[r])
      /\ reqs'[r].pc = then \/ Saves(reqs'[r], {then})
      /\ reqs'[r].got # None
      /\ Joins(r)
  BY <1>3, <1>4, UpdateGoesOn
<1>6. InRoute(reqs'[r])
  BY <1>2, <1>5 DEF InRoute, SameAsk, Saves, Completes
<1>7. Fine(reqs'[r])
  BY <1>1, <1>2, <1>3, <1>5, <1>6 DEF Fine, SameAsk
<1>8. Marked(reqs'[r]) /\ Marked(reqs[r])
  BY <1>2, <1>5 DEF Marked, Reads, SameAsk, Saves
<1> QED
  BY <1>2, <1>5, <1>7, <1>8, MarkStays DEF Moves

\* Which route a step belongs to.
LEMMA RouteOf ==
  ASSUME NEW q, Fine(q)
  PROVE  /\ q.pc \in {"ledger", "replace", "opened", "resume", "reopened", "resumed"} => q.op = "announce"
         /\ q.pc \in {"writing", "written"} => q.op = "chunk"
         /\ q.pc \in Completes => q.op = "complete"
         /\ q.pc = "paired" => q.op = "pair"
         /\ q.pc \in Reads => q.op \in Asks
         /\ q.pc = "idle" => q.op = "none"
BY DEF Fine, InRoute, Saves, Completes, Reads, Asks, Request

-----------------------------------------------------------------------------
(* The receipt a request reads.                                             *)

\* The request a phone makes has the type of a request.
LEMMA AskedIsTyped ==
  ASSUME NEW op \in Asks, NEW d \in Devices, NEW b \in Contents, NEW c \in Chunks \cup {None},
         NEW got \in Receipts \cup {None}, NEW pc \in Steps
  PROVE  [Idle EXCEPT !.op = op, !.dev = d, !.content = b, !.chunk = c, !.got = got, !.pc = pc]
           \in Request
<1>1. Idle \in Request
  BY IdleIsFine DEF Fine
<1> QED
  BY <1>1 DEF Request, Asks

\* A phone may only ask for a copy it holds, with the receipt memory has.
LEMMA AskIsCore ==
  ASSUME Core, NEW r \in Requests, NEW op \in Asks,
         NEW u \in Uploads, NEW c, op = "chunk" => c \in Chunks, op # "chunk" => c = None,
         Ask(r, op, u, c)
  PROVE  Core'
<1> DEFINE x == [Idle EXCEPT !.op = op, !.dev = u[1], !.content = u[2], !.chunk = c, !.got = mem,
                             !.pc = IF mem = None THEN "fetch" ELSE "decide"]
<1>1. reqs[r].pc = "idle" /\ reqs' = [reqs EXCEPT ![r] = x]
  BY DEF Ask, At
<1>2. u[1] \in Devices /\ u[2] \in Contents /\ u = <<u[1], u[2]>>
  BY UploadParts
<1>3. /\ x.op = op /\ x.dev = u[1] /\ x.content = u[2] /\ x.chunk = c /\ x.got = mem
      /\ x.pc \in {"fetch", "decide"} /\ x.meta = None
  BY DEF Idle
<1>4. x \in Request
  <2>1. "fetch" \in Steps /\ "decide" \in Steps
    BY DEF Steps, Awaits
  <2>2. mem \in Receipts \cup {None}
    BY DEF Core, TypeOK
  <2>3. c \in Chunks \cup {None}
    OBVIOUS
  <2> QED
    BY <1>2, <2>1, <2>2, <2>3, AskedIsTyped
<1> HIDE DEF x
<1>5. Fine(x) /\ ~Marked(x)
  BY <1>2, <1>3, <1>4 DEF Fine, InRoute, Asks, Reads, Marked
<1>6. reqs' = [s \in Requests |-> reqs'[s]] /\ reqs'[r] = x
      /\ \A s \in Requests : s # r => reqs'[s] = reqs[s]
  BY <1>1 DEF Core, TypeOK
<1>7. Moves(r)
  BY <1>1, <1>5, <1>6, ReqsAreLike DEF Moves
<1>8. ~Marked(reqs[r])
  BY <1>1, RouteOf DEF Core, AllFine, Marked
<1>9. Marks(r)
  BY <1>5, <1>6, <1>8, MarkStays DEF Ask
<1>10. Plain' /\ Joins(r)
  BY DEF Ask, Plain, Joins, Core, TypeOK, memory, files, store, outside
<1> QED
  BY <1>7, <1>9, <1>10, StepIsCore

\* A request that goes on with another receipt asks the same.
LEMMA TurnsAreLike ==
  ASSUME NEW q \in Request, NEW g \in Receipts \cup {None}, NEW s \in Steps
  PROVE  SameAsk([q EXCEPT !.got = g, !.pc = s], q)
<1> DEFINE x == [q EXCEPT !.got = g, !.pc = s]
<1> HIDE DEF Steps
<1>1. x \in Request
  BY DEF Request
<1>2. x.op = q.op /\ x.dev = q.dev /\ x.content = q.content /\ x.chunk = q.chunk /\ x.meta = q.meta
  BY DEF Request
<1> QED
  BY <1>1, <1>2 DEF SameAsk

\* What the store answers is a receipt, and sends the request on its route.
LEMMA FetchIsCore ==
  ASSUME Core, NEW r \in Requests, Fetch(r)
  PROVE  Core'
<1> DEFINE x == [reqs[r] EXCEPT !.got = Stored(row), !.pc = IF row = None THEN "decide" ELSE "remember"]
<1>1. reqs[r].pc = "fetch" /\ reqs' = [reqs EXCEPT ![r] = x] /\ Fine(reqs[r])
  BY DEF Fetch, At, Core, AllFine, TypeOK
<1>2. reqs[r] \in Request /\ reqs[r].op \in Asks
  BY <1>1, RouteOf DEF Fine, Reads
<1>3. Stored(row) \in Receipts \cup {None} /\ (row # None => Stored(row) \in Receipts)
  BY DEF Stored, Core, TypeOK, Receipts, States
<1>4. /\ x.op = reqs[r].op /\ x.pc \in {"decide", "remember"} /\ x.got = Stored(row)
      /\ (x.pc = "remember" => row # None)
  BY <1>2 DEF Request
<1>5. SameAsk(x, reqs[r])
  <2> DEFINE s == IF row = None THEN "decide" ELSE "remember"
  <2>1. s \in Steps
    BY DEF Steps
  <2> HIDE DEF s
  <2>2. SameAsk([reqs[r] EXCEPT !.got = Stored(row), !.pc = s], reqs[r])
    BY <1>2, <1>3, <2>1, TurnsAreLike
  <2> QED
    BY <2>2 DEF s
<1> HIDE DEF x
<1>6. InRoute(x)
  BY <1>2, <1>4 DEF InRoute, Asks, Reads
<1>7. Moves(r) /\ reqs'[r] = x
  BY <1>1, <1>3, <1>4, <1>5, <1>6, EditMoves, NoneIsNothing DEF Reads
<1>8. Marks(r)
  BY <1>1, <1>4, <1>7, MarkStays DEF Marked, Reads, Fetch
<1>9. Plain' /\ Joins(r)
  BY DEF Fetch, Plain, Joins, Core, TypeOK, memory, files, store, outside
<1> QED
  BY <1>7, <1>8, <1>9, StepIsCore

\* After `remember` the request decides with a receipt.
LEMMA RememberIsCore ==
  ASSUME Core, NEW r \in Requests, Remember(r)
  PROVE  Core'
<1> DEFINE x == [reqs[r] EXCEPT !.got = IF mem = None THEN @ ELSE mem, !.pc = "decide"]
<1>1. reqs[r].pc = "remember" /\ reqs' = [reqs EXCEPT ![r] = x] /\ Fine(reqs[r])
  BY DEF Remember, At, Core, AllFine, TypeOK
<1>2. reqs[r] \in Request /\ reqs[r].op \in Asks
  BY <1>1, RouteOf DEF Fine, Reads
<1>3. mem \in Receipts \cup {None} /\ reqs[r].got \in Receipts \cup {None} /\ reqs[r].got # None
  BY <1>1, <1>2 DEF Core, TypeOK, Request, Fine
<1>4. x.op = reqs[r].op /\ x.pc = "decide"
  BY <1>2 DEF Request
<1>5. SameAsk(x, reqs[r])
  <2> DEFINE g == IF mem = None THEN reqs[r].got ELSE mem
  <2>1. "decide" \in Steps /\ g \in Receipts \cup {None}
    BY <1>3 DEF Steps
  <2> HIDE DEF g
  <2>2. SameAsk([reqs[r] EXCEPT !.got = g, !.pc = "decide"], reqs[r])
    BY <1>2, <2>1, TurnsAreLike
  <2> QED
    BY <2>2 DEF g
<1> HIDE DEF x
<1>6. InRoute(x)
  BY <1>2, <1>4 DEF InRoute, Asks, Reads
<1>7. Moves(r) /\ reqs'[r] = x
  BY <1>1, <1>4, <1>5, <1>6, EditMoves DEF Reads
<1>8. Marks(r)
  BY <1>1, <1>4, <1>7, MarkStays DEF Marked, Reads, Remember
<1>9. mem' \in Receipts \cup {None}
  BY <1>3 DEF Remember, Remembered
<1>10. Plain' /\ Joins(r)
  BY <1>9 DEF Remember, Plain, Joins, Core, TypeOK, memory, files, store, outside
<1> QED
  BY <1>7, <1>8, <1>10, StepIsCore

\* A status answers and ends.
LEMMA StatusIsCore ==
  ASSUME Core, NEW r \in Requests, Status(r)
  PROVE  Core'
<1>1. Moves(r) /\ Marks(r)
  BY PlainAnswerMoves DEF Status, Decides, At
<1>2. Plain' /\ Joins(r)
  BY DEF Status, Plain, Joins, Core, TypeOK, memory, files, store, outside
<1> QED
  BY <1>1, <1>2, StepIsCore

\* A request goes on along its route.
LEMMA GoesMoves ==
  ASSUME Core, NEW r \in Requests, reqs[r].pc # "saving", NEW pc, Goes(r, pc),
         \/ reqs[r].op \in Asks /\ pc = "decide"
         \/ reqs[r].op = "announce" /\ pc \in {"ledger", "replace"}
         \/ reqs[r].op = "announce" /\ pc \in {"opened", "resume", "reopened", "resumed"}
            /\ reqs[r].got # None
         \/ reqs[r].op = "chunk" /\ pc \in {"writing", "written"} /\ reqs[r].got # None
         \/ reqs[r].op = "complete" /\ pc \in Completes /\ reqs[r].pc \in Completes
  PROVE  /\ Moves(r)
         /\ SameAsk(reqs'[r], reqs[r])
         /\ reqs'[r].pc = pc /\ reqs'[r].got = reqs[r].got /\ reqs'[r].ok = reqs[r].ok
<1> DEFINE x == [reqs[r] EXCEPT !.pc = pc]
<1>1. Fine(reqs[r]) /\ reqs[r] \in Request
  BY DEF Core, AllFine, Fine
<1>2. pc \in Steps
  BY DEF Steps, Completes, Awaits
<1>3. /\ SameAsk(x, reqs[r]) /\ x.op = reqs[r].op
      /\ x.pc = pc /\ x.got = reqs[r].got /\ x.ok = reqs[r].ok /\ x.meta = reqs[r].meta
  BY <1>1, <1>2 DEF SameAsk, Request
<1>4. reqs' = [reqs EXCEPT ![r] = x]
  BY DEF Goes, Core, TypeOK
<1> HIDE DEF x
<1>5. InRoute(x)
  BY <1>3 DEF InRoute, Asks, Reads
<1>6. x.op \in Asks /\ x.pc \notin {"fetch", "decide", "ledger", "replace"} => x.got # None
  BY <1>1, <1>3 DEF Fine, Asks, Completes
<1>7. x.op = "complete" /\ x.pc \notin Reads => x.meta \in Contents
  BY <1>1, <1>3 DEF Fine, Reads, Completes
<1>8. Moves(r) /\ reqs'[r] = x
  BY <1>3, <1>4, <1>5, <1>6, <1>7, EditMoves
<1> QED
  BY <1>3, <1>8

-----------------------------------------------------------------------------
(* announce.                                                                *)

\* An announce answers, or goes on to the ledger or to its files.
LEMMA AnnounceIsCore ==
  ASSUME Core, NEW r \in Requests, Announce(r)
  PROVE  Core'
<1>1. /\ reqs[r].pc = "decide" /\ reqs[r].op = "announce" /\ reqs[r].pc # "saving"
      /\ reqs[r].op \in Asks
  BY DEF Announce, Decides, At, Asks
<1>2. ASSUME Answer(r)
      PROVE  Moves(r) /\ Marks(r)
  BY <1>1, <1>2, PlainAnswerMoves
<1>3. ASSUME Goes(r, "ledger"), UNCHANGED completing
      PROVE  Moves(r) /\ Marks(r)
  <2>1. Moves(r) /\ SameAsk(reqs'[r], reqs[r])
    BY <1>1, <1>3, GoesMoves
  <2> QED
    BY <1>1, <1>3, <2>1, MarkStays DEF Marked, SameAsk
<1>4. ASSUME Goes(r, "resume"), UNCHANGED completing, SameBytes(r)
      PROVE  Moves(r) /\ Marks(r)
  <2>1. Moves(r) /\ SameAsk(reqs'[r], reqs[r])
    BY <1>1, <1>4, GoesMoves DEF SameBytes
  <2> QED
    BY <1>1, <1>4, <2>1, MarkStays DEF Marked, SameAsk
<1>5. Moves(r) /\ Marks(r)
  BY <1>2, <1>3, <1>4 DEF Announce
<1>6. Plain' /\ Joins(r)
  BY DEF Announce, Plain, Joins, Core, TypeOK, memory, files, store, outside
<1> QED
  BY <1>5, <1>6, StepIsCore

\* Another decision, of memory's receipt.
LEMMA DecideAgainMoves ==
  ASSUME Core, NEW r \in Requests, reqs[r].pc # "saving", reqs[r].op = "announce",
         DecideAgain(r)
  PROVE  Moves(r) /\ Joins(r) /\ mem' = mem /\ ~Marked(reqs'[r])
         /\ reqs'[r].pc = "decide" /\ SameAsk(reqs'[r], reqs[r]) /\ reqs'[r].got = mem
<1> DEFINE x == [reqs[r] EXCEPT !.got = mem, !.pc = "decide"]
<1>1. reqs[r] \in Request /\ mem \in Receipts \cup {None} /\ "decide" \in Steps
  BY DEF Core, TypeOK, Steps
<1>2. x.op = "announce" /\ x.pc = "decide" /\ x.got = mem
  BY <1>1 DEF Request
<1>3. SameAsk(x, reqs[r])
  BY <1>1 DEF SameAsk, Request
<1>4. reqs' = [reqs EXCEPT ![r] = x]
  BY DEF DecideAgain, Core, TypeOK
<1> HIDE DEF x
<1>5. InRoute(x)
  BY <1>2 DEF InRoute, Reads
<1>6. Moves(r) /\ reqs'[r] = x
  BY <1>2, <1>3, <1>4, <1>5, EditMoves
<1> QED
  BY <1>2, <1>3, <1>6 DEF DecideAgain, Joins, Marked

\* An announce that waits for its save.
LEMMA AnnounceSaves ==
  ASSUME Core, NEW r \in Requests, reqs[r].pc # "saving", reqs[r].op = "announce",
         NEW receipt \in Receipts, NEW then \in {"answer", "opened", "resume", "resumed"},
         NEW rs, rs = [s \in Requests |-> rs[s]],
         \A s \in Requests : Like(rs[s], reqs[s]),
         Change(r, receipt, then, rs)
  PROVE  /\ mem' \in Receipts \cup {None}
         /\ Moves(r) /\ Joins(r) /\ ~Marked(reqs'[r])
<1>1. Fine(reqs[r])
  BY DEF Core, AllFine
<1>2. then \in Steps
  BY DEF Steps
<1>3. /\ mem' \in Receipts \cup {None}
      /\ reqs' = [s \in Requests |-> reqs'[s]]
      /\ \A s \in Requests : s # r => Like(reqs'[s], reqs[s])
      /\ SameAsk(reqs'[r], reqs[r])
      /\ reqs'[r].pc = "saving" /\ reqs'[r].then = then /\ reqs'[r].got = receipt
      /\ Joins(r)
  BY <1>2, ChangeSaves
<1>4. InRoute(reqs'[r])
  BY <1>3 DEF InRoute, SameAsk, Saves
<1>5. Fine(reqs'[r])
  BY <1>1, <1>3, <1>4, NoneIsNothing DEF Fine, SameAsk
<1> QED
  BY <1>3, <1>5 DEF Moves, Marked, SameAsk

\* A take-over decides again, or waits for the save of its receipt.
LEMMA TakeOverIsCore ==
  ASSUME Core, NEW r \in Requests, TakeOver(r)
  PROVE  Core'
<1>1. /\ reqs[r].pc # "saving" /\ reqs[r].op = "announce" /\ reqs[r].got # None
      /\ ~Marked(reqs[r])
  BY DEF TakeOver, Decides, At, SameBytes, Marked
<1>2. ASSUME DecideAgain(r)
      PROVE  Moves(r) /\ Joins(r) /\ mem' \in Receipts \cup {None} /\ ~Marked(reqs'[r])
  BY <1>1, <1>2, DecideAgainMoves DEF Core, TypeOK
<1>3. ASSUME ~Changed(r)
      PROVE  Moves(r) /\ Joins(r) /\ mem' \in Receipts \cup {None} /\ ~Marked(reqs'[r])
  <2> DEFINE taken == [reqs[r].got EXCEPT !.dev = reqs[r].dev]
             then == IF taken.state = "complete" THEN "answer" ELSE "resume"
  <2>1. taken \in Receipts
    <3>1. Fine(reqs[r]) /\ reqs[r] \in Request
      BY DEF Core, AllFine, Fine
    <3>2. reqs[r].dev \in Devices
      BY <1>1, <3>1, AskParts DEF Asks
    <3>3. reqs[r].got \in Receipts
      BY <1>1, <3>1 DEF Request
    <3> QED
      BY <3>2, <3>3 DEF Receipts
  <2>2. Change(r, taken, then, reqs)
    BY <1>3 DEF TakeOver
  <2>3. then \in {"answer", "opened", "resume", "resumed"}
    OBVIOUS
  <2> HIDE DEF taken, then
  <2> QED
    BY <1>1, <2>1, <2>2, <2>3, AnnounceSaves, ReqsAreLike
<1>4. Moves(r) /\ Joins(r) /\ mem' \in Receipts \cup {None} /\ ~Marked(reqs'[r])
  BY <1>2, <1>3 DEF TakeOver
<1>5. Marks(r)
  BY <1>1, <1>4, MarkStays DEF TakeOver
<1>6. Plain'
  BY <1>4 DEF TakeOver, Plain, Core, TypeOK, files, store, outside
<1> QED
  BY <1>4, <1>5, <1>6, StepIsCore

\* The ledger read leads to `make_and_open`.
LEMMA ReadLedgerIsCore ==
  ASSUME Core, NEW r \in Requests, ReadLedger(r)
  PROVE  Core'
<1> DEFINE x == [reqs[r] EXCEPT !.ok = (ledger[reqs[r].content] = "none"), !.pc = "replace"]
<1>1. reqs[r].pc = "ledger" /\ reqs' = [reqs EXCEPT ![r] = x] /\ Fine(reqs[r])
  BY DEF ReadLedger, At, Core, AllFine, TypeOK
<1>2. reqs[r] \in Request /\ reqs[r].op = "announce"
  BY <1>1, RouteOf DEF Fine
<1>3. x.op = reqs[r].op /\ x.pc = "replace"
  BY <1>2 DEF Request
<1>4. SameAsk(x, reqs[r])
  <2>1. "replace" \in Steps
    BY DEF Steps
  <2> QED
    BY <1>2, <2>1, ZenonT(30) DEF Request, SameAsk
<1> HIDE DEF x
<1>5. InRoute(x)
  BY <1>2, <1>3 DEF InRoute
<1>6. Moves(r) /\ reqs'[r] = x
  BY <1>1, <1>2, <1>3, <1>4, <1>5, EditMoves
<1>7. Marks(r)
  BY <1>2, <1>3, <1>6, MarkStays DEF Marked, ReadLedger
<1>8. Plain' /\ Joins(r)
  BY DEF ReadLedger, Plain, Joins, Core, TypeOK, memory, files, store, outside
<1> QED
  BY <1>6, <1>7, <1>8, StepIsCore

\* The files of a device go, and its request with them.
LEMMA DiscardMoves ==
  ASSUME Core, NEW r \in Requests, reqs[r].pc # "saving", NEW d,
         DiscardOwn(d, Over(reqs, r)), Unmark(r)
  PROVE  /\ Moves(r) /\ Marks(r) /\ reqs'[r] = Idle
         /\ partial' \in {partial, None} /\ sidecar' \in {sidecar, None} /\ verified' \in {verified, None}
<1>1. Over(reqs, r)[r] = Idle /\ DOMAIN Over(reqs, r) = Requests
      /\ \A s \in Requests : s # r => Over(reqs, r)[s] = reqs[s]
  BY DEF Over, Core, TypeOK
<1>2. ASSUME reqs' = Closed(Over(reqs, r))
      PROVE  Moves(r) /\ Marks(r) /\ reqs'[r] = Idle
  <2>1. reqs'[r] = Idle
    <3>1. Over(reqs, r)[r].file # "open"
      BY <1>1 DEF Idle
    <3> QED
      BY <1>1, <1>2, <3>1 DEF Closed
  <2>2. ASSUME NEW s \in Requests, s # r
        PROVE  Like(reqs'[s], reqs[s])
    <3>1. reqs'[s] = Closed(reqs)[s]
      BY <1>1, <1>2, <2>2 DEF Closed
    <3> QED
      BY <3>1, ClosedIsLike
  <2>3. reqs' = [s \in Requests |-> reqs'[s]]
    BY <1>2 DEF Closed
  <2> QED
    BY <2>1, <2>2, <2>3, IdleIsFine, NoneIsNothing DEF Moves, Marks, Unmark
<1>3. ASSUME reqs' = Over(reqs, r)
      PROVE  Moves(r) /\ Marks(r) /\ reqs'[r] = Idle
  BY <1>3, AnswerMoves, ReqsAreLike
<1> QED
  BY <1>2, <1>3 DEF DiscardOwn, NoFiles, files

\* make_and_open answers, decides again, or waits for the fresh receipt's
\* save.
LEMMA ReplaceIsCore ==
  ASSUME Core, NEW r \in Requests, Replace(r)
  PROVE  Core'
<1>1. Fine(reqs[r]) /\ reqs[r] \in Request /\ reqs[r].pc = "replace" /\ reqs[r].pc # "saving"
  BY DEF Replace, At, Core, AllFine, Fine
<1>2. reqs[r].op = "announce" /\ ~Marked(reqs[r])
  BY <1>1, RouteOf DEF Marked
<1>3. reqs[r].dev \in Devices /\ reqs[r].content \in Contents
  BY <1>1, <1>2, AskParts DEF Asks
<1> DEFINE admitted == ~reqs[r].ok
           fresh == [dev |-> reqs[r].dev, content |-> reqs[r].content, chunks |-> {},
                     state |-> IF admitted THEN "complete" ELSE "receiving"]
           Typed == /\ mem' \in Receipts \cup {None}
                    /\ partial' \in Data \cup {None} /\ sidecar' \in Contents \cup {None}
                    /\ verified' \in Verified \cup {None}
<1>4. fresh \in Receipts
  BY <1>3 DEF Receipts, States
<1>5. Blank \in Data
  BY DEF Blank, Data
<1>6. /\ mem \in Receipts \cup {None}
      /\ partial \in Data \cup {None} /\ sidecar \in Contents \cup {None}
      /\ verified \in Verified \cup {None}
  BY DEF Core, TypeOK
<1>7. CASE Answer(r) /\ UNCHANGED <<mem, line, files>>
  <2>1. Moves(r) /\ Marks(r)
    BY <1>1, <1>7, PlainAnswerMoves
  <2>2. Plain' /\ Joins(r)
    BY <1>6, <1>7 DEF Replace, Plain, Joins, Core, TypeOK, files, store, outside
  <2> QED
    BY <2>1, <2>2, StepIsCore
<1>8. CASE DecideAgain(r) /\ UNCHANGED <<completing, files>>
  <2>1. Moves(r) /\ Joins(r) /\ mem' = mem /\ ~Marked(reqs'[r])
    BY <1>1, <1>2, <1>8, DecideAgainMoves
  <2>2. Plain'
    BY <1>6, <1>8, <2>1 DEF Replace, Plain, Core, TypeOK, files, store, outside
  <2> QED
    BY <1>2, <1>8, <2>1, <2>2, MarkStays, StepIsCore
<1> HIDE DEF fresh
<1>9. CASE Change(r, fresh, "opened", Closed(reqs)) /\ OpenFiles(reqs[r], admitted) /\ UNCHANGED completing
  <2>1. mem' \in Receipts \cup {None} /\ Moves(r) /\ Joins(r) /\ ~Marked(reqs'[r])
    BY <1>1, <1>2, <1>4, <1>9, AnnounceSaves, ClosedIsLike
  <2>2. Plain'
    BY <1>3, <1>5, <1>6, <1>9, <2>1 DEF Replace, OpenFiles, Plain, Core, TypeOK, store, outside
  <2> QED
    BY <1>2, <1>9, <2>1, <2>2, MarkStays, StepIsCore
<1>10. CASE Change(r, fresh, "answer", reqs) /\ UNCHANGED <<files, completing>>
  <2>1. mem' \in Receipts \cup {None} /\ Moves(r) /\ Joins(r) /\ ~Marked(reqs'[r])
    BY <1>1, <1>2, <1>4, <1>10, AnnounceSaves, ReqsAreLike
  <2>2. Plain'
    BY <1>6, <1>10, <2>1 DEF Replace, Plain, Core, TypeOK, files, store, outside
  <2> QED
    BY <1>2, <1>10, <2>1, <2>2, MarkStays, StepIsCore
<1> QED
  BY <1>7, <1>8, <1>9, <1>10 DEF Replace, fresh

\* The end of a fresh announce, with its files or without.
LEMMA OpenedIsCore ==
  ASSUME Core, NEW r \in Requests, Opened(r)
  PROVE  Core'
<1>1. reqs[r].pc = "opened" /\ reqs[r].pc # "saving"
  BY DEF Opened, At
<1>2. CASE DiscardOwn(reqs[r].dev, Over(reqs, r))
  <2>1. /\ Moves(r) /\ Marks(r)
        /\ partial' \in {partial, None} /\ sidecar' \in {sidecar, None} /\ verified' \in {verified, None}
    BY <1>1, <1>2, DiscardMoves DEF Opened
  <2>2. Plain' /\ Joins(r)
    BY <2>1 DEF Opened, Plain, Joins, Core, TypeOK, memory, store, outside
  <2> QED
    BY <2>1, <2>2, StepIsCore
<1>3. CASE reqs' = Over(reqs, r) /\ UNCHANGED files
  <2>1. Moves(r) /\ Marks(r)
    BY <1>1, <1>3, AnswerMoves, ReqsAreLike DEF Opened
  <2>2. Plain' /\ Joins(r)
    BY <1>3 DEF Opened, Plain, Joins, Core, TypeOK, memory, files, store, outside
  <2> QED
    BY <2>1, <2>2, StepIsCore
<1> QED
  BY <1>2, <1>3 DEF Opened

\* The end of a re-announce, with its files or without.
LEMMA ResumedIsCore ==
  ASSUME Core, NEW r \in Requests, Resumed(r)
  PROVE  Core'
<1>1. reqs[r].pc = "resumed" /\ reqs[r].pc # "saving"
  BY DEF Resumed, At
<1>2. CASE DiscardOwn(reqs[r].dev, Over(reqs, r))
  <2>1. /\ Moves(r) /\ Marks(r)
        /\ partial' \in {partial, None} /\ sidecar' \in {sidecar, None} /\ verified' \in {verified, None}
    BY <1>1, <1>2, DiscardMoves DEF Resumed
  <2>2. Plain' /\ Joins(r)
    BY <2>1 DEF Resumed, Plain, Joins, Core, TypeOK, memory, store, outside
  <2> QED
    BY <2>1, <2>2, StepIsCore
<1>3. CASE reqs' = Over(reqs, r) /\ UNCHANGED files
  <2>1. Moves(r) /\ Marks(r)
    BY <1>1, <1>3, AnswerMoves, ReqsAreLike DEF Resumed
  <2>2. Plain' /\ Joins(r)
    BY <1>3 DEF Resumed, Plain, Joins, Core, TypeOK, memory, files, store, outside
  <2> QED
    BY <2>1, <2>2, StepIsCore
<1> QED
  BY <1>2, <1>3 DEF Resumed

\* A re-announce opens files of a phone's content.
LEMMA ResumeIsCore ==
  ASSUME Core, NEW r \in Requests, Resume(r)
  PROVE  Core'
<1> DEFINE there == verified # None \/ (partial # None /\ sidecar # None)
           x == [reqs[r] EXCEPT !.pc = "reopened", !.ok = there]
<1>1. reqs[r].pc = "resume" /\ reqs[r].pc # "saving" /\ Fine(reqs[r]) /\ reqs[r] \in Request
  BY DEF Resume, At, Core, AllFine, Fine
<1>2. reqs[r].op = "announce" /\ reqs[r].got # None /\ reqs[r].content \in Contents
  BY <1>1, RouteOf, AskParts DEF Fine, Asks
<1>3. CASE Answer(r) /\ UNCHANGED files
  <2>1. Moves(r) /\ Marks(r)
    BY <1>1, <1>3, PlainAnswerMoves
  <2>2. Plain' /\ Joins(r)
    BY <1>3 DEF Resume, Plain, Joins, Core, TypeOK, memory, files, store, outside
  <2> QED
    BY <2>1, <2>2, StepIsCore
<1>4. CASE /\ partial' = (IF there \/ partial # None THEN partial ELSE Blank)
           /\ sidecar' = (IF there THEN sidecar ELSE reqs[r].content)
           /\ reqs' = [reqs EXCEPT ![r].pc = "reopened", ![r].ok = there]
           /\ UNCHANGED <<verified, completing>>
  <2>1. x.op = reqs[r].op /\ x.pc = "reopened" /\ x.got = reqs[r].got
    BY <1>1 DEF Request
  <2>2. SameAsk(x, reqs[r])
    <3>1. "reopened" \in Steps /\ there \in BOOLEAN
      BY DEF Steps
    <3> QED
      BY <1>1, <3>1, ZenonT(30) DEF Request, SameAsk
  <2>3. reqs' = [reqs EXCEPT ![r] = x]
    BY <1>4 DEF Core, TypeOK
  <2>4. Plain' /\ Joins(r)
    <3>1. Blank \in Data
      BY DEF Blank, Data
    <3> QED
      BY <1>2, <1>4, <3>1 DEF Resume, Plain, Joins, Core, TypeOK, memory, store, outside
  <2> HIDE DEF x
  <2>5. InRoute(x)
    BY <1>2, <2>1 DEF InRoute
  <2>6. Moves(r) /\ reqs'[r] = x
    BY <1>1, <1>2, <2>1, <2>2, <2>3, <2>5, EditMoves
  <2>7. Marks(r)
    BY <1>2, <1>4, <2>1, <2>6, MarkStays DEF Marked
  <2> QED
    BY <2>4, <2>6, <2>7, StepIsCore
<1> QED
  BY <1>3, <1>4 DEF Resume

\* A re-announce waits for the save of its receipt, or goes on at once.
LEMMA ReopenedIsCore ==
  ASSUME Core, NEW r \in Requests, Reopened(r)
  PROVE  Core'
<1>1. reqs[r].pc = "reopened" /\ reqs[r].pc # "saving" /\ Fine(reqs[r])
  BY DEF Reopened, At, Core, AllFine
<1>2. reqs[r].op = "announce" /\ reqs[r].got # None
  BY <1>1, RouteOf DEF Fine, Asks
<1>3. "receiving" \in States \cup {"same"} /\ (~reqs[r].ok) \in BOOLEAN /\ "resumed" \in Steps
  BY DEF States, Steps
<1>4. /\ mem' \in Receipts \cup {None}
      /\ reqs' = [s \in Requests |-> reqs'[s]]
      /\ \A s \in Requests : s # r => Like(reqs'[s], reqs[s])
      /\ SameAsk(reqs'[r], reqs[r])
      /\ reqs'[r].pc = "resumed" \/ Saves(reqs'[r], {"resumed"})
      /\ reqs'[r].got # None
      /\ Joins(r)
  BY <1>2, <1>3, UpdateGoesOn DEF Reopened
<1>5. InRoute(reqs'[r])
  BY <1>2, <1>4 DEF InRoute, SameAsk, Saves
<1>6. Moves(r)
  BY <1>1, <1>2, <1>4, <1>5 DEF Moves, Fine, SameAsk
<1>7. Marks(r)
  BY <1>2, <1>4, MarkStays DEF Marked, SameAsk, Reopened
<1>8. Plain'
  BY <1>4 DEF Reopened, Plain, Core, TypeOK, files, store, outside
<1> QED
  BY <1>4, <1>6, <1>7, <1>8, StepIsCore

-----------------------------------------------------------------------------
(* receive_chunk.                                                           *)

\* A chunk is answered, or written.
LEMMA ChunkIsCore ==
  ASSUME Core, NEW r \in Requests, Chunk(r)
  PROVE  Core'
<1>1. reqs[r].pc = "decide" /\ reqs[r].pc # "saving" /\ reqs[r].op = "chunk"
  BY DEF Chunk, Decides, At
<1>2. Plain' /\ Joins(r)
  BY DEF Chunk, Plain, Joins, Core, TypeOK, memory, files, store, outside
<1>3. CASE Answer(r)
  BY <1>1, <1>2, <1>3, PlainAnswerMoves, StepIsCore
<1>4. CASE Owned(r) /\ Goes(r, "writing") /\ UNCHANGED completing
  <2>1. Moves(r) /\ SameAsk(reqs'[r], reqs[r])
    BY <1>1, <1>4, GoesMoves DEF Owned
  <2> QED
    BY <1>1, <1>2, <1>4, <2>1, MarkStays, StepIsCore DEF Marked, SameAsk
<1> QED
  BY <1>3, <1>4 DEF Chunk

\* A chunk written to the partial leaves a partial.
LEMMA WriteChunkIsCore ==
  ASSUME Core, NEW r \in Requests, WriteChunk(r)
  PROVE  Core'
<1>1. reqs[r].pc = "writing" /\ reqs[r].pc # "saving" /\ Fine(reqs[r])
  BY DEF WriteChunk, At, Core, AllFine
<1>2. reqs[r].op = "chunk" /\ reqs[r].got # None /\ reqs[r].content \in Contents
  BY <1>1, RouteOf, AskParts DEF Fine, Asks
<1>3. partial' \in Data \cup {None}
  <2>1. partial \in Data \cup {None}
    BY DEF Core, TypeOK
  <2>2. partial # None => [partial EXCEPT ![reqs[r].chunk] = reqs[r].content] \in Data
    BY <1>2, <2>1 DEF Data
  <2> QED
    BY <2>1, <2>2 DEF WriteChunk
<1>4. Plain' /\ Joins(r)
  BY <1>3 DEF WriteChunk, Plain, Joins, Core, TypeOK, memory, store, outside
<1>5. CASE Answer(r)
  BY <1>1, <1>4, <1>5, PlainAnswerMoves, StepIsCore
<1>6. CASE Goes(r, "written") /\ UNCHANGED completing
  <2>1. Moves(r) /\ SameAsk(reqs'[r], reqs[r])
    BY <1>1, <1>2, <1>6, GoesMoves
  <2> QED
    BY <1>2, <1>4, <1>6, <2>1, MarkStays, StepIsCore DEF Marked, SameAsk
<1> QED
  BY <1>5, <1>6 DEF WriteChunk

\* A counted chunk is one of the recording's.
LEMMA AddChunkIsCore ==
  ASSUME Core, NEW r \in Requests, AddChunk(r)
  PROVE  Core'
<1>1. reqs[r].pc = "written" /\ reqs[r].pc # "saving" /\ Fine(reqs[r])
  BY DEF AddChunk, At, Core, AllFine
<1>2. reqs[r].op = "chunk" /\ reqs[r].chunk \in Chunks
  BY <1>1, RouteOf DEF Fine
<1>3. CASE Answer(r) /\ UNCHANGED <<mem, line>>
  <2>1. Plain' /\ Joins(r)
    BY <1>3 DEF AddChunk, Plain, Joins, Core, TypeOK, files, store, outside
  <2> QED
    BY <1>1, <1>3, <2>1, PlainAnswerMoves, StepIsCore
<1> DEFINE receipt == [mem EXCEPT !.state = "receiving", !.chunks = @ \cup {reqs[r].chunk}]
<1>4. CASE mem # None /\ Change(r, receipt, "answer", reqs) /\ UNCHANGED completing
  <2>1. receipt \in Receipts
    <3>1. mem \in Receipts
      BY <1>4 DEF Core, TypeOK
    <3> QED
      BY <1>2, <3>1 DEF Receipts, States
  <2>2. "answer" \in Steps
    BY DEF Steps
  <2> HIDE DEF receipt
  <2>3. /\ mem' \in Receipts \cup {None}
        /\ reqs' = [s \in Requests |-> reqs'[s]]
        /\ \A s \in Requests : s # r => Like(reqs'[s], reqs[s])
        /\ SameAsk(reqs'[r], reqs[r])
        /\ reqs'[r].pc = "saving" /\ reqs'[r].then = "answer" /\ reqs'[r].got = receipt
        /\ Joins(r)
    BY <1>4, <2>1, <2>2, ChangeSaves, ReqsAreLike
  <2>4. Fine(reqs'[r])
    BY <1>1, <1>2, <2>1, <2>3, NoneIsNothing DEF Fine, SameAsk, InRoute, Saves
  <2>5. Marks(r)
    BY <1>2, <1>4, <2>3, MarkStays DEF Marked, SameAsk
  <2>6. Plain'
    BY <2>3 DEF AddChunk, Plain, Core, TypeOK, files, store, outside
  <2> QED
    BY <1>1, <2>3, <2>4, <2>5, <2>6, StepIsCore DEF Moves
<1> QED
  BY <1>3, <1>4 DEF AddChunk

-----------------------------------------------------------------------------
(* complete.                                                                *)

\* A phone may drop its copy.
LEMMA DeliveredPhones ==
  ASSUME Core, NEW r \in Requests, Delivered(r) \/ UNCHANGED phones
  PROVE  phones' \in [Uploads -> {"held", "gone"}]
BY DEF Delivered, Core, TypeOK

\* A request at a step of `complete` past its checks.
LEMMA AtComplete ==
  ASSUME Core, NEW r \in Requests, reqs[r].pc \in Completes
  PROVE  /\ Fine(reqs[r]) /\ reqs[r] \in Request
         /\ reqs[r].op = "complete" /\ Marked(reqs[r])
         /\ reqs[r].pc # "saving" /\ reqs[r].got # None /\ reqs[r].got \in Receipts
         /\ reqs[r].meta \in Contents
<1>1. Fine(reqs[r]) /\ reqs[r] \in Request
  BY DEF Core, AllFine, Fine
<1>2. reqs[r].op = "complete" /\ reqs[r].pc \notin Reads /\ reqs[r].pc # "saving"
      /\ reqs[r].pc \notin {"fetch", "decide", "ledger", "replace"}
  BY <1>1, RouteOf DEF Completes, Reads
<1> QED
  BY <1>1, <1>2 DEF Fine, Asks, Marked, Request

\* A step within `complete` keeps the mark.
LEMMA CompleteGoes ==
  ASSUME Core, NEW r \in Requests, reqs[r].pc \in Completes, NEW pc \in Completes,
         Goes(r, pc), completing' = completing
  PROVE  Moves(r) /\ Marks(r)
<1>1. reqs[r].op = "complete" /\ reqs[r].pc # "saving" /\ Marked(reqs[r])
  BY AtComplete
<1>2. Moves(r) /\ SameAsk(reqs'[r], reqs[r]) /\ reqs'[r].pc = pc
  BY <1>1, GoesMoves
<1>3. Marked(reqs'[r])
  BY <1>1, <1>2 DEF Marked, SameAsk, Completes, Reads
<1> QED
  BY <1>1, <1>2, <1>3, MarkStays

\* ... and so does one that writes down more than its place.
LEMMA CompleteEdits ==
  ASSUME Core, NEW r \in Requests, reqs[r].pc \in Completes,
         NEW x, reqs' = [reqs EXCEPT ![r] = x], SameAsk(x, reqs[r]),
         x.pc \in Completes, x.got = reqs[r].got,
         completing' = completing
  PROVE  Moves(r) /\ Marks(r)
<1>1. reqs[r].op = "complete" /\ reqs[r].pc # "saving" /\ Marked(reqs[r]) /\ reqs[r].got # None
      /\ reqs[r].meta \in Contents
  BY AtComplete
<1>2. x.op = "complete" /\ x.meta \in Contents /\ x.got # None
  BY <1>1 DEF SameAsk
<1>3. InRoute(x)
  BY <1>2 DEF InRoute
<1>4. Moves(r) /\ reqs'[r] = x
  BY <1>1, <1>2, <1>3, EditMoves
<1>5. Marked(reqs'[r])
  BY <1>2, <1>4 DEF Marked, Completes, Reads
<1> QED
  BY <1>1, <1>4, <1>5, MarkStays

\* The checks of `complete` give the mark to the request that passes them.
LEMMA CompleteIsCore ==
  ASSUME Core, NEW r \in Requests, Complete(r)
  PROVE  Core'
<1>1. /\ reqs[r].pc = "decide" /\ reqs[r].pc # "saving" /\ reqs[r].op = "complete"
      /\ ~Marked(reqs[r]) /\ Fine(reqs[r]) /\ reqs[r] \in Request
  BY DEF Complete, Decides, At, Marked, Reads, Core, AllFine, Fine
<1>2. phones' \in [Uploads -> {"held", "gone"}]
  BY DeliveredPhones DEF Complete
<1>3. Joins(r)
  BY DEF Complete, Joins
<1>4. Plain'
  BY <1>2 DEF Complete, Plain, Core, TypeOK, files, NoFiles, store
<1>5. CASE Answer(r)
  BY <1>1, <1>3, <1>4, <1>5, PlainAnswerMoves, StepIsCore
<1>6. CASE Unmark(r) /\ reqs' = Over(Closed(reqs), r)
  BY <1>1, <1>3, <1>4, <1>6, AnswerMoves, ClosedIsLike, StepIsCore
<1>7. CASE Unmark(r) /\ reqs' = Over(reqs, r)
  BY <1>1, <1>3, <1>4, <1>7, AnswerMoves, ReqsAreLike, StepIsCore
<1>8. CASE /\ Owned(r) /\ completing = None /\ sidecar # None
           /\ completing' = r
           /\ reqs' = [reqs EXCEPT ![r].pc = "verify", ![r].meta = sidecar]
  <2> DEFINE x == [reqs[r] EXCEPT !.pc = "verify", !.meta = sidecar]
  <2>1. sidecar \in Contents /\ reqs[r].got # None /\ "verify" \in Steps
    BY <1>8 DEF Core, TypeOK, Owned, Steps
  <2>2. x \in Request
    BY <1>1, <2>1 DEF Request
  <2>3. /\ x.op = "complete" /\ x.dev = reqs[r].dev /\ x.content = reqs[r].content
        /\ x.chunk = reqs[r].chunk /\ x.pc = "verify" /\ x.got = reqs[r].got /\ x.meta = sidecar
    BY <1>1 DEF Request
  <2>4. reqs' = [reqs EXCEPT ![r] = x]
    BY <1>8 DEF Core, TypeOK
  <2> HIDE DEF x
  <2>5. Fine(x)
    BY <1>1, <2>1, <2>2, <2>3 DEF Fine, InRoute, Completes
  <2>6. reqs' = [s \in Requests |-> reqs'[s]] /\ reqs'[r] = x
        /\ \A s \in Requests : s # r => reqs'[s] = reqs[s]
    BY <2>4 DEF Core, TypeOK
  <2>7. Moves(r)
    BY <1>1, <2>5, <2>6, ReqsAreLike DEF Moves
  <2>8. Marks(r)
    BY <1>8, <2>3, <2>6 DEF Marks, Marked, Reads
  <2> QED
    BY <1>3, <1>4, <2>7, <2>8, StepIsCore
<1> QED
  BY <1>5, <1>6, <1>7, <1>8 DEF Complete

\* A verify goes on with the mark, or gives it up with its answer.
LEMMA VerifyIsCore ==
  ASSUME Core, NEW r \in Requests, Verify(r)
  PROVE  Core'
<1>1. reqs[r].pc = "verify" /\ reqs[r].pc \in Completes
  BY DEF Verify, At, Completes
<1>2. reqs[r] \in Request /\ reqs[r].pc # "saving"
  BY <1>1, AtComplete
<1>3. CASE Update(r, "same", TRUE, "missing") /\ UNCHANGED completing
  <2>1. mem' \in Receipts \cup {None} /\ Moves(r) /\ Joins(r) /\ Marks(r)
    BY <1>1, <1>3, CompleteUpdates
  <2>2. Plain'
    BY <2>1 DEF Verify, Plain, Core, TypeOK, files, store, outside
  <2> QED
    BY <2>1, <2>2, StepIsCore
<1>4. CASE UNCHANGED <<mem, line>>
  <2>1. Plain' /\ Joins(r)
    BY <1>4 DEF Verify, Plain, Joins, Core, TypeOK, files, store, outside
  <2>2. CASE Answer(r)
    BY <1>2, <2>1, <2>2, PlainAnswerMoves, StepIsCore
  <2>3. CASE Goes(r, "intake") /\ UNCHANGED completing
    <3>1. "intake" \in Completes
      BY DEF Completes
    <3> QED
      BY <1>1, <2>1, <2>3, <3>1, CompleteGoes, StepIsCore
  <2>4. CASE reqs' = [reqs EXCEPT ![r].pc = "open", ![r].file = "open"] /\ UNCHANGED completing
    <3> DEFINE x == [reqs[r] EXCEPT !.pc = "open", !.file = "open"]
    <3>1. "open" \in Steps /\ "open" \in Completes
      BY DEF Steps, Completes
    <3>2. SameAsk(x, reqs[r]) /\ x.pc = "open" /\ x.got = reqs[r].got
      BY <1>2, <3>1 DEF SameAsk, Request
    <3>3. reqs' = [reqs EXCEPT ![r] = x]
      BY <2>4 DEF Core, TypeOK
    <3> HIDE DEF x
    <3> QED
      BY <1>1, <2>1, <2>4, <3>1, <3>2, <3>3, CompleteEdits, StepIsCore
  <2> QED
    BY <1>4, <2>2, <2>3, <2>4, <1>3 DEF Verify
<1> QED
  BY <1>3, <1>4 DEF Verify

\* The answer for a missing partial gives the mark up.
LEMMA MissingIsCore ==
  ASSUME Core, NEW r \in Requests, Missing(r)
  PROVE  Core'
<1>1. reqs[r].pc # "saving"
  BY DEF Missing, At
<1>2. Plain' /\ Joins(r)
  BY DeliveredPhones DEF Missing, Plain, Joins, Core, TypeOK, memory, files, store
<1> QED
  BY <1>1, <1>2, PlainAnswerMoves, StepIsCore DEF Missing

\* A step that is nothing but an update.
LEMMA OnlyUpdates ==
  ASSUME Core, NEW r \in Requests, reqs[r].pc \in Completes,
         NEW state \in States \cup {"same"}, NEW emptied \in BOOLEAN,
         NEW then \in {"missing", "verifying", "conflict", "finish", "stays"},
         Update(r, state, emptied, then),
         UNCHANGED <<revoked, completing, files, store, outside>>
  PROVE  Core'
<1>1. mem' \in Receipts \cup {None} /\ Moves(r) /\ Joins(r) /\ Marks(r)
  BY CompleteUpdates
<1>2. Plain'
  BY <1>1 DEF Plain, Core, TypeOK, files, store, outside
<1> QED
  BY <1>1, <1>2, StepIsCore

\* Steps of `complete` that only update the receipt keep the mark.
LEMMA UpdatesAreCore ==
  ASSUME Core, NEW r \in Requests,
         SetVerifying(r) \/ Damaged(r) \/ Admitted(r) \/ Refused(r)
  PROVE  Core'
<1>1. {"verifying", "failed", "complete"} \subseteq States \cup {"same"}
  BY DEF States
<1>2. {"open", "damaged", "admitted", "refused"} \subseteq Completes
  BY DEF Completes
<1>3. CASE SetVerifying(r)
  BY <1>1, <1>2, <1>3, OnlyUpdates DEF SetVerifying, At
<1>4. CASE Damaged(r)
  BY <1>1, <1>2, <1>4, OnlyUpdates DEF Damaged, At
<1>5. CASE Admitted(r)
  BY <1>1, <1>2, <1>5, OnlyUpdates DEF Admitted, At
<1>6. CASE Refused(r)
  BY <1>1, <1>2, <1>6, OnlyUpdates DEF Refused, At
<1> QED
  BY <1>3, <1>4, <1>5, <1>6

\* The request answers and gives the mark up, or hashes.
LEMMA VerifyingIsCore ==
  ASSUME Core, NEW r \in Requests, Verifying(r)
  PROVE  Core'
<1>1. reqs[r].pc = "verifying" /\ reqs[r].pc # "saving" /\ reqs[r].pc \in Completes
  BY DEF Verifying, At, Completes
<1>2. Plain' /\ Joins(r)
  BY DeliveredPhones DEF Verifying, Plain, Joins, Core, TypeOK, memory, files, store
<1>3. CASE Answer(r)
  BY <1>1, <1>2, <1>3, PlainAnswerMoves, StepIsCore
<1>4. CASE Goes(r, "hash") /\ UNCHANGED completing
  <2>1. "hash" \in Completes
    BY DEF Completes
  <2> QED
    BY <1>1, <1>2, <1>4, <2>1, CompleteGoes, StepIsCore
<1> QED
  BY <1>3, <1>4 DEF Verifying

\* The hash leaves the request with its mark.
LEMMA HashIsCore ==
  ASSUME Core, NEW r \in Requests, Hash(r)
  PROVE  Core'
<1> DEFINE ok == reqs[r].file = "open" /\ Whole(partial, reqs[r].got.content)
           x == [reqs[r] EXCEPT !.pc = "hashed", !.ok = ok]
<1>1. reqs[r].pc \in Completes /\ reqs[r] \in Request
  BY AtComplete DEF Hash, At, Completes
<1>2. reqs' = [reqs EXCEPT ![r] = x]
  BY DEF Hash, Core, TypeOK
<1>3. "hashed" \in Steps /\ "hashed" \in Completes
  BY DEF Steps, Completes
<1>4. ok \in BOOLEAN
  OBVIOUS
<1> HIDE DEF ok
<1>5. SameAsk(x, reqs[r]) /\ x.pc = "hashed" /\ x.got = reqs[r].got
  BY <1>1, <1>3, <1>4 DEF SameAsk, Request
<1> HIDE DEF x
<1>6. Plain' /\ Joins(r)
  BY DEF Hash, Plain, Joins, Core, TypeOK, memory, files, store, outside
<1>7. completing' = completing
  BY DEF Hash
<1> QED
  BY <1>1, <1>2, <1>3, <1>5, <1>6, <1>7, CompleteEdits, StepIsCore

\* A damaged file goes, and the request on.
LEMMA DamagedMoves ==
  ASSUME Core, NEW r \in Requests, reqs[r].pc \in Completes, NEW d,
         DiscardOwn(d, [reqs EXCEPT ![r].pc = "damaged"]), completing' = completing
  PROVE  /\ Moves(r) /\ Marks(r) /\ SameAsk(reqs'[r], reqs[r])
         /\ reqs'[r].pc = "damaged" /\ reqs'[r].got = reqs[r].got
         /\ partial' \in {partial, None} /\ sidecar' \in {sidecar, None} /\ verified' \in {verified, None}
<1> DEFINE rs == [reqs EXCEPT ![r].pc = "damaged"]
<1>1. /\ Fine(reqs[r]) /\ reqs[r] \in Request /\ reqs[r].op = "complete" /\ Marked(reqs[r])
      /\ reqs[r].pc # "saving" /\ reqs[r].got # None /\ reqs[r].meta \in Contents
  BY AtComplete
<1>2. "damaged" \in Steps /\ "damaged" \in Completes
  BY DEF Steps, Completes
<1>3. rs[r] = [reqs[r] EXCEPT !.pc = "damaged"] /\ DOMAIN rs = Requests
      /\ \A s \in Requests : s # r => rs[s] = reqs[s]
  BY DEF Core, TypeOK
<1> HIDE DEF rs
<1>4. SameAsk(rs[r], reqs[r]) /\ rs[r].pc = "damaged" /\ rs[r].got = reqs[r].got
  BY <1>1, <1>2, <1>3 DEF SameAsk, Request
<1>5. ASSUME NEW p, p \in {rs[r], [rs[r] EXCEPT !.file = "replaced"]}
      PROVE  SameAsk(p, reqs[r]) /\ p.pc = "damaged" /\ p.got = reqs[r].got
  BY <1>4, <1>5 DEF SameAsk, Request
<1>6. \/ /\ reqs' = rs
         /\ UNCHANGED files
      \/ /\ reqs' = Closed(rs)
         /\ NoFiles
  BY DEF DiscardOwn, rs
<1>7. reqs'[r] \in {rs[r], [rs[r] EXCEPT !.file = "replaced"]}
  BY <1>6 DEF Closed
<1>8. SameAsk(reqs'[r], reqs[r]) /\ reqs'[r].pc = "damaged" /\ reqs'[r].got = reqs[r].got
  BY <1>5, <1>7
<1>9. ASSUME NEW s \in Requests, s # r
      PROVE  Like(reqs'[s], reqs[s])
  <2>1. reqs'[s] = reqs[s] \/ reqs'[s] = Closed(reqs)[s]
    BY <1>3, <1>6, <1>9 DEF Closed
  <2> QED
    BY <2>1, ClosedIsLike, ReqsAreLike
<1>10. reqs' = [s \in Requests |-> reqs'[s]]
  <2>1. rs = [s \in Requests |-> rs[s]]
    BY DEF rs, Core, TypeOK
  <2> QED
    BY <1>6, <2>1 DEF Closed
<1>11. Fine(reqs'[r])
  <2>1. reqs'[r].op = "complete" /\ reqs'[r].meta \in Contents /\ reqs'[r].got # None
    BY <1>1, <1>8 DEF SameAsk
  <2>2. InRoute(reqs'[r])
    BY <1>2, <1>8, <2>1 DEF InRoute
  <2> QED
    BY <1>1, <1>8, <2>1, <2>2 DEF Fine, SameAsk
<1>12. Marked(reqs'[r])
  BY <1>1, <1>8 DEF Marked, SameAsk, Reads
<1>13. Marks(r)
  BY <1>1, <1>12, MarkStays
<1> QED
  BY <1>1, <1>6, <1>8, <1>9, <1>10, <1>11, <1>13 DEF Moves, files, NoFiles

\* The hash's answers give the mark up; what goes on keeps it.
LEMMA HashedIsCore ==
  ASSUME Core, NEW r \in Requests, Hashed(r)
  PROVE  Core'
<1>1. reqs[r].pc = "hashed" /\ reqs[r].pc # "saving" /\ reqs[r].pc \in Completes
  BY DEF Hashed, At, Completes
<1>2. CASE /\ Unmark(r) /\ UNCHANGED <<mem, line>>
           /\ \/ DiscardOwn(reqs[r].dev, Over(reqs, r))
              \/ reqs' = Over(reqs, r) /\ UNCHANGED files
  <2>1. ASSUME DiscardOwn(reqs[r].dev, Over(reqs, r))
        PROVE  /\ Moves(r) /\ Marks(r) /\ partial' \in {partial, None}
               /\ sidecar' \in {sidecar, None} /\ verified' \in {verified, None}
    BY <1>1, <1>2, <2>1, DiscardMoves
  <2>2. ASSUME reqs' = Over(reqs, r) /\ UNCHANGED files
        PROVE  /\ Moves(r) /\ Marks(r) /\ partial' \in {partial, None}
               /\ sidecar' \in {sidecar, None} /\ verified' \in {verified, None}
    BY <1>1, <1>2, <2>2, AnswerMoves, ReqsAreLike DEF files
  <2>3. Moves(r) /\ Marks(r) /\ partial' \in {partial, None}
        /\ sidecar' \in {sidecar, None} /\ verified' \in {verified, None}
    BY <1>2, <2>1, <2>2
  <2>4. Plain' /\ Joins(r)
    BY <1>2, <2>3 DEF Hashed, Plain, Joins, Core, TypeOK, store, outside
  <2> QED
    BY <2>3, <2>4, StepIsCore
<1>3. CASE Update(r, "receiving", TRUE, "conflict") /\ UNCHANGED <<completing, files>>
  <2>1. "receiving" \in States
    BY DEF States
  <2> QED
    BY <1>1, <1>3, <2>1, OnlyUpdates DEF Hashed
<1>4. CASE DiscardOwn(reqs[r].dev, [reqs EXCEPT ![r].pc = "damaged"]) /\ UNCHANGED <<mem, line, completing>>
  <2>1. /\ Moves(r) /\ Marks(r) /\ partial' \in {partial, None}
        /\ sidecar' \in {sidecar, None} /\ verified' \in {verified, None}
    BY <1>1, <1>4, DamagedMoves
  <2>2. Plain' /\ Joins(r)
    BY <1>4, <2>1 DEF Hashed, Plain, Joins, Core, TypeOK, store, outside
  <2> QED
    BY <2>1, <2>2, StepIsCore
<1>5. CASE Goes(r, "promote") /\ UNCHANGED <<mem, line, completing, files>>
  <2>1. "promote" \in Completes
    BY DEF Completes
  <2>2. Plain' /\ Joins(r)
    BY <1>5 DEF Hashed, Plain, Joins, Core, TypeOK, files, store, outside
  <2> QED
    BY <1>1, <1>5, <2>1, <2>2, CompleteGoes, StepIsCore
<1> QED
  BY <1>2, <1>3, <1>4, <1>5 DEF Hashed

\* A 409 gives the mark up.
LEMMA ConflictIsCore ==
  ASSUME Core, NEW r \in Requests, Conflict(r)
  PROVE  Core'
<1>1. reqs[r].pc # "saving"
  BY DEF Conflict, At
<1>2. Plain' /\ Joins(r)
  BY DEF Conflict, Plain, Joins, Core, TypeOK, memory, files, store, outside
<1> QED
  BY <1>1, <1>2, PlainAnswerMoves, StepIsCore DEF Conflict

\* The rename leaves a verified file of a partial's bytes.
LEMMA PromoteIsCore ==
  ASSUME Core, NEW r \in Requests, Promote(r)
  PROVE  Core'
<1>1. /\ reqs[r].pc \in Completes /\ reqs[r] \in Request /\ reqs[r].pc # "saving"
      /\ reqs[r].got \in Receipts
  BY AtComplete DEF Promote, At, Completes
<1>2. CASE Answer(r) /\ UNCHANGED <<mem, line, partial, verified>>
  <2>1. Plain' /\ Joins(r)
    BY <1>2 DEF Promote, Plain, Joins, Core, TypeOK, store, outside
  <2> QED
    BY <1>1, <1>2, <2>1, PlainAnswerMoves, StepIsCore
<1>3. CASE /\ partial # None
           /\ partial' = None
           /\ verified' = [data |-> partial, hashed |-> reqs[r].got.content]
           /\ reqs' = [reqs EXCEPT ![r].pc = "intake", ![r].file = "closed"]
           /\ UNCHANGED <<mem, line, completing>>
  <2> DEFINE x == [reqs[r] EXCEPT !.pc = "intake", !.file = "closed"]
  <2>1. "intake" \in Steps /\ "intake" \in Completes
    BY DEF Steps, Completes
  <2>2. SameAsk(x, reqs[r]) /\ x.pc = "intake" /\ x.got = reqs[r].got
    BY <1>1, <2>1 DEF SameAsk, Request
  <2>3. reqs' = [reqs EXCEPT ![r] = x]
    BY <1>3 DEF Core, TypeOK
  <2>4. verified' \in Verified
    <3>1. partial \in Data
      BY <1>3 DEF Core, TypeOK
    <3>2. reqs[r].got.content \in Contents
      BY <1>1 DEF Receipts
    <3> QED
      BY <1>3, <3>1, <3>2 DEF Verified
  <2>5. Plain' /\ Joins(r)
    BY <1>3, <2>4 DEF Promote, Plain, Joins, Core, TypeOK, store, outside
  <2> HIDE DEF x
  <2> QED
    BY <1>1, <1>3, <2>1, <2>2, <2>3, <2>5, CompleteEdits, StepIsCore
<1>4. CASE /\ partial' = None /\ verified' = None
           /\ Update(r, "receiving", TRUE, "conflict")
           /\ UNCHANGED completing
  <2>1. "receiving" \in States \cup {"same"}
    BY DEF States
  <2>2. mem' \in Receipts \cup {None} /\ Moves(r) /\ Joins(r) /\ Marks(r)
    BY <1>1, <1>4, <2>1, CompleteUpdates
  <2>3. Plain'
    BY <1>4, <2>2 DEF Promote, Plain, Core, TypeOK, store, outside
  <2> QED
    BY <2>2, <2>3, StepIsCore
<1> QED
  BY <1>2, <1>3, <1>4 DEF Promote

-----------------------------------------------------------------------------
(* The admission.                                                           *)

\* A fault is written down.
LEMMA FaultIsTyped ==
  ASSUME Core, NEW kind \in FaultKinds, Fault(kind)
  PROVE  faults' \in [may : SUBSET FaultKinds, met : SUBSET FaultKinds]
BY DEF Fault, Core, TypeOK

\* The intake's reads lead to the commit, to the answer or to a refusal.
LEMMA IntakeIsCore ==
  ASSUME Core, NEW r \in Requests, Intake(r)
  PROVE  Core'
<1>1. reqs[r].pc \in Completes /\ reqs[r] \in Request
  BY AtComplete DEF Intake, At, Completes
<1>2. faults' \in [may : SUBSET FaultKinds, met : SUBSET FaultKinds]
  <2>1. "intake" \in FaultKinds
    BY DEF FaultKinds
  <2> QED
    BY <2>1, FaultIsTyped DEF Intake, Core, TypeOK
<1>3. Plain' /\ Joins(r) /\ completing' = completing
  BY <1>2 DEF Intake, Plain, Joins, Core, TypeOK, memory, files, store
<1>4. {"refused", "admitted", "commit"} \subseteq Completes /\ "commit" \in Steps
  BY DEF Completes, Steps
<1>5. CASE Goes(r, "refused")
  BY <1>1, <1>3, <1>4, <1>5, CompleteGoes, StepIsCore
<1>6. CASE Goes(r, "admitted")
  BY <1>1, <1>3, <1>4, <1>6, CompleteGoes, StepIsCore
<1>7. CASE reqs' = [reqs EXCEPT ![r].pc = "commit", ![r].copied = verified]
  <2> DEFINE x == [reqs[r] EXCEPT !.pc = "commit", !.copied = verified]
  <2>1. verified \in Verified \cup {None}
    BY DEF Core, TypeOK
  <2>2. SameAsk(x, reqs[r]) /\ x.pc = "commit" /\ x.got = reqs[r].got
    BY <1>1, <1>4, <2>1 DEF SameAsk, Request
  <2>3. reqs' = [reqs EXCEPT ![r] = x]
    BY <1>7 DEF Core, TypeOK
  <2> HIDE DEF x
  <2> QED
    BY <1>1, <1>3, <1>4, <2>2, <2>3, CompleteEdits, StepIsCore
<1> QED
  BY <1>5, <1>6, <1>7 DEF Intake

\* The admission's transaction writes a receipt and a ledger row.
LEMMA CommitIsCore ==
  ASSUME Core, NEW r \in Requests, Commit(r)
  PROVE  Core'
<1>1. /\ reqs[r].pc \in Completes /\ reqs[r] \in Request /\ reqs[r].meta \in Contents
      /\ Fine(reqs[r]) /\ reqs[r].op = "complete"
  BY AtComplete DEF Commit, At, Completes
<1>2. reqs[r].dev \in Devices
  BY <1>1, AskParts DEF Asks
<1>3. ASSUME NEW state \in States
      PROVE  Row(reqs[r].dev, reqs[r].meta, state, IF row = None THEN {} ELSE row.chunks) \in Receipts
  <2>1. row # None => row \in Receipts
    BY DEF Core, TypeOK
  <2>2. (IF row = None THEN {} ELSE row.chunks) \in SUBSET Chunks
    BY <2>1 DEF Receipts
  <2> QED
    BY <1>1, <1>2, <1>3, <2>2 DEF Row, Receipts
<1>4. {"complete", "failed"} \subseteq States
  BY DEF States
<1>5. {"refused", "admitted"} \subseteq Completes /\ "admitted" \in Steps
  BY DEF Completes, Steps
<1>6. completing' = completing /\ Joins(r)
  BY DEF Commit, Joins, memory
<1>7. CASE Goes(r, "refused") /\ UNCHANGED <<row, safe, ledger, verified, faults>>
  <2>1. Plain'
    BY <1>7 DEF Commit, Plain, Core, TypeOK, memory
  <2> QED
    BY <1>1, <1>5, <1>6, <1>7, <2>1, CompleteGoes, StepIsCore
<1>8. CASE Commits(r)
  <2> DEFINE x == [reqs[r] EXCEPT !.pc = "admitted", !.copied = None]
  <2>1. row' \in Receipts
    BY <1>3, <1>4, <1>8 DEF Commits
  <2>2. ledger' \in [Contents -> Fates]
    BY <1>8 DEF Commits, Core, TypeOK, Fates
  <2>3. safe' \in [row : Receipts \cup {None}, ledger : [Contents -> Fates]]
    BY <1>8, <2>1, <2>2 DEF Commits, Now
  <2>4. Plain'
    BY <1>8, <2>1, <2>2, <2>3 DEF Commit, Commits, Plain, Core, TypeOK, memory
  <2>5. SameAsk(x, reqs[r]) /\ x.pc = "admitted" /\ x.got = reqs[r].got
    BY <1>1, <1>5 DEF SameAsk, Request
  <2>6. reqs' = [reqs EXCEPT ![r] = x]
    BY <1>8 DEF Commits, Core, TypeOK
  <2> HIDE DEF x
  <2> QED
    BY <1>1, <1>5, <1>6, <2>4, <2>5, <2>6, CompleteEdits, StepIsCore
<1>9. CASE CommitFails(r)
  <2>1. row' \in Receipts
    BY <1>3, <1>4, <1>9 DEF CommitFails
  <2>2. safe' \in [row : Receipts \cup {None}, ledger : [Contents -> Fates]]
    BY <1>9, <2>1 DEF CommitFails, Now, Core, TypeOK
  <2>3. faults' \in [may : SUBSET FaultKinds, met : SUBSET FaultKinds]
    BY <1>9, FaultIsTyped DEF CommitFails, FaultKinds
  <2>4. Plain'
    BY <1>9, <2>1, <2>2, <2>3 DEF Commit, CommitFails, Plain, Core, TypeOK, memory
  <2> QED
    BY <1>1, <1>5, <1>6, <1>9, <2>4, CompleteGoes, StepIsCore DEF CommitFails
<1> QED
  BY <1>7, <1>8, <1>9 DEF Commit

\* An admitted `complete` gives the mark up with its answer.
LEMMA FinishIsCore ==
  ASSUME Core, NEW r \in Requests, Finish(r)
  PROVE  Core'
<1>1. reqs[r].pc # "saving"
  BY DEF Finish, At
<1>2. Plain' /\ Joins(r)
  BY DeliveredPhones DEF Finish, Plain, Joins, Core, TypeOK, memory, NoFiles, store
<1>3. CASE reqs' = Over(reqs, r)
  BY <1>1, <1>2, <1>3, AnswerMoves, ReqsAreLike, StepIsCore DEF Finish
<1>4. CASE reqs' = Over(Closed(reqs), r)
  BY <1>1, <1>2, <1>4, AnswerMoves, ClosedIsLike, StepIsCore DEF Finish
<1> QED
  BY <1>3, <1>4 DEF Finish

\* A refused `complete` gives the mark up with its answer.
LEMMA StaysIsCore ==
  ASSUME Core, NEW r \in Requests, Stays(r)
  PROVE  Core'
<1>1. reqs[r].pc # "saving"
  BY DEF Stays, At
<1>2. Plain' /\ Joins(r)
  BY DEF Stays, Plain, Joins, Core, TypeOK, memory, store, outside
<1> QED
  BY <1>1, <1>2, PlainAnswerMoves, StepIsCore DEF Stays

-----------------------------------------------------------------------------
(* Pairing, revoking, and the line.                                         *)

\* A pairing waits for its save.
LEMMA PairIsCore ==
  ASSUME Core, NEW r \in Requests, NEW d \in Devices, Pair(r, d)
  PROVE  Core'
<1> DEFINE x == [Idle EXCEPT !.op = "pair", !.dev = d, !.pc = "saving", !.then = "paired"]
           w == [kind |-> "pair", dev |-> d, receipt |-> None, for |-> r]
<1>1. reqs[r].pc = "idle" /\ reqs[r].pc # "saving" /\ Fine(reqs[r])
  BY DEF Pair, At, Core, AllFine
<1>2. x.op = "pair" /\ x.dev = d /\ x.pc = "saving" /\ x.then = "paired"
  BY DEF Idle
<1>3. x \in Request
  <2>1. "saving" \in Steps /\ "paired" \in Steps
    BY DEF Steps, Awaits
  <2>2. Idle \in Request
    BY IdleIsFine DEF Fine
  <2> QED
    BY <2>1, <2>2 DEF Request
<1>4. reqs' = [reqs EXCEPT ![r] = x]
  BY DEF Pair
<1>5. w \in Writes /\ w.for = r /\ line' = Append(line, w)
  BY DEF Pair, Writes
<1> HIDE DEF x, w
<1>6. Fine(x) /\ ~Marked(x)
  BY <1>2, <1>3 DEF Fine, InRoute, Saves, Asks, Marked
<1>7. reqs' = [s \in Requests |-> reqs'[s]] /\ reqs'[r] = x
      /\ \A s \in Requests : s # r => reqs'[s] = reqs[s]
  BY <1>4 DEF Core, TypeOK
<1>8. Moves(r)
  BY <1>1, <1>6, <1>7, ReqsAreLike DEF Moves
<1>9. ~Marked(reqs[r])
  BY <1>1, RouteOf DEF Marked
<1>10. Marks(r)
  BY <1>6, <1>7, <1>9, MarkStays DEF Pair
<1>11. Joins(r)
  BY <1>2, <1>5, <1>7 DEF Joins
<1>12. Plain'
  BY DEF Pair, Plain, Core, TypeOK, files, store, outside
<1> QED
  BY <1>8, <1>10, <1>11, <1>12, StepIsCore

\* A pairing ends.
LEMMA PairedIsCore ==
  ASSUME Core, NEW r \in Requests, Paired(r)
  PROVE  Core'
<1>1. reqs[r].pc # "saving"
  BY DEF Paired, At
<1>2. Plain' /\ Joins(r)
  BY DEF Paired, Plain, Joins, Core, TypeOK, files, store, outside
<1> QED
  BY <1>1, <1>2, PlainAnswerMoves, StepIsCore DEF Paired

\* A step of no request: a write nobody waits for may join the line.
LEMMA NobodyMoves ==
  ASSUME Core, Plain', completing' = completing,
         reqs' = [s \in Requests |-> reqs'[s]],
         \A s \in Requests : Like(reqs'[s], reqs[s]),
         \/ line' = line
         \/ \E w \in Writes : w.for = None /\ line' = Append(line, w)
  PROVE  Core'
<1>1. AllFine'
  BY LikeIsFine DEF Core, AllFine
<1>2. reqs' \in [Requests -> Request]
  BY <1>1 DEF AllFine, Fine
<1>3. line' \in Seq(Writes)
  BY DEF Core, TypeOK
<1>4. TypeOK'
  BY <1>2, <1>3 DEF TypeOK, Plain, Core
<1>5. MarkIsOfARunningComplete'
  BY DEF Core, MarkIsOfARunningComplete, Like
<1>6. Lined'
  <2>1. \A i \in 1..Len(line) : line[i] \in Writes /\ line[i].for \in Requests \cup {None}
    BY LineElements DEF Core, TypeOK
  <2>2. \A i \in 1..Len(line) : line[i].for # None => reqs'[line[i].for].pc = "saving"
    BY <2>1 DEF Core, Lined, Like
  <2>3. CASE line' = line
    BY <2>2, <2>3 DEF Lined, Core
  <2>4. ASSUME NEW w \in Writes, w.for = None, line' = Append(line, w)
        PROVE  Lined'
    <3>1. Len(line') = Len(line) + 1 /\ Len(line) \in Nat /\ line'[Len(line) + 1] = w
          /\ \A i \in 1..Len(line) : line'[i] = line[i]
      BY <2>4 DEF Core, TypeOK
    <3>2. ASSUME NEW i \in 1..Len(line')
          PROVE  i \in 1..Len(line) \/ i = Len(line) + 1
      BY <3>1
    <3>3. \A i \in 1..Len(line') : line'[i].for # None => reqs'[line'[i].for].pc = "saving"
      BY <2>2, <2>4, <3>1, <3>2
    <3>4. \A i, j \in 1..Len(line') : line'[i].for = line'[j].for /\ line'[i].for # None => i = j
      BY <2>4, <3>1, <3>2 DEF Core, Lined
    <3> QED
      BY <3>3, <3>4 DEF Lined
  <2> QED
    BY <2>3, <2>4
<1> QED
  BY <1>1, <1>4, <1>5, <1>6 DEF Core

\* A revoke moves no request, and its delete is waited for by none.
LEMMA RevokeIsCore ==
  ASSUME Core, NEW d \in Devices, Revoke(d)
  PROVE  Core'
<1> DEFINE w == [kind |-> "delete", dev |-> d, receipt |-> None, for |-> None]
<1>1. w \in Writes /\ w.for = None /\ line' = Append(line, w)
  BY DEF Revoke, Writes
<1>2. ASSUME NEW s \in Requests
      PROVE  Like(reqs'[s], reqs[s])
  <2>1. reqs[s] \in Request
    BY DEF Core, TypeOK
  <2>2. CASE reqs[s].dev = d
    <3>1. reqs'[s] = [reqs[s] EXCEPT !.since = TRUE]
      BY <2>2 DEF Revoke
    <3> QED
      BY <2>1, <3>1 DEF Like, Request
  <2>3. CASE reqs[s].dev # d
    <3>1. reqs'[s] = reqs[s]
      BY <2>3 DEF Revoke
    <3> QED
      BY <2>1, <3>1 DEF Like
  <2> QED
    BY <2>2, <2>3
<1>3. reqs' = [s \in Requests |-> reqs'[s]]
  BY DEF Revoke
<1>4. faults' \in [may : SUBSET FaultKinds, met : SUBSET FaultKinds]
  BY FaultIsTyped DEF Revoke, FaultKinds
<1>5. mem' \in Receipts \cup {None} /\ discards' \subseteq Devices
  BY DEF Revoke, Core, TypeOK
<1>6. Plain'
  BY <1>4, <1>5 DEF Revoke, Plain, Core, TypeOK, files, store
<1>7. completing' = completing
  BY DEF Revoke
<1> HIDE DEF w
<1> QED
  BY <1>1, <1>2, <1>3, <1>6, <1>7, NobodyMoves

\* A revoke's discard moves no request.
LEMMA DiscardRevokedIsCore ==
  ASSUME Core, NEW d \in Devices, DiscardRevoked(d)
  PROVE  Core'
<1>1. partial' \in {partial, None} /\ sidecar' \in {sidecar, None} /\ verified' \in {verified, None}
  BY DEF DiscardRevoked, DiscardOwn, files, NoFiles
<1>2. Plain' /\ line' = line /\ completing' = completing
  BY <1>1 DEF DiscardRevoked, Plain, Core, TypeOK, memory, store
<1>3. reqs' = reqs \/ reqs' = Closed(reqs)
  BY DEF DiscardRevoked, DiscardOwn
<1> QED
  BY <1>2, <1>3, ClosedIsLike, ReqsAreLike, NobodyMoves

\* The head of the line goes, and the request that waits for it goes on.
LEMMA ToldIsCore ==
  ASSUME Core, Plain', completing' = completing, line # << >>, line' = Tail(line),
         NEW ok \in BOOLEAN, Told(Head(line), ok)
  PROVE  Core'
<1> DEFINE w == Head(line)
<1>1. /\ Len(line) \in Nat /\ Len(line) >= 1 /\ w = line[1]
      /\ line' \in Seq(Writes) /\ Len(line') = Len(line) - 1
      /\ \A i \in 1..Len(line') : i + 1 \in 1..Len(line) /\ line'[i] = line[i + 1]
  BY DEF Core, TypeOK
<1>2. \A i \in 1..Len(line) : line[i] \in Writes /\ line[i].for \in Requests \cup {None}
  BY LineElements DEF Core, TypeOK
<1>3. \A i \in 1..Len(line) : line[i].for # None => reqs[line[i].for].pc = "saving"
  BY DEF Core, Lined
<1>4. \A i, j \in 1..Len(line) : line[i].for = line[j].for /\ line[i].for # None => i = j
  BY DEF Core, Lined
<1>5. \A i, j \in 1..Len(line') : line'[i].for = line'[j].for /\ line'[i].for # None => i = j
  <2> TAKE i, j \in 1..Len(line')
  <2>1. i + 1 \in 1..Len(line) /\ j + 1 \in 1..Len(line) /\ line'[i] = line[i + 1] /\ line'[j] = line[j + 1]
    BY <1>1
  <2>2. i + 1 = j + 1 => i = j
    BY <1>1
  <2> QED
    BY <1>4, <2>1, <2>2
<1>6. \A i \in 1..Len(line') : line'[i].for # w.for \/ line'[i].for = None
  <2> TAKE i \in 1..Len(line')
  <2>1. i + 1 \in 1..Len(line) /\ 1 \in 1..Len(line) /\ i + 1 # 1 /\ line'[i] = line[i + 1]
    BY <1>1
  <2> QED
    BY <1>1, <1>4, <2>1
<1> HIDE DEF w
<1>7. CASE w.for = None
  <2>1. reqs' = reqs
    BY <1>7 DEF Told, w
  <2>2. Lined'
    <3>1. \A i \in 1..Len(line') : line'[i].for # None => reqs'[line'[i].for].pc = "saving"
      <4> TAKE i \in 1..Len(line')
      <4>1. i + 1 \in 1..Len(line) /\ line'[i] = line[i + 1]
        BY <1>1
      <4> QED
        BY <1>3, <2>1, <4>1
    <3> QED
      BY <1>5, <3>1 DEF Lined
  <2>3. AllFine' /\ MarkIsOfARunningComplete'
    BY <2>1 DEF Core, AllFine, MarkIsOfARunningComplete
  <2>4. TypeOK'
    BY <1>1, <2>1 DEF Plain, Core, TypeOK
  <2> QED
    BY <2>2, <2>3, <2>4 DEF Core
<1>8. CASE w.for # None
  <2> DEFINE r == w.for
  <2>1. r \in Requests /\ reqs[r].pc = "saving"
    BY <1>1, <1>2, <1>3, <1>8
  <2>2. Fine(reqs[r]) /\ reqs[r] \in Request
    BY <2>1 DEF Core, AllFine, Fine
  <2>3. Saves(reqs[r], {"missing", "verifying", "conflict", "finish", "stays",
                        "answer", "opened", "resume", "resumed", "paired"})
    BY <2>1, <2>2 DEF Fine, InRoute, Saves, Request, Reads, Completes
  <2>4. reqs[r].then \in {"answer", "resume"} => reqs[r].op \in {"announce", "chunk"}
    BY <2>1, <2>2 DEF Fine, InRoute, Saves, Request, Reads, Completes
  <2>5. /\ reqs' = [s \in Requests |-> reqs'[s]]
        /\ \A s \in Requests : s # r => reqs'[s] = reqs[s]
    BY <1>8, <2>1 DEF Told, Over, Core, TypeOK, w
  <2>6. Fine(reqs'[r]) /\ (Marked(reqs'[r]) <=> Marked(reqs[r])) /\ reqs'[r].pc # "saving"
    <3>1. CASE reqs[r].then = "answer" \/ (reqs[r].then = "resume" /\ ~ok)
      <4>1. reqs'[r] = Idle
        BY <1>8, <2>1, <3>1 DEF Told, Over, Core, TypeOK, w
      <4>2. Idle.pc # "saving"
        BY DEF Idle
      <4> QED
        BY <2>4, <3>1, <4>1, <4>2, IdleIsFine DEF Marked
    <3>2. CASE ~(reqs[r].then = "answer" \/ (reqs[r].then = "resume" /\ ~ok))
      <4> DEFINE x == [reqs[r] EXCEPT !.pc = reqs[r].then, !.then = "idle", !.ok = ok]
      <4>1. reqs'[r] = x
        BY <1>8, <2>1, <3>2 DEF Told, Core, TypeOK, w
      <4>2. "idle" \in Steps
        BY DEF Steps
      <4>3. /\ SameAsk(x, reqs[r]) /\ x.op = reqs[r].op /\ x.pc = reqs[r].then
            /\ x.got = reqs[r].got /\ x.meta = reqs[r].meta
        BY <2>2, <4>2 DEF SameAsk, Request
      <4> HIDE DEF x
      <4>4. InRoute(x) /\ (x.op = "complete" => x.pc \in Completes) /\ x.pc # "saving"
        BY <2>1, <2>2, <3>2, <4>3 DEF Fine, InRoute, Saves, Request, Reads, Completes
      <4>5. x.op \in Asks => x.got # None
        BY <2>1, <2>2, <4>3 DEF Fine
      <4>6. x.op = "complete" => x.meta \in Contents
        BY <2>1, <2>2, <4>3 DEF Fine, Reads
      <4>7. Fine(x)
        BY <2>2, <4>3, <4>4, <4>5, <4>6 DEF Fine, SameAsk
      <4>8. Marked(x) <=> Marked(reqs[r])
        BY <2>1, <4>3, <4>4 DEF Marked, Reads, Completes
      <4> QED
        BY <4>1, <4>4, <4>7, <4>8
    <3> QED
      BY <3>1, <3>2
  <2> HIDE DEF r
  <2>7. Marks(r)
    BY <2>1, <2>6, MarkStays
  <2>8. /\ AllFine' /\ MarkIsOfARunningComplete'
        /\ reqs' \in [Requests -> Request] /\ completing' \in Requests \cup {None}
    BY <2>1, <2>5, <2>6, <2>7, StepIsFine, ReqsAreLike
  <2>9. Lined'
    <3>1. \A i \in 1..Len(line') : line'[i].for # None => reqs'[line'[i].for].pc = "saving"
      <4> TAKE i \in 1..Len(line')
      <4> HAVE line'[i].for # None
      <4>1. line'[i].for \in Requests /\ reqs[line'[i].for].pc = "saving"
        BY <1>1, <1>2, <1>3
      <4>2. line'[i].for # r
        BY <1>6 DEF r
      <4> QED
        BY <2>5, <4>1, <4>2
    <3> QED
      BY <1>5, <3>1 DEF Lined
  <2>10. TypeOK'
    BY <1>1, <2>8 DEF Plain, TypeOK
  <2> QED
    BY <2>8, <2>9, <2>10 DEF Core
<1> QED
  BY <1>7, <1>8

\* A write leaves a store of its type, and tells its request.
LEMMA WrittenIsCore ==
  ASSUME Core, Written
  PROVE  Core'
<1> DEFINE w == Head(line)
           SafeType == [row : Receipts \cup {None}, ledger : [Contents -> Fates]]
<1>1. line # << >> /\ line' = Tail(line) /\ completing' = completing
  BY DEF Written
<1>2. w \in Writes /\ w.receipt \in Receipts \cup {None} /\ w.dev \in Devices
      /\ w.kind \in {"receipt", "pair", "delete"}
  <2>1. w \in Writes
    BY <1>1 DEF Core, TypeOK
  <2> HIDE DEF w
  <2> QED
    BY <2>1 DEF Writes
<1>3. /\ row \in Receipts \cup {None} /\ safe \in SafeType /\ ledger \in [Contents -> Fates]
      /\ paired \subseteq Devices
  BY DEF Core, TypeOK
<1>4. PICK ok \in BOOLEAN : Told(w, ok)
  BY <1>2 DEF Written
<1>5. ledger' = ledger /\ paired' \subseteq Devices /\ row' \in Receipts \cup {None}
  BY <1>2, <1>3 DEF Written, store
<1>6. safe' \in {safe, Now, Now'}
  BY <1>2 DEF Written, Logged, store
<1>7. safe' \in SafeType
  BY <1>3, <1>5, <1>6 DEF Now
<1>8. Plain'
  BY <1>5, <1>7 DEF Written, Plain, Core, TypeOK, files, outside
<1> HIDE DEF w
<1> QED
  BY <1>1, <1>4, <1>8, ToldIsCore DEF w

\* A failed write tells its request.
LEMMA WriteFailsIsCore ==
  ASSUME Core, WriteFails
  PROVE  Core'
<1>1. line # << >> /\ line' = Tail(line) /\ completing' = completing /\ Told(Head(line), FALSE)
  BY DEF WriteFails
<1>2. faults' \in [may : SUBSET FaultKinds, met : SUBSET FaultKinds]
  BY FaultIsTyped DEF WriteFails, FaultKinds
<1>3. Plain'
  BY <1>2 DEF WriteFails, Plain, Core, TypeOK, files, store
<1> QED
  BY <1>1, <1>3, ToldIsCore

-----------------------------------------------------------------------------
(* What the computer does not decide.                                       *)

\* A step of an admission is one of a `complete` past its checks.
LEMMA AdmissionCompletes ==
  ASSUME NEW r \in Requests, Fine(reqs[r]), InAdmission(r)
  PROVE  reqs[r].op = "complete"
BY RouteOf DEF InAdmission, At, Fine, InRoute, Saves, Completes, Request, Reads

\* A dropped request gives its mark up, and its write waits for nobody.
LEMMA HangUpIsCore ==
  ASSUME Core, NEW r \in Requests, HangUp(r)
  PROVE  Core'
<1>1. faults' \in [may : SUBSET FaultKinds, met : SUBSET FaultKinds]
  BY FaultIsTyped DEF HangUp, FaultKinds
<1>2. Fine(reqs[r]) /\ reqs[r] \in Request
  BY DEF Core, AllFine, Fine
<1>3. CASE reqs' = [reqs EXCEPT ![r].heard = FALSE] /\ UNCHANGED <<line, completing, strays>>
  <2>1. ASSUME NEW s \in Requests
        PROVE  Like(reqs'[s], reqs[s])
    <3>1. reqs[s] \in Request
      BY DEF Core, TypeOK
    <3>2. reqs'[s] \in {reqs[s], [reqs[s] EXCEPT !.heard = FALSE]}
      BY <1>3 DEF Core, TypeOK
    <3> QED
      BY <3>1, <3>2 DEF Like, Request
  <2>2. reqs' = [s \in Requests |-> reqs'[s]]
    BY <1>3 DEF Core, TypeOK
  <2>3. Plain'
    BY <1>1, <1>3 DEF HangUp, Plain, Core, TypeOK, files, store
  <2> QED
    BY <1>3, <2>1, <2>2, <2>3, NobodyMoves
<1>4. CASE /\ reqs[r].pc \in Awaits /\ Answer(r)
           /\ line' = [i \in DOMAIN line |-> IF line[i].for = r THEN [line[i] EXCEPT !.for = None]
                                                                ELSE line[i]]
           /\ strays' = IF reqs[r].pc = "writing"
                        THEN strays \cup {<<reqs[r].content, reqs[r].chunk>>} ELSE strays
  <2>1. /\ reqs' = [s \in Requests |-> reqs'[s]] /\ reqs'[r] = Idle
        /\ \A s \in Requests : s # r => reqs'[s] = reqs[s]
    BY <1>4 DEF Answer, Over, Core, TypeOK
  <2>2. Marks(r)
    BY <1>4, <2>1, IdleIsFine, NoneIsNothing DEF Answer, Unmark, Marks
  <2>3. /\ AllFine' /\ MarkIsOfARunningComplete'
        /\ reqs' \in [Requests -> Request] /\ completing' \in Requests \cup {None}
    BY <2>1, <2>2, StepIsFine, IdleIsFine, ReqsAreLike
  <2>4. \A i \in 1..Len(line) : line[i] \in Writes /\ line[i].for \in Requests \cup {None}
    BY LineElements DEF Core, TypeOK
  <2>5. ASSUME NEW w \in Writes
        PROVE  [w EXCEPT !.for = None] \in Writes /\ [w EXCEPT !.for = None].for = None
    BY <2>5 DEF Writes
  <2>6. line \in Seq(Writes) /\ DOMAIN line = 1..Len(line) /\ Len(line) \in Nat
    BY DEF Core, TypeOK
  <2>7. /\ line' \in Seq(Writes) /\ Len(line') = Len(line)
        /\ \A i \in 1..Len(line) :
             line'[i] = IF line[i].for = r THEN [line[i] EXCEPT !.for = None] ELSE line[i]
    <3>1. line' \in [1..Len(line) -> Writes]
      BY <1>4, <2>4, <2>5, <2>6
    <3> QED
      BY <1>4, <2>6, <3>1
  <2>8. \A i \in 1..Len(line) : line'[i].for # None => line'[i].for = line[i].for /\ line[i].for # r
    BY <2>4, <2>5, <2>7
  <2>9. Lined'
    <3>1. \A i \in 1..Len(line') : line'[i].for # None => reqs'[line'[i].for].pc = "saving"
      BY <2>1, <2>4, <2>7, <2>8 DEF Core, Lined
    <3>2. \A i, j \in 1..Len(line') : line'[i].for = line'[j].for /\ line'[i].for # None => i = j
      BY <2>7, <2>8 DEF Core, Lined
    <3> QED
      BY <3>1, <3>2 DEF Lined
  <2>10. strays' \subseteq Contents \X Chunks
    <3>1. CASE reqs[r].pc = "writing"
      <4>1. reqs[r].op = "chunk"
        BY <1>2, <3>1, RouteOf
      <4>2. reqs[r].content \in Contents /\ reqs[r].chunk \in Chunks
        BY <1>2, <4>1, AskParts DEF Fine, Asks
      <4> QED
        BY <1>4, <3>1, <4>2 DEF Core, TypeOK
    <3>2. CASE reqs[r].pc # "writing"
      BY <1>4, <3>2 DEF Core, TypeOK
    <3> QED
      BY <3>1, <3>2
  <2>11. TypeOK'
    BY <1>1, <2>3, <2>7, <2>10 DEF HangUp, Core, TypeOK, files, store
  <2> QED
    BY <2>3, <2>9, <2>11 DEF Core
<1> QED
  BY <1>3, <1>4 DEF HangUp

\* A late chunk goes to the partial that is there.
LEMMA StrayWriteIsCore ==
  ASSUME Core, NEW b \in Contents, NEW c \in Chunks, StrayWrite(b, c)
  PROVE  Core'
<1>1. partial' \in Data \cup {None}
  <2>1. partial \in Data \cup {None}
    BY DEF Core, TypeOK
  <2>2. partial # None => [partial EXCEPT ![c] = b] \in Data
    BY <2>1 DEF Data
  <2> QED
    BY <2>2 DEF StrayWrite
<1>2. Plain' /\ line' = line /\ completing' = completing /\ reqs' = reqs
  BY <1>1 DEF StrayWrite, Plain, Core, TypeOK, memory, store
<1> QED
  BY <1>2, ReqsAreLike, NobodyMoves

\* A deleted meeting leaves a ledger row.
LEMMA DeleteMeetingIsCore ==
  ASSUME Core, NEW b \in Contents, DeleteMeeting(b)
  PROVE  Core'
<1> DEFINE SafeType == [row : Receipts \cup {None}, ledger : [Contents -> Fates]]
<1>1. ledger' \in [Contents -> Fates] /\ row' \in Receipts \cup {None}
  BY DEF DeleteMeeting, Core, TypeOK, Fates
<1>2. safe' \in {safe, Now'}
  BY DEF DeleteMeeting, Logged
<1>3. safe' \in SafeType
  BY <1>1, <1>2 DEF Now, Core, TypeOK
<1>4. Plain' /\ line' = line /\ completing' = completing /\ reqs' = reqs
  BY <1>1, <1>3 DEF DeleteMeeting, Plain, Core, TypeOK, memory, files, outside
<1> QED
  BY <1>4, ReqsAreLike, NobodyMoves

\* A start leaves neither requests nor a mark nor a line.
LEMMA RestartIsCore ==
  ASSUME Core, NEW abandoned \in BOOLEAN, Restart(abandoned)
  PROVE  Core'
<1> DEFINE SafeType == [row : Receipts \cup {None}, ledger : [Contents -> Fates]]
<1>1. PICK kept \in {Now, safe} : row' = kept.row /\ ledger' = kept.ledger /\ safe' = kept
  BY DEF Restart
<1>2. kept \in SafeType
  BY DEF Now, Core, TypeOK
<1>3. row' \in Receipts \cup {None} /\ ledger' \in [Contents -> Fates] /\ safe' \in SafeType
  BY <1>1, <1>2
<1>4. faults' \in [may : SUBSET FaultKinds, met : SUBSET FaultKinds]
  BY FaultIsTyped DEF Restart, FaultKinds
<1>5. partial' \in {partial, None} /\ sidecar' \in {sidecar, None} /\ verified' \in {verified, None}
  BY DEF Restart, NoFiles, files
<1>6. /\ reqs' = [r \in Requests |-> Idle] /\ line' = << >> /\ completing' = None
      /\ mem' = None /\ revoked' = {} /\ strays' = {} /\ discards' = {}
      /\ paired' = paired /\ phones' = phones
  BY DEF Restart
<1>7. AllFine' /\ reqs' \in [Requests -> Request]
  BY <1>6, IdleIsFine DEF AllFine, Fine
<1>8. TypeOK'
  BY <1>3, <1>4, <1>5, <1>6, <1>7 DEF Core, TypeOK
<1>9. Lined'
  BY <1>6 DEF Lined
<1>10. MarkIsOfARunningComplete'
  BY <1>6, IdleIsFine, NoneIsNothing DEF MarkIsOfARunningComplete, Marked, Reads
<1> QED
  BY <1>7, <1>8, <1>9, <1>10 DEF Core

-----------------------------------------------------------------------------
(* Theorems of any behaviour.                                               *)

\* The first state is one of the invariant.
LEMMA InitIsCore == Init => Core
<1> SUFFICES ASSUME Init
             PROVE  Core
  OBVIOUS
<1>1. /\ mem = None /\ revoked = {} /\ completing = None /\ line = << >>
      /\ partial = None /\ sidecar = None /\ verified = None
      /\ row = None /\ paired = Devices /\ ledger = [b \in Contents |-> "none"]
      /\ safe = [row |-> row, ledger |-> ledger]
      /\ reqs = [r \in Requests |-> Idle] /\ strays = {} /\ discards = {}
  BY DEF Init
<1>2. PICK s \in Starts : /\ phones = [u \in Uploads |-> IF u \in s.phones THEN "held" ELSE "gone"]
                          /\ faults = [may |-> s.faults, met |-> {}]
  BY DEF Init
<1>3. faults \in [may : SUBSET FaultKinds, met : SUBSET FaultKinds]
  BY <1>2, HandoverAssumption
<1>4. phones \in [Uploads -> {"held", "gone"}]
  BY <1>2
<1>5. AllFine /\ reqs \in [Requests -> Request]
  BY <1>1, IdleIsFine DEF AllFine, Fine
<1>6. TypeOK
  BY <1>1, <1>3, <1>4, <1>5 DEF TypeOK, Fates
<1>7. Lined
  BY <1>1 DEF Lined
<1>8. MarkIsOfARunningComplete
  BY <1>1, IdleIsFine, NoneIsNothing DEF MarkIsOfARunningComplete, Marked, Reads
<1> QED
  BY <1>5, <1>6, <1>7, <1>8 DEF Core

\* A request's own steps.
LEMMA HandlerIsCore ==
  ASSUME Core, NEW r \in Requests, Handler(r)
  PROVE  Core'
BY FetchIsCore, RememberIsCore, StatusIsCore, AnnounceIsCore, TakeOverIsCore, ReadLedgerIsCore,
   ReplaceIsCore, OpenedIsCore, ResumeIsCore, ReopenedIsCore, ResumedIsCore, ChunkIsCore,
   WriteChunkIsCore, AddChunkIsCore, CompleteIsCore, VerifyIsCore, MissingIsCore, UpdatesAreCore,
   VerifyingIsCore, HashIsCore, HashedIsCore, ConflictIsCore, PromoteIsCore, IntakeIsCore,
   CommitIsCore, FinishIsCore, StaysIsCore, PairedIsCore
DEF Handler

\* What phones do.
LEMMA PhoneIsCore ==
  ASSUME Core, NEW r \in Requests, Phone(r)
  PROVE  Core'
<1>1. ASSUME NEW u \in Uploads, NEW op \in {"announce", "status", "complete"}, Ask(r, op, u, None)
      PROVE  Core'
  BY <1>1, AskIsCore DEF Asks
<1>2. ASSUME NEW u \in Uploads, NEW c \in Chunks, Ask(r, "chunk", u, c)
      PROVE  Core'
  BY <1>2, AskIsCore DEF Asks
<1>3. ASSUME NEW d \in Devices, Pair(r, d)
      PROVE  Core'
  BY <1>3, PairIsCore
<1> QED
  BY <1>1, <1>2, <1>3, HangUpIsCore DEF Phone

\* What the computer does on its own.
LEMMA ComputerIsCore ==
  ASSUME Core, Computer
  PROVE  Core'
BY WrittenIsCore, WriteFailsIsCore, RevokeIsCore, DiscardRevokedIsCore, DeleteMeetingIsCore,
   StrayWriteIsCore, RestartIsCore
DEF Computer

\* Every step keeps the invariant.
LEMMA NextIsCore == Core /\ [Next]_vars => Core'
<1> SUFFICES ASSUME Core, [Next]_vars
             PROVE  Core'
  OBVIOUS
<1>1. CASE UNCHANGED vars
  <2>1. UNCHANGED <<mem, revoked, line, completing, partial, sidecar, verified, row, safe, paired,
                    ledger, reqs, strays, discards, phones, faults>>
    BY <1>1 DEF vars, memory, files, store, outside
  <2>2. TypeOK' /\ AllFine' /\ Lined' /\ MarkIsOfARunningComplete'
    BY <2>1 DEF Core, TypeOK, AllFine, Lined, MarkIsOfARunningComplete
  <2> QED
    BY <2>2 DEF Core
<1>2. CASE Next
  BY <1>2, HandlerIsCore, PhoneIsCore, ComputerIsCore DEF Next
<1> QED
  BY <1>1, <1>2

\* The invariant always holds.
LEMMA AlwaysCore == Spec => []Core
BY InitIsCore, NextIsCore, PTL DEF Spec

\* The engine's memory, the inbox, the store, the line and every request keep
\* their types.  (engine/mod.rs, engine/recording.rs, upload/inbox.rs)
THEOREM TypeCorrect == Spec => []TypeOK
<1>1. Core => TypeOK
  BY DEF Core
<1> QED
  BY <1>1, AlwaysCore, PTL

\* The mark of `complete` is given up with the request that has it, on every
\* way out of it, a hang-up and a crash included.  (Completing's Drop)
THEOREM MarksAreOfRunningCompletes == Spec => []MarkIsOfARunningComplete
<1>1. Core => MarkIsOfARunningComplete
  BY DEF Core
<1> QED
  BY <1>1, AlwaysCore, PTL

-----------------------------------------------------------------------------
(* Custody of one recording: its bytes are `b`, whoever holds them.         *)

\* No two phones of a behaviour hold different bytes under the id.
OneRecording == \A s \in Starts : \A u, v \in s.phones : u[2] = v[2]

Of(receipt, b) == receipt # None => receipt.content = b

\* A request that is about `b` alone.
Pure(q, b) ==
  /\ Of(q.got, b)
  /\ q.op \in Asks => q.content = b
  /\ Marked(q) => q.meta = b

\* Every content the computer knows is `b`.
Only(b) ==
  /\ b \in {u[2] : u \in Uploads} \cup {None}
  /\ \A u \in Uploads : phones[u] = "held" => u[2] = b
  /\ Of(mem, b) /\ Of(row, b) /\ Of(safe.row, b)
  /\ \A i \in 1..Len(line) : Of(line[i].receipt, b)
  /\ \A r \in Requests : Pure(reqs[r], b)
  /\ sidecar \in {None, b}
  /\ \A c \in Contents : ledger[c] # "none" => c = b

\* What a power loss leaves knows every admission, and nothing newer.
SafeKnows ==
  \A c \in Contents :
    /\ ledger[c] # "none" <=> safe.ledger[c] # "none"
    /\ safe.ledger[c] = "deleted" => ledger[c] = "deleted"

\* A receipt that says the bytes are admitted; a request that read so, found
\* so in the ledger, or admitted them itself.
Says(receipt) == receipt # None /\ receipt.state = "complete"
Claims(q) ==
  \/ Says(q.got)
  \/ q.pc = "replace" /\ ~q.ok
  \/ q.op = "complete" /\ (q.pc \in {"admitted", "finish"} \/ Saves(q, {"finish"}))

Unclaimed == ~Says(mem) /\ \A r \in Requests : ~Claims(reqs[r])

Taken(b) == b # None /\ ledger[b] # "none"

\* Nobody says of bytes that they are admitted before they are.
Known(b) == Only(b) /\ SafeKnows /\ (Taken(b) \/ Unclaimed)

\* What a step of request r may do to what is known of `b`.
Knows(r, b) ==
  /\ \A s \in Requests : s # r => Like(reqs'[s], reqs[s])
  /\ Pure(reqs'[r], b)
  /\ Claims(reqs'[r]) => Taken(b)

Recalls(b) == Of(mem', b) /\ (Says(mem') => Taken(b))

Tells(b) ==
  \/ line' = line
  \/ \E w \in Writes : Of(w.receipt, b) /\ line' = Append(line, w)

Lets(b) ==
  /\ sidecar' \in {None, b}
  /\ \A u \in Uploads : phones'[u] = "held" => phones[u] = "held"

\* A request that is like another claims and knows the same.
LEMMA LikeKnows ==
  ASSUME NEW p, NEW q, Like(p, q), NEW b
  PROVE  (Pure(q, b) => Pure(p, b)) /\ (Claims(p) <=> Claims(q))
BY DEF Like, Pure, Claims, Marked, Saves

\* Nothing is known of a request with nothing to do.
LEMMA IdleIsPure ==
  ASSUME NEW b
  PROVE  Pure(Idle, b) /\ ~Claims(Idle)
BY DEF Idle, Pure, Claims, Of, Says, Asks, Marked, Saves

\* What has joined the line is about `b`.
LEMMA TellsOfOne ==
  ASSUME Core, NEW b, Only(b), Tells(b)
  PROVE  \A i \in 1..Len(line') : Of(line'[i].receipt, b)
<1>1. CASE line' = line
  BY <1>1 DEF Only
<1>2. ASSUME NEW w \in Writes, Of(w.receipt, b), line' = Append(line, w)
      PROVE  \A i \in 1..Len(line') : Of(line'[i].receipt, b)
  <2>1. Len(line') = Len(line) + 1 /\ Len(line) \in Nat /\ line'[Len(line) + 1] = w
        /\ \A i \in 1..Len(line) : line'[i] = line[i]
    BY <1>2 DEF Core, TypeOK
  <2>2. \A i \in 1..Len(line) : Of(line[i].receipt, b)
    BY DEF Only
  <2> TAKE i \in 1..Len(line')
  <2>3. i \in 1..Len(line) \/ i = Len(line) + 1
    BY <2>1
  <2> QED
    BY <1>2, <2>1, <2>2, <2>3
<1> QED
  BY <1>1, <1>2 DEF Tells

\* What a step may do to the store: admissions stay, and are of `b`.
Stores(b) ==
  /\ Of(row', b) /\ Of(safe'.row, b)
  /\ \A c \in Contents : ledger'[c] # "none" => c = b
  /\ Taken(b) => Taken(b)'
  /\ SafeKnows'

\* A step that leaves the store.
LEMMA StoreStays ==
  ASSUME NEW b, Known(b), UNCHANGED store
  PROVE  Stores(b)
BY DEF Known, Only, SafeKnows, Stores, store, Taken

\* A step of one request.
LEMMA MovesAreKnown ==
  ASSUME Core, NEW b, Known(b), NEW r \in Requests,
         \A s \in Requests : s # r => Like(reqs'[s], reqs[s]),
         Pure(reqs'[r], b), Claims(reqs'[r]) => Taken(b)',
         Recalls(b), Tells(b), Lets(b), Stores(b)
  PROVE  Known(b)'
<1>1. \A s \in Requests : Pure(reqs'[s], b)
  BY LikeKnows DEF Known, Only
<1>2. \A i \in 1..Len(line') : Of(line'[i].receipt, b)
  BY TellsOfOne DEF Known
<1>3. Only(b)'
  BY <1>1, <1>2 DEF Known, Only, Recalls, Lets, Stores
<1>4. CASE ~Taken(b)'
  <2>1. ~Taken(b) /\ ~Claims(reqs'[r])
    BY <1>4 DEF Stores
  <2>2. ~Says(mem') /\ \A s \in Requests : s # r => ~Claims(reqs'[s])
    BY <2>1, LikeKnows DEF Recalls, Known, Unclaimed
  <2> QED
    BY <1>3, <2>1, <2>2 DEF Known, Stores, Unclaimed
<1>5. CASE Taken(b)'
  BY <1>3, <1>5 DEF Known, Stores
<1> QED
  BY <1>4, <1>5

\* A step of one request that leaves the store.
LEMMA StepIsKnown ==
  ASSUME Core, NEW b, Known(b), NEW r \in Requests,
         Knows(r, b), Recalls(b), Tells(b), Lets(b), UNCHANGED store
  PROVE  Known(b)'
<1>1. Stores(b)
  BY StoreStays
<1>2. Claims(reqs'[r]) => Taken(b)'
  BY <1>1 DEF Knows, Stores
<1> QED
  BY <1>1, <1>2, MovesAreKnown DEF Knows

\* What a request says is so.
LEMMA ClaimsAreSo ==
  ASSUME NEW b, Known(b)
  PROVE  /\ Of(mem, b) /\ (Says(mem) => Taken(b))
         /\ \A r \in Requests : Pure(reqs[r], b) /\ (Claims(reqs[r]) => Taken(b))
BY DEF Known, Only, Unclaimed

-----------------------------------------------------------------------------
(* How requests move, and what they then know.                              *)

\* An answered request knows nothing.
LEMMA AnswerKnows ==
  ASSUME Core, NEW b, NEW r \in Requests,
         NEW rs, \A s \in Requests : Like(rs[s], reqs[s]), DOMAIN rs = Requests,
         reqs' = Over(rs, r)
  PROVE  Knows(r, b)
<1>1. reqs'[r] = Idle /\ \A s \in Requests : s # r => reqs'[s] = rs[s]
  BY DEF Over
<1> QED
  BY <1>1, IdleIsPure DEF Knows

\* The same when no file is replaced.
LEMMA PlainAnswerKnows ==
  ASSUME Core, NEW b, NEW r \in Requests, reqs' = Over(reqs, r) \/ Answer(r)
  PROVE  Knows(r, b)
<1>1. DOMAIN reqs = Requests
  BY DEF Core, TypeOK
<1> QED
  BY <1>1, AnswerKnows, ReqsAreLike DEF Answer

\* A request that goes on.
LEMMA EditKnows ==
  ASSUME Core, NEW b, NEW r \in Requests, NEW x, reqs' = [reqs EXCEPT ![r] = x],
         Pure(x, b), Claims(x) => Taken(b)
  PROVE  Knows(r, b)
<1>1. reqs'[r] = x /\ \A s \in Requests : s # r => reqs'[s] = reqs[s]
  BY DEF Core, TypeOK
<1> QED
  BY <1>1, ReqsAreLike DEF Knows

\* A request that goes on at a step that claims nothing.
LEMMA GoesKnows ==
  ASSUME Core, NEW b, Known(b), NEW r \in Requests, NEW pc, Goes(r, pc),
         pc \notin {"saving", "replace", "finish"} /\ (pc = "admitted" => Taken(b)),
         reqs[r].op = "complete" => Marked(reqs[r]) \/ pc \in Reads
  PROVE  Knows(r, b)
<1> DEFINE x == [reqs[r] EXCEPT !.pc = pc]
<1>1. reqs[r] \in Request /\ Pure(reqs[r], b) /\ (Claims(reqs[r]) => Taken(b))
  BY ClaimsAreSo DEF Core, TypeOK
<1>2. /\ x.op = reqs[r].op /\ x.content = reqs[r].content /\ x.pc = pc /\ x.got = reqs[r].got
      /\ x.meta = reqs[r].meta
  BY <1>1 DEF Request
<1>3. reqs' = [reqs EXCEPT ![r] = x]
  BY DEF Goes, Core, TypeOK
<1> HIDE DEF x
<1>4. Pure(x, b)
  BY <1>1, <1>2 DEF Pure, Marked
<1>5. Claims(x) => Taken(b)
  BY <1>1, <1>2 DEF Claims, Saves
<1> QED
  BY <1>3, <1>4, <1>5, EditKnows

\* A change of the receipt is one of `b`, and says no more than is so.
LEMMA ChangeKnows ==
  ASSUME Core, NEW b, Known(b), NEW r \in Requests, NEW receipt \in Receipts, NEW then \in Steps,
         NEW rs, rs = [s \in Requests |-> rs[s]],
         \A s \in Requests : Like(rs[s], reqs[s]),
         Change(r, receipt, then, rs),
         receipt.content = b, receipt.state = "complete" \/ then = "finish" => Taken(b),
         reqs[r].op = "complete" => Marked(reqs[r])
  PROVE  Knows(r, b) /\ Recalls(b) /\ Tells(b)
<1> DEFINE w == [kind |-> "receipt", dev |-> receipt.dev, receipt |-> receipt, for |-> r]
<1>1. /\ \A s \in Requests : s # r => Like(reqs'[s], reqs[s])
      /\ SameAsk(reqs'[r], reqs[r])
      /\ reqs'[r].pc = "saving" /\ reqs'[r].then = then /\ reqs'[r].got = receipt
  BY ChangeSaves
<1>2. Pure(reqs[r], b) /\ Of(mem, b) /\ (Says(mem) => Taken(b))
  BY ClaimsAreSo
<1>3. mem' \in {mem, receipt}
  BY DEF Change, Remembered
<1>4. Recalls(b)
  BY <1>2, <1>3 DEF Recalls, Of, Says
<1>5. w \in Writes /\ w.receipt = receipt /\ line' = Append(line, w)
  BY DEF Change, Writes, Receipts
<1>6. Tells(b)
  BY <1>5 DEF Tells, Of
<1>7. Pure(reqs'[r], b)
  BY <1>1, <1>2 DEF Pure, Of, SameAsk, Marked
<1>8. Claims(reqs'[r]) => Taken(b)
  BY <1>1 DEF Claims, Says, Saves
<1> QED
  BY <1>1, <1>4, <1>6, <1>7, <1>8 DEF Knows

\* An update says the bytes are admitted only when they are.
LEMMA UpdateKnows ==
  ASSUME Core, NEW b, Known(b), NEW r \in Requests, reqs[r].got # None,
         NEW state \in States \cup {"same"}, NEW emptied \in BOOLEAN, NEW then \in Steps,
         Update(r, state, emptied, then),
         state = "complete" \/ then = "finish" => Taken(b),
         then \notin {"saving", "replace", "admitted"},
         reqs[r].op = "complete" => Marked(reqs[r])
  PROVE  Knows(r, b) /\ Recalls(b) /\ Tells(b)
<1> DEFINE base == IF mem = None THEN reqs[r].got ELSE mem
           receipt == [base EXCEPT !.state = IF state = "same" THEN @ ELSE state,
                                   !.chunks = IF emptied THEN {} ELSE @]
<1>1. reqs[r] \in Request /\ reqs[r].got \in Receipts /\ mem \in Receipts \cup {None}
      /\ None \notin Receipts
  BY NoneIsNothing DEF Core, TypeOK, Request
<1>2. /\ Pure(reqs[r], b) /\ (Claims(reqs[r]) => Taken(b))
      /\ Of(mem, b) /\ (Says(mem) => Taken(b))
  BY ClaimsAreSo
<1>3. CASE Change(r, receipt, then, reqs)
  <2>1. base \in Receipts /\ base.content = b /\ (base.state = "complete" => Taken(b))
    BY <1>1, <1>2 DEF Pure, Of, Says, Claims
  <2> HIDE DEF base
  <2>2. base \in Receipts
    BY <2>1
  <2>3. receipt \in Receipts
    BY <2>2, UpdatedReceipt, Zenon
  <2>4. receipt.content = b /\ (receipt.state = "complete" => Taken(b))
    BY <2>1 DEF Receipts
  <2> HIDE DEF receipt
  <2> QED
    BY <1>3, <2>3, <2>4, ChangeKnows, ReqsAreLike
<1>4. CASE /\ mem # None
           /\ reqs' = [reqs EXCEPT ![r].pc = then, ![r].ok = TRUE]
           /\ UNCHANGED <<mem, line>>
  <2> DEFINE x == [reqs[r] EXCEPT !.pc = then, !.ok = TRUE]
  <2>1. /\ x.op = reqs[r].op /\ x.content = reqs[r].content /\ x.pc = then /\ x.got = reqs[r].got
        /\ x.meta = reqs[r].meta
    BY <1>1 DEF Request
  <2>2. reqs' = [reqs EXCEPT ![r] = x]
    BY <1>4 DEF Core, TypeOK
  <2> HIDE DEF x
  <2>3. Pure(x, b) /\ (Claims(x) => Taken(b))
    BY <1>2, <2>1 DEF Pure, Marked, Claims, Saves
  <2> QED
    BY <1>2, <1>4, <2>2, <2>3, EditKnows DEF Recalls, Tells
<1>5. CASE /\ mem # None
           /\ reqs' = [reqs EXCEPT ![r].pc = then, ![r].ok = TRUE, ![r].got = mem]
           /\ UNCHANGED <<mem, line>>
  <2> DEFINE x == [reqs[r] EXCEPT !.pc = then, !.ok = TRUE, !.got = mem]
  <2>1. /\ x.op = reqs[r].op /\ x.content = reqs[r].content /\ x.pc = then /\ x.got = mem
        /\ x.meta = reqs[r].meta
    BY <1>1 DEF Request
  <2>2. reqs' = [reqs EXCEPT ![r] = x]
    BY <1>5 DEF Core, TypeOK
  <2> HIDE DEF x
  <2>3. Pure(x, b) /\ (Claims(x) => Taken(b))
    BY <1>2, <2>1 DEF Pure, Marked, Claims, Saves
  <2> QED
    BY <1>2, <1>5, <2>2, <2>3, EditKnows DEF Recalls, Tells
<1> QED
  BY <1>3, <1>4, <1>5 DEF Update

\* Files that are discarded, and requests that see theirs replaced.
LEMMA DiscardLets ==
  ASSUME NEW b, Known(b), NEW d, NEW rs, DiscardOwn(d, rs)
  PROVE  sidecar' \in {None, b}
BY DEF DiscardOwn, NoFiles, files, Known, Only

\* A request that answers and discards its files knows nothing.
LEMMA DiscardKnows ==
  ASSUME Core, NEW b, Known(b), NEW r \in Requests, reqs[r].pc # "saving", NEW d,
         DiscardOwn(d, Over(reqs, r)), Unmark(r)
  PROVE  Knows(r, b)
<1>1. Moves(r) /\ reqs'[r] = Idle
  BY DiscardMoves
<1> QED
  BY <1>1, IdleIsPure DEF Knows, Moves

\* What a step leaves alone.
LEMMA LeavesAlone ==
  ASSUME Core, NEW b, Known(b)
  PROVE  /\ mem' = mem => Recalls(b)
         /\ mem' = None => Recalls(b)
         /\ line' = line => Tells(b)
         /\ phones' = phones /\ sidecar' \in {sidecar, None, b} => Lets(b)
BY ClaimsAreSo DEF Recalls, Tells, Lets, Known, Only, Of, Says

\* An answer reaches its phone, or not.
LEMMA DeliveredLets ==
  ASSUME Core, NEW b, Known(b), NEW r \in Requests,
         Delivered(r) \/ UNCHANGED phones, sidecar' \in {sidecar, None}
  PROVE  Lets(b)
<1>1. CASE UNCHANGED phones
  BY <1>1, LeavesAlone
<1>2. CASE phones' = [phones EXCEPT ![<<reqs[r].dev, reqs[r].content>>] = "gone"]
  BY <1>2 DEF Lets, Core, TypeOK, Known, Only
<1> QED
  BY <1>1, <1>2 DEF Delivered

-----------------------------------------------------------------------------
(* The steps of a request's receipt and of an announce.                     *)

\* A phone asks about the recording it holds.
LEMMA AskIsKnown ==
  ASSUME Core, NEW b, Known(b), NEW r \in Requests, NEW op \in Asks,
         NEW u \in Uploads, NEW c, Ask(r, op, u, c)
  PROVE  Known(b)'
<1> DEFINE x == [Idle EXCEPT !.op = op, !.dev = u[1], !.content = u[2], !.chunk = c, !.got = mem,
                             !.pc = IF mem = None THEN "fetch" ELSE "decide"]
<1>1. reqs' = [reqs EXCEPT ![r] = x] /\ phones[u] = "held"
  BY DEF Ask
<1>2. /\ x.op = op /\ x.content = u[2] /\ x.got = mem /\ x.pc \in {"fetch", "decide"}
  BY DEF Idle
<1> HIDE DEF x
<1>3. u[2] = b
  BY <1>1 DEF Known, Only
<1>4. Pure(x, b) /\ (Claims(x) => Taken(b))
  BY <1>2, <1>3, ClaimsAreSo DEF Pure, Claims, Marked, Reads, Saves
<1>5. Knows(r, b)
  BY <1>1, <1>4, EditKnows
<1>6. Recalls(b) /\ Tells(b) /\ Lets(b)
  BY LeavesAlone DEF Ask, memory, files, outside
<1> QED
  BY <1>5, <1>6, StepIsKnown DEF Ask

\* What the store's receipt reads as is so, whatever its row says.
LEMMA FetchIsKnown ==
  ASSUME Core, NEW b, Known(b), NEW r \in Requests, Fetch(r)
  PROVE  Known(b)'
<1> DEFINE x == [reqs[r] EXCEPT !.got = Stored(row), !.pc = IF row = None THEN "decide" ELSE "remember"]
<1>1. reqs[r].pc = "fetch" /\ reqs' = [reqs EXCEPT ![r] = x] /\ reqs[r] \in Request
  BY DEF Fetch, At, Core, TypeOK
<1>2. Of(Stored(row), b) /\ (Says(Stored(row)) => Taken(b))
  <2>1. row \in Receipts \cup {None} /\ Of(row, b)
    BY DEF Core, TypeOK, Known, Only
  <2>2. CASE row = None
    BY <2>2 DEF Stored, Of, Says
  <2>3. CASE row \in Receipts
    <3>1. row.content = b /\ b # None
      BY <2>1, <2>3, NoneIsNothing DEF Of, Receipts
    <3>2. Stored(row) \in {[row EXCEPT !.state = "complete"], [row EXCEPT !.state = "failed"], row}
      BY DEF Stored
    <3>3. Stored(row).content = b
      BY <2>3, <3>1, <3>2 DEF Receipts
    <3>4. Stored(row).state = "complete" => ledger[b] # "none"
      BY <2>3, <3>1, NoneIsNothing DEF Stored, Receipts
    <3> QED
      BY <3>1, <3>3, <3>4 DEF Of, Says, Taken
  <2> QED
    BY <2>1, <2>2, <2>3
<1>3. /\ x.op = reqs[r].op /\ x.content = reqs[r].content /\ x.got = Stored(row)
      /\ x.pc \in {"decide", "remember"}
  BY <1>1 DEF Request
<1> HIDE DEF x
<1>4. Pure(x, b) /\ (Claims(x) => Taken(b))
  BY <1>2, <1>3, ClaimsAreSo DEF Pure, Claims, Marked, Reads, Saves
<1>5. Knows(r, b)
  BY <1>1, <1>4, EditKnows
<1>6. Recalls(b) /\ Tells(b) /\ Lets(b)
  BY LeavesAlone DEF Fetch, memory, files, outside
<1> QED
  BY <1>5, <1>6, StepIsKnown DEF Fetch

\* Memory takes what was read, or wins over it.
LEMMA RememberIsKnown ==
  ASSUME Core, NEW b, Known(b), NEW r \in Requests, Remember(r)
  PROVE  Known(b)'
<1> DEFINE x == [reqs[r] EXCEPT !.got = IF mem = None THEN @ ELSE mem, !.pc = "decide"]
<1>1. reqs' = [reqs EXCEPT ![r] = x] /\ reqs[r] \in Request
  BY DEF Remember, At, Core, TypeOK
<1>2. /\ Of(mem, b) /\ (Says(mem) => Taken(b))
      /\ Pure(reqs[r], b) /\ (Says(reqs[r].got) => Taken(b))
  BY ClaimsAreSo DEF Claims
<1>3. /\ x.op = reqs[r].op /\ x.content = reqs[r].content /\ x.got \in {mem, reqs[r].got}
      /\ x.pc = "decide"
  BY <1>1 DEF Request
<1> HIDE DEF x
<1>4. Pure(x, b) /\ (Claims(x) => Taken(b))
  BY <1>2, <1>3 DEF Pure, Claims, Marked, Reads, Saves
<1>5. Knows(r, b)
  BY <1>1, <1>4, EditKnows
<1>6. mem' \in {mem, reqs[r].got}
  BY DEF Remember, Remembered
<1>7. Recalls(b)
  BY <1>2, <1>6 DEF Recalls, Pure
<1>8. Tells(b) /\ Lets(b)
  BY LeavesAlone DEF Remember, files, outside
<1> QED
  BY <1>5, <1>7, <1>8, StepIsKnown DEF Remember

\* A request that answers and leaves memory, the line and the store alone.
LEMMA AnswersAreKnown ==
  ASSUME Core, NEW b, Known(b), NEW r \in Requests,
         Status(r) \/ Missing(r) \/ Conflict(r) \/ Stays(r) \/ Paired(r)
  PROVE  Known(b)'
<1>1. Knows(r, b)
  BY PlainAnswerKnows DEF Status, Missing, Conflict, Stays, Paired
<1>2. Recalls(b) /\ Tells(b)
  BY LeavesAlone DEF Status, Missing, Conflict, Stays, Paired, memory
<1>3. Lets(b)
  BY DeliveredLets DEF Status, Missing, Conflict, Stays, Paired, files, outside
<1>4. UNCHANGED store
  BY DEF Status, Missing, Conflict, Stays, Paired
<1> QED
  BY <1>1, <1>2, <1>3, <1>4, StepIsKnown

\* An announce of the receipt's bytes, or of others.
LEMMA AnnounceIsKnown ==
  ASSUME Core, NEW b, Known(b), NEW r \in Requests, Announce(r)
  PROVE  Known(b)'
<1>1. reqs[r].op = "announce"
  BY DEF Announce, Decides
<1>2. Knows(r, b)
  BY <1>1, PlainAnswerKnows, GoesKnows DEF Announce
<1>3. Recalls(b) /\ Tells(b) /\ Lets(b)
  BY LeavesAlone DEF Announce, memory, files, outside
<1> QED
  BY <1>2, <1>3, StepIsKnown DEF Announce

\* Another decision, of memory's receipt.
LEMMA DecideAgainKnows ==
  ASSUME Core, NEW b, Known(b), NEW r \in Requests, reqs[r].op = "announce", DecideAgain(r)
  PROVE  Knows(r, b) /\ Recalls(b) /\ Tells(b)
<1> DEFINE x == [reqs[r] EXCEPT !.got = mem, !.pc = "decide"]
<1>1. reqs' = [reqs EXCEPT ![r] = x] /\ reqs[r] \in Request
  BY DEF DecideAgain, Core, TypeOK
<1>2. x.op = "announce" /\ x.content = reqs[r].content /\ x.got = mem /\ x.pc = "decide"
  BY <1>1 DEF Request
<1> HIDE DEF x
<1>3. Pure(x, b) /\ (Claims(x) => Taken(b))
  BY <1>2, ClaimsAreSo DEF Pure, Claims, Marked, Reads, Saves, Asks
<1> QED
  BY <1>1, <1>3, EditKnows, LeavesAlone DEF DecideAgain

\* Another device takes the receipt over, as complete as it was.
LEMMA TakeOverIsKnown ==
  ASSUME Core, NEW b, Known(b), NEW r \in Requests, TakeOver(r)
  PROVE  Known(b)'
<1> DEFINE taken == [reqs[r].got EXCEPT !.dev = reqs[r].dev]
           then == IF taken.state = "complete" THEN "answer" ELSE "resume"
<1>1. /\ reqs[r].op = "announce" /\ reqs[r].op \in Asks /\ SameBytes(r)
      /\ Fine(reqs[r]) /\ reqs[r] \in Request
  BY DEF TakeOver, Decides, Asks, Core, AllFine, Fine
<1>2. reqs[r].got \in Receipts /\ reqs[r].dev \in Devices
  BY <1>1, AskParts DEF SameBytes, Request
<1>3. taken \in Receipts /\ taken.content = reqs[r].got.content /\ taken.state = reqs[r].got.state
  BY <1>2 DEF Receipts
<1>4. reqs[r].got.content = b /\ (reqs[r].got.state = "complete" => Taken(b))
  BY <1>1, ClaimsAreSo DEF SameBytes, Pure, Of, Claims, Says
<1>5. then \in Steps /\ then # "finish"
  BY DEF Steps
<1>6. DecideAgain(r) \/ Change(r, taken, then, reqs)
  BY DEF TakeOver
<1> HIDE DEF taken, then
<1>7. Knows(r, b) /\ Recalls(b) /\ Tells(b)
  BY <1>1, <1>3, <1>4, <1>5, <1>6, DecideAgainKnows, ChangeKnows, ReqsAreLike
<1>8. Lets(b)
  BY LeavesAlone DEF TakeOver, files, outside
<1> QED
  BY <1>7, <1>8, StepIsKnown DEF TakeOver

\* What the ledger says of the announced bytes.
LEMMA ReadLedgerIsKnown ==
  ASSUME Core, NEW b, Known(b), NEW r \in Requests, ReadLedger(r)
  PROVE  Known(b)'
<1> DEFINE x == [reqs[r] EXCEPT !.ok = (ledger[reqs[r].content] = "none"), !.pc = "replace"]
<1>1. reqs[r].pc = "ledger" /\ Fine(reqs[r]) /\ reqs[r] \in Request
  BY DEF ReadLedger, At, Core, AllFine, Fine
<1>2. reqs[r].op = "announce" /\ reqs[r].op \in Asks /\ reqs[r].content \in Contents
  BY <1>1, RouteOf, AskParts DEF Asks
<1>3. reqs[r].content = b /\ b # None
  BY <1>2, ClaimsAreSo, NoneIsNothing DEF Pure
<1>4. reqs' = [reqs EXCEPT ![r] = x]
  BY DEF ReadLedger, Core, TypeOK
<1>5. /\ x.op = reqs[r].op /\ x.content = reqs[r].content /\ x.got = reqs[r].got
      /\ x.pc = "replace"
  BY <1>1 DEF Request
<1>6. ~x.ok => ledger[b] # "none"
  BY <1>1, <1>3 DEF Request
<1> HIDE DEF x
<1>7. Pure(x, b) /\ (Claims(x) => Taken(b))
  BY <1>2, <1>3, <1>5, <1>6, ClaimsAreSo DEF Pure, Claims, Marked, Saves, Taken
<1>8. Knows(r, b)
  BY <1>4, <1>7, EditKnows
<1>9. Recalls(b) /\ Tells(b) /\ Lets(b)
  BY LeavesAlone DEF ReadLedger, memory, files, outside
<1> QED
  BY <1>8, <1>9, StepIsKnown DEF ReadLedger

-----------------------------------------------------------------------------
(* make_and_open, the re-announce and the chunks.                           *)

\* A fresh receipt is complete only over bytes the ledger had.
LEMMA ReplaceIsKnown ==
  ASSUME Core, NEW b, Known(b), NEW r \in Requests, Replace(r)
  PROVE  Known(b)'
<1> DEFINE admitted == ~reqs[r].ok
           fresh == [dev |-> reqs[r].dev, content |-> reqs[r].content, chunks |-> {},
                     state |-> IF admitted THEN "complete" ELSE "receiving"]
<1>1. reqs[r].pc = "replace" /\ Fine(reqs[r]) /\ reqs[r] \in Request
  BY DEF Replace, At, Core, AllFine, Fine
<1>2. /\ reqs[r].op = "announce" /\ reqs[r].op \in Asks
      /\ reqs[r].content \in Contents /\ reqs[r].dev \in Devices
  BY <1>1, RouteOf, AskParts DEF Asks
<1>3. reqs[r].content = b
  BY <1>2, ClaimsAreSo DEF Pure
<1>4. fresh \in Receipts /\ fresh.content = b
  BY <1>2, <1>3 DEF Receipts, States
<1>5. fresh.state = "complete" => Taken(b)
  BY <1>1, ClaimsAreSo DEF Claims
<1>6. {"opened", "answer"} \subseteq Steps
  BY DEF Steps
<1>7. \/ Answer(r) /\ UNCHANGED <<mem, line, files>>
      \/ DecideAgain(r) /\ UNCHANGED files
      \/ Change(r, fresh, "opened", Closed(reqs)) /\ OpenFiles(reqs[r], admitted)
      \/ Change(r, fresh, "answer", reqs) /\ UNCHANGED files
  BY DEF Replace
<1> HIDE DEF fresh, admitted
<1>8. sidecar' \in {sidecar, None, b}
  BY <1>3, <1>7 DEF files, OpenFiles
<1>9. Lets(b)
  BY <1>8, LeavesAlone DEF Replace, outside
<1>10. Knows(r, b) /\ Recalls(b) /\ Tells(b)
  <2>1. CASE Answer(r) /\ UNCHANGED <<mem, line, files>>
    BY <2>1, PlainAnswerKnows, LeavesAlone
  <2>2. CASE DecideAgain(r)
    BY <1>2, <2>2, DecideAgainKnows
  <2>3. CASE Change(r, fresh, "opened", Closed(reqs))
    BY <1>2, <1>4, <1>5, <1>6, <2>3, ChangeKnows, ClosedIsLike
  <2>4. CASE Change(r, fresh, "answer", reqs)
    BY <1>2, <1>4, <1>5, <1>6, <2>4, ChangeKnows, ReqsAreLike
  <2> QED
    BY <1>7, <2>1, <2>2, <2>3, <2>4
<1> QED
  BY <1>9, <1>10, StepIsKnown DEF Replace

\* The ends of an announce: the files stay, or go again.
LEMMA OpenedIsKnown ==
  ASSUME Core, NEW b, Known(b), NEW r \in Requests, Opened(r) \/ Resumed(r)
  PROVE  Known(b)'
<1>1. reqs[r].pc # "saving" /\ Unmark(r)
  BY DEF Opened, Resumed, At
<1>2. \/ DiscardOwn(reqs[r].dev, Over(reqs, r))
      \/ reqs' = Over(reqs, r) /\ UNCHANGED files
  BY DEF Opened, Resumed
<1>3. Knows(r, b)
  BY <1>1, <1>2, DiscardKnows, PlainAnswerKnows
<1>4. sidecar' \in {sidecar, None, b}
  BY <1>2, DiscardLets DEF files
<1>5. Recalls(b) /\ Tells(b) /\ Lets(b)
  BY <1>4, LeavesAlone DEF Opened, Resumed, memory, outside
<1> QED
  BY <1>3, <1>5, StepIsKnown DEF Opened, Resumed

\* The owner's re-announce opens files of the same bytes.
LEMMA ResumeIsKnown ==
  ASSUME Core, NEW b, Known(b), NEW r \in Requests, Resume(r)
  PROVE  Known(b)'
<1> DEFINE there == verified # None \/ (partial # None /\ sidecar # None)
           x == [reqs[r] EXCEPT !.pc = "reopened", !.ok = there]
<1>1. reqs[r].pc = "resume" /\ Fine(reqs[r]) /\ reqs[r] \in Request
  BY DEF Resume, At, Core, AllFine, Fine
<1>2. reqs[r].op = "announce" /\ reqs[r].op \in Asks
  BY <1>1, RouteOf DEF Asks
<1>3. reqs[r].content = b
  BY <1>2, ClaimsAreSo DEF Pure
<1>4. \/ Answer(r) /\ UNCHANGED files
      \/ /\ reqs' = [reqs EXCEPT ![r] = x]
         /\ sidecar' = IF there THEN sidecar ELSE reqs[r].content
  BY DEF Resume, Core, TypeOK
<1>5. /\ x.op = reqs[r].op /\ x.content = reqs[r].content /\ x.got = reqs[r].got
      /\ x.pc = "reopened"
  BY <1>1 DEF Request
<1> HIDE DEF x
<1>6. Pure(x, b) /\ (Claims(x) => Taken(b))
  BY <1>2, <1>5, ClaimsAreSo DEF Pure, Claims, Marked, Saves, Asks
<1>7. Knows(r, b)
  BY <1>4, <1>6, EditKnows, PlainAnswerKnows
<1>8. sidecar' \in {sidecar, None, b}
  BY <1>3, <1>4 DEF files
<1>9. Recalls(b) /\ Tells(b) /\ Lets(b)
  BY <1>8, LeavesAlone DEF Resume, memory, outside
<1> QED
  BY <1>7, <1>9, StepIsKnown DEF Resume

\* A re-announce keeps the receipt's bytes, and claims nothing new.
LEMMA ReopenedIsKnown ==
  ASSUME Core, NEW b, Known(b), NEW r \in Requests, Reopened(r)
  PROVE  Known(b)'
<1>1. reqs[r].pc = "reopened" /\ Fine(reqs[r]) /\ reqs[r].op = "announce"
  BY RouteOf DEF Reopened, At, Core, AllFine
<1>2. reqs[r].got # None
  BY <1>1 DEF Fine, Asks
<1>3. "receiving" \in States /\ "resumed" \in Steps /\ (~reqs[r].ok) \in BOOLEAN
  BY DEF States, Steps
<1>4. Knows(r, b) /\ Recalls(b) /\ Tells(b)
  BY <1>1, <1>2, <1>3, UpdateKnows DEF Reopened
<1>5. Lets(b)
  BY LeavesAlone DEF Reopened, files, outside
<1> QED
  BY <1>4, <1>5, StepIsKnown DEF Reopened

\* A chunk is answered, or goes on to be written and counted.
LEMMA ChunkIsKnown ==
  ASSUME Core, NEW b, Known(b), NEW r \in Requests, Chunk(r) \/ WriteChunk(r)
  PROVE  Known(b)'
<1>1. reqs[r].op = "chunk"
  BY RouteOf DEF Chunk, WriteChunk, Decides, At, Core, AllFine
<1>2. Answer(r) \/ Goes(r, "writing") \/ Goes(r, "written")
  BY DEF Chunk, WriteChunk
<1>3. Knows(r, b)
  BY <1>1, <1>2, PlainAnswerKnows, GoesKnows
<1>4. Recalls(b) /\ Tells(b) /\ Lets(b)
  BY LeavesAlone DEF Chunk, WriteChunk, memory, files, outside
<1> QED
  BY <1>3, <1>4, StepIsKnown DEF Chunk, WriteChunk

\* A counted chunk leaves a receipt of `b` that is not complete.
LEMMA AddChunkIsKnown ==
  ASSUME Core, NEW b, Known(b), NEW r \in Requests, AddChunk(r)
  PROVE  Known(b)'
<1> DEFINE added == [mem EXCEPT !.state = "receiving", !.chunks = @ \cup {reqs[r].chunk}]
<1>1. reqs[r].pc = "written" /\ Fine(reqs[r]) /\ reqs[r].op = "chunk"
  BY RouteOf DEF AddChunk, At, Core, AllFine
<1>2. reqs[r].chunk \in Chunks
  BY <1>1 DEF Fine
<1>3. \/ Answer(r) /\ UNCHANGED <<mem, line>>
      \/ mem # None /\ Change(r, added, "answer", reqs)
  BY DEF AddChunk
<1>4. mem # None => added \in Receipts /\ added.content = b /\ added.state # "complete"
  <2>1. mem \in Receipts \cup {None} /\ Of(mem, b)
    BY ClaimsAreSo DEF Core, TypeOK
  <2> QED
    BY <1>2, <2>1 DEF Receipts, States, Of
<1>5. "answer" \in Steps
  BY DEF Steps
<1> HIDE DEF added
<1>6. Knows(r, b) /\ Recalls(b) /\ Tells(b)
  <2>1. CASE Answer(r) /\ UNCHANGED <<mem, line>>
    BY <2>1, PlainAnswerKnows, LeavesAlone
  <2>2. CASE mem # None /\ Change(r, added, "answer", reqs)
    BY <1>1, <1>4, <1>5, <2>2, ChangeKnows, ReqsAreLike
  <2> QED
    BY <1>3, <2>1, <2>2
<1>7. Lets(b)
  BY LeavesAlone DEF AddChunk, files, outside
<1> QED
  BY <1>6, <1>7, StepIsKnown DEF AddChunk

-----------------------------------------------------------------------------
(* complete.                                                                *)

\* The checks of `complete`: it takes the recording's metadata, or answers.
LEMMA CompleteIsKnown ==
  ASSUME Core, NEW b, Known(b), NEW r \in Requests, Complete(r)
  PROVE  Known(b)'
<1>1. /\ reqs[r].op = "complete" /\ reqs[r].pc = "decide" /\ reqs[r] \in Request
  BY DEF Complete, Decides, At, Core, TypeOK
<1>2. Recalls(b) /\ Tells(b)
  BY LeavesAlone DEF Complete
<1>3. sidecar' \in {sidecar, None} /\ (Delivered(r) \/ UNCHANGED phones)
  BY DEF Complete, files, NoFiles
<1>4. Lets(b)
  BY <1>3, DeliveredLets
<1>5. Knows(r, b)
  <2>1. CASE Answer(r) \/ reqs' = Over(reqs, r)
    BY <2>1, PlainAnswerKnows
  <2>2. CASE reqs' = Over(Closed(reqs), r)
    BY <2>2, AnswerKnows, ClosedIsLike
  <2>3. CASE /\ reqs' = [reqs EXCEPT ![r].pc = "verify", ![r].meta = sidecar]
             /\ sidecar # None
    <3> DEFINE x == [reqs[r] EXCEPT !.pc = "verify", !.meta = sidecar]
    <3>1. /\ x.op = "complete" /\ x.content = reqs[r].content /\ x.pc = "verify"
          /\ x.got = reqs[r].got /\ x.meta = sidecar
      BY <1>1 DEF Request
    <3>2. reqs' = [reqs EXCEPT ![r] = x]
      BY <2>3 DEF Core, TypeOK
    <3> HIDE DEF x
    <3>3. sidecar = b
      BY <2>3 DEF Known, Only
    <3>4. Pure(x, b) /\ (Claims(x) => Taken(b))
      BY <1>1, <3>1, <3>3, ClaimsAreSo DEF Pure, Claims, Marked, Saves
    <3> QED
      BY <3>2, <3>4, EditKnows
  <2> QED
    BY <2>1, <2>2, <2>3 DEF Complete
<1> QED
  BY <1>2, <1>4, <1>5, StepIsKnown DEF Complete

\* A `complete` past its checks updates the receipt.
LEMMA CompleteUpdateKnows ==
  ASSUME Core, NEW b, Known(b), NEW r \in Requests, reqs[r].pc \in Completes,
         NEW state \in States \cup {"same"}, NEW emptied \in BOOLEAN,
         NEW then \in {"missing", "verifying", "conflict", "finish", "stays"},
         Update(r, state, emptied, then),
         state = "complete" \/ then = "finish" => Taken(b)
  PROVE  Knows(r, b) /\ Recalls(b) /\ Tells(b)
<1>1. Marked(reqs[r]) /\ reqs[r].got # None
  BY AtComplete
<1>2. then \in Steps /\ then \notin {"saving", "replace", "admitted"}
  BY DEF Steps
<1> QED
  BY <1>1, <1>2, UpdateKnows

\* What the file is called, where the hash is to be taken, or what is missing.
LEMMA VerifyIsKnown ==
  ASSUME Core, NEW b, Known(b), NEW r \in Requests, Verify(r)
  PROVE  Known(b)'
<1>1. reqs[r].pc = "verify" /\ reqs[r].pc \in Completes /\ "same" \in States \cup {"same"}
  BY DEF Verify, At, Completes
<1>2. Marked(reqs[r]) /\ reqs[r] \in Request
  BY <1>1, AtComplete
<1>3. Lets(b)
  BY LeavesAlone DEF Verify, files, outside
<1>4. Knows(r, b) /\ Recalls(b) /\ Tells(b)
  <2>1. CASE Goes(r, "intake") /\ UNCHANGED <<mem, line>>
    BY <1>2, <2>1, GoesKnows, LeavesAlone
  <2>2. CASE Update(r, "same", TRUE, "missing")
    BY <1>1, <2>2, CompleteUpdateKnows
  <2>3. CASE Answer(r) /\ UNCHANGED <<mem, line>>
    BY <2>3, PlainAnswerKnows, LeavesAlone
  <2>4. CASE /\ reqs' = [reqs EXCEPT ![r].pc = "open", ![r].file = "open"]
             /\ UNCHANGED <<mem, line>>
    <3> DEFINE x == [reqs[r] EXCEPT !.pc = "open", !.file = "open"]
    <3>1. /\ x.op = reqs[r].op /\ x.content = reqs[r].content /\ x.pc = "open"
          /\ x.got = reqs[r].got /\ x.meta = reqs[r].meta
      BY <1>2 DEF Request
    <3>2. reqs' = [reqs EXCEPT ![r] = x]
      BY <2>4 DEF Core, TypeOK
    <3> HIDE DEF x
    <3>3. Pure(x, b) /\ (Claims(x) => Taken(b))
      BY <1>2, <3>1, ClaimsAreSo DEF Pure, Claims, Marked, Saves
    <3> QED
      BY <2>4, <3>2, <3>3, EditKnows, LeavesAlone
  <2> QED
    BY <2>1, <2>2, <2>3, <2>4 DEF Verify
<1> QED
  BY <1>3, <1>4, StepIsKnown DEF Verify

\* Steps that only update the receipt; the one that admits has admitted.
LEMMA UpdatesAreKnown ==
  ASSUME Core, NEW b, Known(b), NEW r \in Requests,
         SetVerifying(r) \/ Damaged(r) \/ Admitted(r) \/ Refused(r)
  PROVE  Known(b)'
<1>1. {"verifying", "failed", "complete"} \subseteq States \cup {"same"}
  BY DEF States
<1>2. {"open", "damaged", "admitted", "refused"} \subseteq Completes
  BY DEF Completes
<1>3. Lets(b) /\ UNCHANGED store
  BY LeavesAlone DEF SetVerifying, Damaged, Admitted, Refused, files, outside
<1>4. CASE SetVerifying(r)
  BY <1>1, <1>2, <1>3, <1>4, CompleteUpdateKnows, StepIsKnown DEF SetVerifying, At
<1>5. CASE Damaged(r)
  BY <1>1, <1>2, <1>3, <1>5, CompleteUpdateKnows, StepIsKnown DEF Damaged, At
<1>6. CASE Admitted(r)
  <2>1. Taken(b)
    BY <1>2, <1>6, AtComplete, ClaimsAreSo DEF Admitted, At, Claims
  <2> QED
    BY <1>1, <1>2, <1>3, <1>6, <2>1, CompleteUpdateKnows, StepIsKnown DEF Admitted, At
<1>7. CASE Refused(r)
  BY <1>1, <1>2, <1>3, <1>7, CompleteUpdateKnows, StepIsKnown DEF Refused, At
<1> QED
  BY <1>4, <1>5, <1>6, <1>7

\* The answer of a receipt found complete, or the hash.
LEMMA VerifyingIsKnown ==
  ASSUME Core, NEW b, Known(b), NEW r \in Requests, Verifying(r)
  PROVE  Known(b)'
<1>1. reqs[r].pc \in Completes
  BY DEF Verifying, At, Completes
<1>2. Marked(reqs[r])
  BY <1>1, AtComplete
<1>3. Knows(r, b)
  BY <1>2, PlainAnswerKnows, GoesKnows DEF Verifying
<1>4. Recalls(b) /\ Tells(b)
  BY LeavesAlone DEF Verifying, memory
<1>5. Lets(b)
  BY DeliveredLets DEF Verifying, files
<1> QED
  BY <1>3, <1>4, <1>5, StepIsKnown DEF Verifying

\* A hash admits nothing.
LEMMA HashIsKnown ==
  ASSUME Core, NEW b, Known(b), NEW r \in Requests, Hash(r)
  PROVE  Known(b)'
<1> DEFINE x == [reqs[r] EXCEPT !.pc = "hashed",
                   !.ok = (reqs[r].file = "open" /\ Whole(partial, reqs[r].got.content))]
<1>1. reqs[r].pc \in Completes
  BY DEF Hash, At, Completes
<1>2. Marked(reqs[r]) /\ reqs[r] \in Request
  BY <1>1, AtComplete
<1>3. /\ x.op = reqs[r].op /\ x.content = reqs[r].content /\ x.pc = "hashed"
      /\ x.got = reqs[r].got /\ x.meta = reqs[r].meta
  BY <1>2 DEF Request
<1>4. reqs' = [reqs EXCEPT ![r] = x]
  BY DEF Hash, Core, TypeOK
<1> HIDE DEF x
<1>5. Pure(x, b) /\ (Claims(x) => Taken(b))
  BY <1>2, <1>3, ClaimsAreSo DEF Pure, Claims, Marked, Saves
<1>6. Knows(r, b) /\ Recalls(b) /\ Tells(b) /\ Lets(b)
  BY <1>4, <1>5, EditKnows, LeavesAlone DEF Hash, memory, files, outside
<1> QED
  BY <1>6, StepIsKnown DEF Hash

-----------------------------------------------------------------------------
(* The end of a verify, and the admission.                                  *)

\* The hash's answers: none of them admits.
LEMMA HashedIsKnown ==
  ASSUME Core, NEW b, Known(b), NEW r \in Requests, Hashed(r)
  PROVE  Known(b)'
<1>1. reqs[r].pc = "hashed" /\ reqs[r].pc \in Completes /\ "receiving" \in States \cup {"same"}
  BY DEF Hashed, At, Completes, States
<1>2. Marked(reqs[r]) /\ reqs[r].pc # "saving" /\ reqs[r].op = "complete"
  BY <1>1, AtComplete
<1>3. CASE Unmark(r) /\ DiscardOwn(reqs[r].dev, Over(reqs, r)) /\ UNCHANGED <<mem, line>>
  <2>1. Knows(r, b) /\ sidecar' \in {None, b}
    BY <1>2, <1>3, DiscardKnows, DiscardLets
  <2> QED
    BY <1>3, <2>1, LeavesAlone, StepIsKnown DEF Hashed, outside
<1>4. CASE reqs' = Over(reqs, r) /\ UNCHANGED <<mem, line, files>>
  <2>1. Knows(r, b)
    BY <1>4, PlainAnswerKnows
  <2> QED
    BY <1>4, <2>1, LeavesAlone, StepIsKnown DEF Hashed, outside, files
<1>5. CASE Update(r, "receiving", TRUE, "conflict") /\ UNCHANGED files
  <2>1. Knows(r, b) /\ Recalls(b) /\ Tells(b)
    BY <1>1, <1>5, CompleteUpdateKnows
  <2> QED
    BY <1>5, <2>1, LeavesAlone, StepIsKnown DEF Hashed, outside, files
<1>6. CASE /\ DiscardOwn(reqs[r].dev, [reqs EXCEPT ![r].pc = "damaged"])
           /\ UNCHANGED <<mem, line, completing>>
  <2>1. /\ Moves(r) /\ SameAsk(reqs'[r], reqs[r])
        /\ reqs'[r].pc = "damaged" /\ reqs'[r].got = reqs[r].got
    BY <1>1, <1>6, DamagedMoves
  <2>2. Pure(reqs'[r], b) /\ (Claims(reqs'[r]) => Taken(b))
    BY <1>2, <2>1, ClaimsAreSo DEF Pure, Claims, Marked, Saves, SameAsk
  <2>3. Knows(r, b)
    BY <2>1, <2>2 DEF Knows, Moves
  <2>4. sidecar' \in {None, b}
    BY <1>6, DiscardLets
  <2> QED
    BY <1>6, <2>3, <2>4, LeavesAlone, StepIsKnown DEF Hashed, outside
<1>7. CASE Goes(r, "promote") /\ UNCHANGED <<mem, line, files>>
  <2>1. Knows(r, b)
    BY <1>2, <1>7, GoesKnows
  <2> QED
    BY <1>7, <2>1, LeavesAlone, StepIsKnown DEF Hashed, outside, files
<1> QED
  BY <1>3, <1>4, <1>5, <1>6, <1>7 DEF Hashed

\* The rename, or an answer without one.
LEMMA PromoteIsKnown ==
  ASSUME Core, NEW b, Known(b), NEW r \in Requests, Promote(r)
  PROVE  Known(b)'
<1>1. reqs[r].pc \in Completes /\ "receiving" \in States \cup {"same"}
  BY DEF Promote, At, Completes, States
<1>2. Marked(reqs[r]) /\ reqs[r] \in Request
  BY <1>1, AtComplete
<1>3. Lets(b)
  BY LeavesAlone DEF Promote, outside
<1>4. Knows(r, b) /\ Recalls(b) /\ Tells(b)
  <2>1. CASE Answer(r) /\ UNCHANGED <<mem, line>>
    BY <2>1, PlainAnswerKnows, LeavesAlone
  <2>2. CASE Update(r, "receiving", TRUE, "conflict")
    BY <1>1, <2>2, CompleteUpdateKnows
  <2>3. CASE /\ reqs' = [reqs EXCEPT ![r].pc = "intake", ![r].file = "closed"]
             /\ UNCHANGED <<mem, line>>
    <3> DEFINE x == [reqs[r] EXCEPT !.pc = "intake", !.file = "closed"]
    <3>1. /\ x.op = reqs[r].op /\ x.content = reqs[r].content /\ x.pc = "intake"
          /\ x.got = reqs[r].got /\ x.meta = reqs[r].meta
      BY <1>2 DEF Request
    <3>2. reqs' = [reqs EXCEPT ![r] = x]
      BY <2>3 DEF Core, TypeOK
    <3> HIDE DEF x
    <3>3. Pure(x, b) /\ (Claims(x) => Taken(b))
      BY <1>2, <3>1, ClaimsAreSo DEF Pure, Claims, Marked, Saves
    <3> QED
      BY <2>3, <3>2, <3>3, EditKnows, LeavesAlone
  <2> QED
    BY <2>1, <2>2, <2>3 DEF Promote
<1> QED
  BY <1>3, <1>4, StepIsKnown DEF Promote

\* The intake answers `admitted` over a row whose bytes have a meeting.
LEMMA IntakeIsKnown ==
  ASSUME Core, NEW b, Known(b), NEW r \in Requests, Intake(r)
  PROVE  Known(b)'
<1>1. reqs[r].pc \in Completes
  BY DEF Intake, At, Completes
<1>2. Marked(reqs[r]) /\ reqs[r] \in Request
  BY <1>1, AtComplete
<1>3. ASSUME Goes(r, "refused")
      PROVE  Knows(r, b)
  BY <1>2, <1>3, GoesKnows
<1>4. ASSUME Goes(r, "admitted"), row # None, ledger[row.content] = "kept"
      PROVE  Knows(r, b)
  <2>1. row \in Receipts /\ row.content = b
    BY <1>4 DEF Core, TypeOK, Known, Only, Of
  <2>2. row.content \in Contents
    BY <2>1 DEF Receipts
  <2>3. Taken(b)
    BY <1>4, <2>1, <2>2, NoneIsNothing DEF Taken
  <2> QED
    BY <1>2, <1>4, <2>3, GoesKnows
<1>5. ASSUME reqs' = [reqs EXCEPT ![r].pc = "commit", ![r].copied = verified]
      PROVE  Knows(r, b)
  <2> DEFINE x == [reqs[r] EXCEPT !.pc = "commit", !.copied = verified]
  <2>1. /\ x.op = reqs[r].op /\ x.content = reqs[r].content /\ x.pc = "commit"
        /\ x.got = reqs[r].got /\ x.meta = reqs[r].meta
    BY <1>2 DEF Request
  <2>2. reqs' = [reqs EXCEPT ![r] = x]
    BY <1>5 DEF Core, TypeOK
  <2> HIDE DEF x
  <2>3. Pure(x, b) /\ (Claims(x) => Taken(b))
    BY <1>2, <2>1, ClaimsAreSo DEF Pure, Claims, Marked, Saves
  <2> QED
    BY <2>2, <2>3, EditKnows
<1>6. Knows(r, b)
  BY <1>3, <1>4, <1>5 DEF Intake
<1>7. Recalls(b) /\ Tells(b) /\ Lets(b)
  BY LeavesAlone DEF Intake, memory, files
<1> QED
  BY <1>6, <1>7, StepIsKnown DEF Intake

\* What the admission's transaction leaves.
LEMMA CommitsLeave ==
  ASSUME Core, NEW b, Known(b), NEW r \in Requests, reqs[r].pc = "commit", Commits(r)
  PROVE  b \in Contents /\ ledger' = [ledger EXCEPT ![b] = "kept"] /\ Stores(b) /\ Taken(b)'
<1>1. Marked(reqs[r]) /\ reqs[r].meta \in Contents
  BY AtComplete DEF Completes
<1>2. reqs[r].meta = b /\ b \in Contents
  BY <1>1, ClaimsAreSo DEF Pure
<1>3. ledger' = [ledger EXCEPT ![b] = "kept"] /\ ledger \in [Contents -> Fates]
  BY <1>2 DEF Commits, Core, TypeOK
<1>4. ledger'[b] = "kept" /\ \A c \in Contents : c # b => ledger'[c] = ledger[c]
  BY <1>2, <1>3
<1>5. Taken(b)'
  BY <1>2, <1>4, NoneIsNothing DEF Taken
<1>6. row'.content = b /\ safe'.row = row' /\ safe'.ledger = ledger'
  BY <1>2 DEF Commits, Row, Now
<1>7. Of(row', b) /\ Of(safe'.row, b)
  BY <1>6 DEF Of
<1>8. \A c \in Contents : ledger'[c] # "none" => c = b
  BY <1>4 DEF Known, Only
<1>9. SafeKnows'
  BY <1>6 DEF SafeKnows
<1> QED
  BY <1>2, <1>3, <1>5, <1>7, <1>8, <1>9 DEF Stores

\* The admission, that fails or says what is so from then on.
LEMMA CommitIsKnown ==
  ASSUME Core, NEW b, Known(b), NEW r \in Requests, Commit(r)
  PROVE  Known(b)'
<1>1. reqs[r].pc = "commit" /\ reqs[r].pc \in Completes
  BY DEF Commit, At, Completes
<1>2. Marked(reqs[r]) /\ reqs[r] \in Request
  BY <1>1, AtComplete
<1>3. Recalls(b) /\ Tells(b) /\ Lets(b)
  BY LeavesAlone DEF Commit, memory
<1>4. CASE Goes(r, "refused") /\ UNCHANGED <<row, safe, ledger, verified, faults>>
  <2>1. Knows(r, b)
    BY <1>2, <1>4, GoesKnows
  <2> QED
    BY <1>3, <1>4, <2>1, StepIsKnown DEF Commit, store
<1>5. CASE Commits(r)
  <2> DEFINE x == [reqs[r] EXCEPT !.pc = "admitted", !.copied = None]
  <2>1. Stores(b) /\ Taken(b)'
    BY <1>1, <1>5, CommitsLeave
  <2>2. /\ x.op = reqs[r].op /\ x.content = reqs[r].content /\ x.pc = "admitted"
        /\ x.got = reqs[r].got /\ x.meta = reqs[r].meta
    BY <1>2 DEF Request
  <2>3. reqs' = [reqs EXCEPT ![r] = x]
    BY <1>5 DEF Commits, Core, TypeOK
  <2> HIDE DEF x
  <2>4. Pure(x, b)
    BY <1>2, <2>2, ClaimsAreSo DEF Pure, Marked
  <2>5. reqs'[r] = x /\ \A s \in Requests : s # r => Like(reqs'[s], reqs[s])
    BY <2>3, ReqsAreLike DEF Core, TypeOK
  <2> QED
    BY <1>3, <2>1, <2>4, <2>5, MovesAreKnown
<1>6. CASE CommitFails(r)
  <2>1. reqs[r].meta = b
    BY <1>2, ClaimsAreSo DEF Pure
  <2>2. row'.content = b /\ safe'.row = row' /\ safe'.ledger = ledger' /\ ledger' = ledger
    BY <1>6, <2>1 DEF CommitFails, Row, Now
  <2>3. Stores(b)
    BY <2>2 DEF Stores, Of, SafeKnows, Taken, Known, Only
  <2>4. Knows(r, b)
    BY <1>2, <1>6, GoesKnows DEF CommitFails
  <2>5. Claims(reqs'[r]) => Taken(b)'
    BY <2>3, <2>4 DEF Knows, Stores
  <2> QED
    BY <1>3, <2>3, <2>4, <2>5, MovesAreKnown DEF Knows
<1> QED
  BY <1>4, <1>5, <1>6 DEF Commit

\* The answer of an admission.
LEMMA FinishIsKnown ==
  ASSUME Core, NEW b, Known(b), NEW r \in Requests, Finish(r)
  PROVE  Known(b)'
<1>1. Knows(r, b)
  <2>1. CASE reqs' = Over(reqs, r)
    BY <2>1, PlainAnswerKnows
  <2>2. CASE reqs' = Over(Closed(reqs), r)
    BY <2>2, AnswerKnows, ClosedIsLike
  <2> QED
    BY <2>1, <2>2 DEF Finish
<1>2. Recalls(b) /\ Tells(b)
  BY LeavesAlone DEF Finish, memory
<1>3. Lets(b)
  BY DeliveredLets DEF Finish, NoFiles
<1> QED
  BY <1>1, <1>2, <1>3, StepIsKnown DEF Finish

-----------------------------------------------------------------------------
(* Pairing, revoking, the line, and what the computer does not decide.      *)

\* A pairing writes no receipt.
LEMMA PairIsKnown ==
  ASSUME Core, NEW b, Known(b), NEW r \in Requests, NEW d \in Devices, Pair(r, d)
  PROVE  Known(b)'
<1> DEFINE x == [Idle EXCEPT !.op = "pair", !.dev = d, !.pc = "saving", !.then = "paired"]
           w == [kind |-> "pair", dev |-> d, receipt |-> None, for |-> r]
<1>1. x.op = "pair" /\ x.got = None /\ x.pc = "saving"
  BY DEF Idle
<1>2. reqs' = [reqs EXCEPT ![r] = x]
  BY DEF Pair
<1>3. w \in Writes /\ w.receipt = None /\ line' = Append(line, w)
  BY DEF Pair, Writes
<1> HIDE DEF x, w
<1>4. Pure(x, b) /\ ~Claims(x)
  BY <1>1 DEF Pure, Claims, Marked, Saves, Of, Says, Asks
<1>5. Knows(r, b) /\ Tells(b)
  BY <1>2, <1>3, <1>4, EditKnows DEF Tells, Of
<1>6. Recalls(b) /\ Lets(b)
  BY LeavesAlone DEF Pair, files, outside
<1> QED
  BY <1>5, <1>6, StepIsKnown DEF Pair

\* A step of no request.
LEMMA NobodyKnows ==
  ASSUME Core, NEW b, Known(b),
         \A s \in Requests : Like(reqs'[s], reqs[s]),
         Recalls(b), Tells(b), Lets(b), Stores(b)
  PROVE  Known(b)'
<1>1. \A s \in Requests : Pure(reqs'[s], b)
  BY LikeKnows DEF Known, Only
<1>2. \A i \in 1..Len(line') : Of(line'[i].receipt, b)
  BY TellsOfOne DEF Known
<1>3. Only(b)'
  BY <1>1, <1>2 DEF Known, Only, Recalls, Lets, Stores
<1>4. CASE Taken(b)
  BY <1>3, <1>4 DEF Known, Stores
<1>5. CASE ~Taken(b)
  <2>1. Unclaimed'
    BY <1>5, LikeKnows DEF Recalls, Known, Unclaimed
  <2> QED
    BY <1>3, <2>1 DEF Known, Stores
<1> QED
  BY <1>4, <1>5

\* A revoke forgets the device's receipt, and its files go later.
LEMMA RevokeIsKnown ==
  ASSUME Core, NEW b, Known(b), NEW d \in Devices, Revoke(d)
  PROVE  Known(b)'
<1> DEFINE w == [kind |-> "delete", dev |-> d, receipt |-> None, for |-> None]
<1>1. ASSUME NEW s \in Requests
      PROVE  Like(reqs'[s], reqs[s])
  <2>1. reqs[s] \in Request
    BY DEF Core, TypeOK
  <2>2. reqs'[s] \in {reqs[s], [reqs[s] EXCEPT !.since = TRUE]}
    BY DEF Revoke
  <2> QED
    BY <2>1, <2>2 DEF Like, Request
<1>2. w \in Writes /\ w.receipt = None /\ line' = Append(line, w)
  BY DEF Revoke, Writes
<1> HIDE DEF w
<1>3. mem' \in {mem, None}
  BY DEF Revoke
<1>4. Recalls(b) /\ Lets(b)
  BY <1>3, LeavesAlone DEF Revoke, files
<1>5. Tells(b)
  BY <1>2 DEF Tells, Of
<1>6. Stores(b)
  BY StoreStays DEF Revoke
<1> QED
  BY <1>1, <1>4, <1>5, <1>6, NobodyKnows

\* A revoke's discard drops files only.
LEMMA DiscardRevokedIsKnown ==
  ASSUME Core, NEW b, Known(b), NEW d \in Devices, DiscardRevoked(d)
  PROVE  Known(b)'
<1>1. reqs' = reqs \/ reqs' = Closed(reqs)
  BY DEF DiscardRevoked, DiscardOwn
<1>2. \A s \in Requests : Like(reqs'[s], reqs[s])
  BY <1>1, ReqsAreLike, ClosedIsLike
<1>3. sidecar' \in {None, b}
  BY DiscardLets DEF DiscardRevoked
<1>4. Recalls(b) /\ Tells(b) /\ Lets(b) /\ Stores(b)
  BY <1>3, LeavesAlone, StoreStays DEF DiscardRevoked, memory
<1> QED
  BY <1>2, <1>4, NobodyKnows

\* A late chunk touches nothing but a partial.
LEMMA StrayWriteIsKnown ==
  ASSUME Core, NEW b, Known(b), NEW c \in Contents, NEW k \in Chunks, StrayWrite(c, k)
  PROVE  Known(b)'
<1>1. Recalls(b) /\ Tells(b) /\ Lets(b) /\ Stores(b)
  BY LeavesAlone, StoreStays DEF StrayWrite, memory
<1> QED
  BY <1>1, ReqsAreLike, NobodyKnows DEF StrayWrite

\* The head of the line leaves it, and its request is told.
LEMMA ToldIsKnown ==
  ASSUME Core, NEW b, Known(b), line # << >>, line' = Tail(line),
         NEW ok \in BOOLEAN, Told(Head(line), ok),
         Recalls(b), Lets(b), Stores(b)
  PROVE  Known(b)'
<1> DEFINE w == Head(line)
<1>1. /\ Len(line) \in Nat /\ Len(line) >= 1 /\ w = line[1]
      /\ Len(line') = Len(line) - 1
      /\ \A i \in 1..Len(line') : i + 1 \in 1..Len(line) /\ line'[i] = line[i + 1]
  BY DEF Core, TypeOK
<1>2. \A i \in 1..Len(line') : Of(line'[i].receipt, b)
  BY <1>1 DEF Known, Only
<1>3. w.for # None => w.for \in Requests /\ reqs[w.for].pc = "saving"
  <2>1. 1 \in 1..Len(line)
    BY <1>1
  <2> QED
    BY <1>1, <2>1, LineElements DEF Core, Lined, TypeOK
<1> HIDE DEF w
<1>4. ASSUME NEW s \in Requests
      PROVE  Pure(reqs'[s], b) /\ (Claims(reqs'[s]) => Claims(reqs[s]))
  <2>1. Pure(reqs[s], b) /\ reqs[s] \in Request /\ Fine(reqs[s])
    BY DEF Known, Only, Core, AllFine, TypeOK
  <2>2. CASE reqs'[s] = reqs[s]
    BY <2>1, <2>2
  <2>3. CASE reqs'[s] = Idle
    BY <2>3, IdleIsPure
  <2>4. CASE /\ s = w.for /\ w.for # None
             /\ ~(reqs[s].then = "answer" \/ (reqs[s].then = "resume" /\ ~ok))
    <3> DEFINE x == [reqs[s] EXCEPT !.pc = reqs[s].then, !.then = "idle", !.ok = ok]
    <3>1. reqs'[s] = x
      BY <1>3, <2>4 DEF Told, Core, TypeOK, w
    <3>2. /\ x.op = reqs[s].op /\ x.content = reqs[s].content /\ x.pc = reqs[s].then
          /\ x.got = reqs[s].got /\ x.meta = reqs[s].meta
      BY <2>1 DEF Request
    <3> HIDE DEF x
    <3>3. reqs[s].pc = "saving"
      BY <1>3, <2>4
    <3>4. Marked(x) <=> Marked(reqs[s])
      BY <2>1, <3>2, <3>3 DEF Marked, Reads, Fine, InRoute, Saves, Completes
    <3>5. x.pc \notin {"replace", "admitted", "saving"}
      BY <2>1, <2>4, <3>2, <3>3 DEF Fine, InRoute, Saves, Request, Reads, Completes
    <3>6. Claims(x) => Claims(reqs[s])
      BY <3>2, <3>3, <3>5 DEF Claims, Saves
    <3> QED
      BY <2>1, <3>1, <3>2, <3>4, <3>6 DEF Pure
  <2> QED
    BY <1>3, <2>2, <2>3, <2>4 DEF Told, Over, Core, TypeOK, w
<1>5. Only(b)'
  BY <1>2, <1>4 DEF Known, Only, Recalls, Lets, Stores
<1>6. CASE Taken(b)
  BY <1>5, <1>6 DEF Known, Stores
<1>7. CASE ~Taken(b)
  <2>1. Unclaimed'
    BY <1>4, <1>7 DEF Recalls, Known, Unclaimed
  <2> QED
    BY <1>5, <2>1 DEF Known, Stores
<1> QED
  BY <1>6, <1>7

\* A receipt's write, a pairing or a delete: admissions stay.
LEMMA WrittenIsKnown ==
  ASSUME Core, NEW b, Known(b), Written
  PROVE  Known(b)'
<1> DEFINE w == Head(line)
<1>1. line # << >> /\ line' = Tail(line)
  BY DEF Written
<1>2. w = line[1] /\ 1 \in 1..Len(line) /\ w \in Writes
  BY <1>1 DEF Core, TypeOK
<1> HIDE DEF w
<1>3. Of(w.receipt, b) /\ w.kind \in {"receipt", "pair", "delete"}
  <2>1. Of(w.receipt, b)
    BY <1>2 DEF Known, Only
  <2>2. w.kind \in {"receipt", "pair", "delete"}
    BY <1>2 DEF Writes
  <2> QED
    BY <2>1, <2>2
<1>4. PICK ok \in BOOLEAN : Told(w, ok)
  BY <1>3 DEF Written, w
<1>5. ledger' = ledger /\ row' \in {row, w.receipt, None}
  BY <1>3 DEF Written, store, w
<1>6. safe' \in {safe, Now, Now'}
  BY <1>3 DEF Written, Logged, store, w
<1>7. Stores(b)
  <2>1. Of(row', b) /\ Of(row, b) /\ Of(safe.row, b)
    BY <1>3, <1>5 DEF Known, Only, Of
  <2>2. safe' = safe \/ (safe'.row \in {row, row'} /\ safe'.ledger = ledger)
    BY <1>5, <1>6 DEF Now
  <2>3. Of(safe'.row, b)
    BY <2>1, <2>2
  <2>4. SafeKnows'
    BY <1>5, <2>2 DEF SafeKnows, Known
  <2> QED
    BY <1>5, <2>1, <2>3, <2>4 DEF Stores, Taken, Known, Only
<1>8. Recalls(b) /\ Lets(b)
  BY LeavesAlone DEF Written, files, outside
<1> QED
  BY <1>1, <1>4, <1>7, <1>8, ToldIsKnown DEF w

\* A failed write leaves the store.
LEMMA WriteFailsIsKnown ==
  ASSUME Core, NEW b, Known(b), WriteFails
  PROVE  Known(b)'
<1>1. Recalls(b) /\ Lets(b) /\ Stores(b)
  BY LeavesAlone, StoreStays DEF WriteFails, files
<1> QED
  BY <1>1, ToldIsKnown DEF WriteFails

\* A phone that hangs up leaves its write in line.
LEMMA HangUpIsKnown ==
  ASSUME Core, NEW b, Known(b), NEW r \in Requests, HangUp(r)
  PROVE  Known(b)'
<1>1. Recalls(b) /\ Lets(b) /\ Stores(b)
  <2>1. mem' = mem /\ phones' = phones /\ sidecar' = sidecar /\ UNCHANGED store
    BY DEF HangUp, files
  <2> QED
    BY <2>1, LeavesAlone, StoreStays
<1>2. CASE reqs' = [reqs EXCEPT ![r].heard = FALSE] /\ line' = line
  <2>1. ASSUME NEW s \in Requests
        PROVE  Like(reqs'[s], reqs[s])
    <3>1. reqs[s] \in Request
      BY DEF Core, TypeOK
    <3>2. reqs'[s] \in {reqs[s], [reqs[s] EXCEPT !.heard = FALSE]}
      BY <1>2 DEF Core, TypeOK
    <3> QED
      BY <3>1, <3>2 DEF Like, Request
  <2> QED
    BY <1>1, <1>2, <2>1, NobodyKnows DEF Tells
<1>3. CASE /\ reqs[r].pc \in Awaits /\ Answer(r)
           /\ line' = [i \in DOMAIN line |-> IF line[i].for = r THEN [line[i] EXCEPT !.for = None]
                                                                ELSE line[i]]
  <2>1. Knows(r, b)
    BY <1>3, PlainAnswerKnows
  <2>2. \A i \in 1..Len(line) : line[i] \in Writes
    BY LineElements DEF Core, TypeOK
  <2>3. ASSUME NEW w \in Writes
        PROVE  [w EXCEPT !.for = None].receipt = w.receipt
    BY DEF Writes
  <2>4. line \in Seq(Writes) /\ DOMAIN line = 1..Len(line) /\ Len(line) \in Nat
    BY DEF Core, TypeOK
  <2>5. Len(line') = Len(line)
    BY <1>3, <2>4
  <2>6. \A i \in 1..Len(line') : line'[i].receipt = line[i].receipt
    BY <1>3, <2>2, <2>3, <2>4, <2>5
  <2>7. \A i \in 1..Len(line') : Of(line'[i].receipt, b)
    BY <2>5, <2>6 DEF Known, Only
  <2>8. \A s \in Requests : Pure(reqs'[s], b)
    BY <2>1, LikeKnows DEF Knows, Known, Only
  <2>9. Only(b)'
    BY <1>1, <2>7, <2>8 DEF Known, Only, Recalls, Lets, Stores
  <2>10. CASE Taken(b)
    BY <1>1, <2>9, <2>10 DEF Known, Stores
  <2>11. CASE ~Taken(b)
    <3>1. Unclaimed'
      BY <1>1, <2>1, <2>11, LikeKnows DEF Knows, Recalls, Known, Unclaimed
    <3> QED
      BY <1>1, <2>9, <3>1 DEF Known, Stores
  <2> QED
    BY <2>10, <2>11
<1> QED
  BY <1>2, <1>3 DEF HangUp

\* The ledger remembers a deleted meeting.
LEMMA DeleteMeetingIsKnown ==
  ASSUME Core, NEW b, Known(b), NEW c \in Contents, DeleteMeeting(c)
  PROVE  Known(b)'
<1>1. ledger[c] = "kept" /\ ledger' = [ledger EXCEPT ![c] = "deleted"] /\ row' \in {row, None}
  BY DEF DeleteMeeting
<1>2. /\ ledger'[c] = "deleted" /\ \A a \in Contents : a # c => ledger'[a] = ledger[a]
      /\ c = b /\ Taken(b) /\ b \in Contents
  BY <1>1, NoneIsNothing DEF Core, TypeOK, Known, Only, Taken
<1>3. safe' = safe \/ (safe'.row = row' /\ safe'.ledger = ledger')
  <2>1. safe' \in {safe, Now'}
    BY DEF DeleteMeeting, Logged
  <2> QED
    BY <2>1 DEF Now
<1>4. Stores(b)
  <2>1. Of(row', b) /\ Of(safe.row, b)
    BY <1>1 DEF Known, Only, Of
  <2>2. Of(safe'.row, b)
    BY <1>3, <2>1
  <2>3. \A a \in Contents : ledger'[a] # "none" => a = b
    BY <1>2 DEF Known, Only
  <2>4. Taken(b)'
    BY <1>2 DEF Taken
  <2>5. SafeKnows'
    <3>1. \A a \in Contents : ledger'[a] # "none" <=> ledger[a] # "none"
      BY <1>1, <1>2
    <3> QED
      BY <1>2, <1>3, <3>1 DEF Known, SafeKnows
  <2> QED
    BY <2>1, <2>2, <2>3, <2>4, <2>5 DEF Stores
<1>5. Recalls(b) /\ Tells(b) /\ Lets(b)
  BY LeavesAlone DEF DeleteMeeting, memory, files, outside
<1> QED
  BY <1>4, <1>5, ReqsAreLike, NobodyKnows DEF DeleteMeeting

\* What a crash or a power loss leaves of the store knows the admissions.
LEMMA RestartStores ==
  ASSUME Core, NEW b, Known(b), NEW abandoned \in BOOLEAN, Restart(abandoned)
  PROVE  /\ Stores(b)
         /\ \A c \in Contents : \/ ledger'[c] = ledger[c]
                                \/ ledger[c] = "deleted" /\ ledger'[c] = "kept"
<1>1. PICK kept \in {Now, safe} : row' = kept.row /\ ledger' = kept.ledger /\ safe' = kept
  BY DEF Restart
<1>2. Of(row', b) /\ Of(safe'.row, b)
  BY <1>1 DEF Now, Known, Only
<1>3. \A c \in Contents : ledger'[c] # "none" <=> ledger[c] # "none"
  BY <1>1 DEF Now, Known, SafeKnows
<1>4. SafeKnows'
  BY <1>1 DEF SafeKnows
<1>5. \A c \in Contents : \/ ledger'[c] = ledger[c]
                          \/ ledger[c] = "deleted" /\ ledger'[c] = "kept"
  <2> TAKE c \in Contents
  <2>1. CASE kept = Now
    BY <1>1, <2>1 DEF Now
  <2>2. CASE kept = safe
    <3>1. ledger[c] \in Fates /\ ledger'[c] \in Fates /\ ledger'[c] = safe.ledger[c]
      BY <1>1, <2>2 DEF Core, TypeOK
    <3> QED
      BY <3>1 DEF Known, SafeKnows, Fates
  <2> QED
    BY <2>1, <2>2
<1>6. Taken(b) => Taken(b)'
  <2>1. Taken(b) => b \in Contents
    <3>1. b \in {u[2] : u \in Uploads} \cup {None}
      BY DEF Known, Only
    <3> QED
      BY <3>1, UploadParts DEF Taken
  <2> QED
    BY <1>3, <2>1 DEF Taken
<1> QED
  BY <1>2, <1>3, <1>4, <1>5, <1>6 DEF Stores, Known, Only

\* A start knows of `b` what the store knows.
LEMMA RestartIsKnown ==
  ASSUME Core, NEW b, Known(b), NEW abandoned \in BOOLEAN, Restart(abandoned)
  PROVE  Known(b)'
<1>1. Stores(b)
  BY RestartStores
<1>2. mem' = None /\ line' = << >> /\ reqs' = [r \in Requests |-> Idle] /\ phones' = phones
  BY DEF Restart
<1>3. sidecar' \in {None, b}
  BY DEF Restart, NoFiles, files, Known, Only
<1>4. Only(b)'
  BY <1>1, <1>2, <1>3, IdleIsPure DEF Known, Only, Stores, Of
<1>5. Unclaimed'
  BY <1>2, IdleIsPure DEF Unclaimed, Says
<1> QED
  BY <1>1, <1>4, <1>5 DEF Known, Stores

-----------------------------------------------------------------------------
(* Custody.                                                                 *)

\* Before anything happened the phones of the behaviour hold one content.
LEMMA InitIsKnown ==
  ASSUME OneRecording, Init
  PROVE  \E b \in {u[2] : u \in Uploads} \cup {None} : Known(b)
<1>1. /\ mem = None /\ line = << >> /\ sidecar = None /\ row = None
      /\ ledger = [c \in Contents |-> "none"] /\ safe = [row |-> row, ledger |-> ledger]
      /\ reqs = [r \in Requests |-> Idle]
  BY DEF Init
<1>2. PICK s \in Starts : phones = [u \in Uploads |-> IF u \in s.phones THEN "held" ELSE "gone"]
  BY DEF Init
<1>3. s.phones \subseteq Uploads
  BY DEF Uploads
<1>4. PICK b \in {u[2] : u \in Uploads} \cup {None} : \A u \in s.phones : u[2] = b
  <2>1. CASE s.phones = {}
    BY <2>1
  <2>2. CASE s.phones # {}
    <3>1. PICK v \in s.phones : TRUE
      BY <2>2
    <3>2. v[2] \in {u[2] : u \in Uploads} /\ \A u \in s.phones : u[2] = v[2]
      BY <1>3, <3>1 DEF OneRecording
    <3> QED
      BY <3>2
  <2> QED
    BY <2>1, <2>2
<1>5. \A u \in Uploads : phones[u] = "held" => u[2] = b
  BY <1>2, <1>4
<1>6. Only(b)
  BY <1>1, <1>5, IdleIsPure DEF Only, Of
<1>7. SafeKnows /\ Unclaimed
  BY <1>1, IdleIsPure DEF SafeKnows, Unclaimed, Says
<1> QED
  BY <1>6, <1>7 DEF Known

\* A request's own steps.
LEMMA HandlerIsKnown ==
  ASSUME Core, NEW b, Known(b), NEW r \in Requests, Handler(r)
  PROVE  Known(b)'
BY FetchIsKnown, RememberIsKnown, AnswersAreKnown, AnnounceIsKnown, TakeOverIsKnown,
   ReadLedgerIsKnown, ReplaceIsKnown, OpenedIsKnown, ResumeIsKnown, ReopenedIsKnown, ChunkIsKnown,
   AddChunkIsKnown, CompleteIsKnown, VerifyIsKnown, UpdatesAreKnown, VerifyingIsKnown, HashIsKnown,
   HashedIsKnown, PromoteIsKnown, IntakeIsKnown, CommitIsKnown, FinishIsKnown
DEF Handler

\* What phones do.
LEMMA PhoneIsKnown ==
  ASSUME Core, NEW b, Known(b), NEW r \in Requests, Phone(r)
  PROVE  Known(b)'
<1>1. ASSUME NEW u \in Uploads, NEW op \in {"announce", "status", "complete"}, Ask(r, op, u, None)
      PROVE  Known(b)'
  BY <1>1, AskIsKnown DEF Asks
<1>2. ASSUME NEW u \in Uploads, NEW c \in Chunks, Ask(r, "chunk", u, c)
      PROVE  Known(b)'
  BY <1>2, AskIsKnown DEF Asks
<1> QED
  BY <1>1, <1>2, PairIsKnown, HangUpIsKnown DEF Phone

\* What the computer does on its own.
LEMMA ComputerIsKnown ==
  ASSUME Core, NEW b, Known(b), Computer
  PROVE  Known(b)'
BY WrittenIsKnown, WriteFailsIsKnown, RevokeIsKnown, DiscardRevokedIsKnown, DeleteMeetingIsKnown,
   StrayWriteIsKnown, RestartIsKnown
DEF Computer

\* Every step keeps what is known of `b`.
LEMMA NextIsKnown ==
  ASSUME Core, NEW b, Known(b), [Next]_vars
  PROVE  Known(b)'
<1>1. CASE UNCHANGED vars
  <2>1. mem' = mem /\ line' = line /\ reqs' = reqs /\ sidecar' = sidecar /\ phones' = phones
        /\ UNCHANGED store
    BY <1>1 DEF vars, memory, files, outside
  <2>2. Recalls(b) /\ Tells(b) /\ Lets(b) /\ Stores(b)
    BY <2>1, LeavesAlone, StoreStays
  <2> QED
    BY <2>1, <2>2, ReqsAreLike, NobodyKnows
<1>2. CASE Next
  BY <1>2, HandlerIsKnown, PhoneIsKnown, ComputerIsKnown DEF Next
<1> QED
  BY <1>1, <1>2

\* A phone drops bytes the computer took.
LEMMA DropsTaken ==
  ASSUME Core, NEW b, Taken(b), NEW u \in Uploads, u[2] = b,
         phones' = [phones EXCEPT ![u] = "gone"], ledger' = ledger
  PROVE  [Custody!Next]_(Custody!vars)
<1>1. phones \in [Uploads -> {"held", "gone"}]
  BY DEF Core, TypeOK
<1>2. CASE phones[u] = "held"
  <2> DEFINE holds == {v \in Uploads : phones[v] = "held"}
  <2>1. u \in holds /\ ledger[u[2]] # "none"
    BY <1>2 DEF Taken
  <2>2. holds' = holds \ {u}
    BY <1>1
  <2>3. Custody!Drop(u)
    BY <2>1, <2>2 DEF Custody!Drop
  <2> QED
    BY <2>3 DEF Custody!Next
<1>3. CASE phones[u] # "held"
  <2>1. phones' = phones
    BY <1>1, <1>3
  <2> QED
    BY <2>1 DEF Custody!vars
<1> QED
  BY <1>2, <1>3

\* So does one that has its 200.
LEMMA DeliveredDrops ==
  ASSUME Core, NEW b, Known(b), NEW r \in Requests, reqs[r].op = "complete",
         Claims(reqs[r]), Delivered(r), UNCHANGED store
  PROVE  [Custody!Next]_(Custody!vars)
<1> DEFINE u == <<reqs[r].dev, reqs[r].content>>
<1>1. Taken(b) /\ reqs[r].content = b
  BY ClaimsAreSo DEF Pure, Asks
<1>2. u \in Uploads /\ u[2] = b
  BY <1>1 DEF Core, AllFine, Fine, Asks
<1>3. ledger' = ledger
  BY DEF store
<1> HIDE DEF u
<1>4. CASE UNCHANGED phones
  BY <1>3, <1>4 DEF Custody!vars
<1>5. CASE phones' = [phones EXCEPT ![u] = "gone"]
  BY <1>1, <1>2, <1>3, <1>5, DropsTaken
<1> QED
  BY <1>4, <1>5 DEF Delivered, u

\* The computer takes the bytes, or has them.
LEMMA AdmitsOrHas ==
  ASSUME Core, NEW b, Known(b), b \in Contents,
         ledger' = [ledger EXCEPT ![b] = "kept"], UNCHANGED phones
  PROVE  [Custody!Next]_(Custody!vars)
<1>1. \E u \in Uploads : u[2] = b
  BY NoneIsNothing DEF Known, Only
<1>2. ledger \in [Contents -> Fates]
  BY DEF Core, TypeOK
<1>3. CASE ledger[b] = "kept"
  <2>1. ledger' = ledger
    BY <1>2, <1>3
  <2> QED
    BY <2>1 DEF Custody!vars
<1>4. CASE ledger[b] # "kept"
  <2>1. Custody!Admit(b)
    BY <1>1, <1>4 DEF Custody!Admit
  <2> QED
    BY <2>1 DEF Custody!Next
<1> QED
  BY <1>3, <1>4

\* What answers, deletes, admits or restarts maps to a step of custody.
LEMMA CompleteSeen ==
  ASSUME Core, NEW b, Known(b), NEW r \in Requests,
         Complete(r) \/ Missing(r) \/ Verifying(r) \/ Finish(r)
  PROVE  [Custody!Next]_(Custody!vars)
<1>1. UNCHANGED store
  BY DEF Complete, Missing, Verifying, Finish
<1>2. CASE UNCHANGED phones
  BY <1>1, <1>2 DEF store, Custody!vars
<1>3. CASE /\ Delivered(r) /\ reqs[r].op = "complete"
           /\ Says(reqs[r].got) \/ reqs[r].pc = "finish"
  BY <1>1, <1>3, DeliveredDrops DEF Claims
<1>4. CASE Complete(r)
  <2>1. Owned(r) /\ reqs[r].got.state = "complete" => Says(reqs[r].got)
    BY DEF Owned, Says
  <2> QED
    BY <1>2, <1>3, <1>4, <2>1 DEF Complete, Decides
<1>5. CASE Missing(r) \/ Verifying(r)
  <2>1. reqs[r].pc \in Completes
    BY <1>5 DEF Missing, Verifying, At, Completes
  <2>2. reqs[r].op = "complete" /\ reqs[r].got # None
    BY <2>1, AtComplete
  <2> QED
    BY <1>2, <1>3, <1>5, <2>2 DEF Missing, Verifying, Says
<1>6. CASE Finish(r)
  <2>1. reqs[r].op = "complete"
    BY <1>6, AtComplete DEF Finish, At, Completes
  <2> QED
    BY <1>3, <1>6, <2>1 DEF Finish, At
<1> QED
  BY <1>4, <1>5, <1>6

\* The admission's transaction takes the bytes.
LEMMA CommitSeen ==
  ASSUME Core, NEW b, Known(b), NEW r \in Requests, Commit(r)
  PROVE  [Custody!Next]_(Custody!vars)
<1>1. reqs[r].pc = "commit" /\ UNCHANGED phones
  BY DEF Commit, At
<1>2. CASE Commits(r)
  BY <1>1, <1>2, CommitsLeave, AdmitsOrHas
<1>3. CASE ledger' = ledger
  BY <1>1, <1>3 DEF Custody!vars
<1> QED
  BY <1>2, <1>3 DEF Commit, CommitFails

\* The user deletes a meeting the computer has.
LEMMA DeleteMeetingSeen ==
  ASSUME Core, NEW c \in Contents, DeleteMeeting(c)
  PROVE  [Custody!Next]_(Custody!vars)
<1>1. /\ ledger[c] = "kept" /\ ledger' = [ledger EXCEPT ![c] = "deleted"]
      /\ phones' = phones
  BY DEF DeleteMeeting, outside
<1>2. Custody!Delete(c)
  BY <1>1 DEF Custody!Delete
<1> QED
  BY <1>2 DEF Custody!Next

\* A power loss may bring a deleted meeting back.
LEMMA RestartSeen ==
  ASSUME Core, NEW b, Known(b), NEW abandoned \in BOOLEAN, Restart(abandoned)
  PROVE  [Custody!Next]_(Custody!vars)
<1>1. /\ UNCHANGED phones
      /\ ledger \in [Contents -> Fates] /\ ledger' \in [Contents -> Fates]
  BY RestartIsCore DEF Restart, Core, TypeOK
<1>2. \A c \in Contents : \/ ledger'[c] = ledger[c]
                          \/ ledger[c] = "deleted" /\ ledger'[c] = "kept"
  BY RestartStores
<1>3. \A c \in Contents : ledger[c] # "none" => c = b
  BY DEF Known, Only
<1>4. CASE \A c \in Contents : ledger'[c] = ledger[c]
  <2>1. ledger' = ledger
    BY <1>1, <1>4
  <2> QED
    BY <1>1, <2>1 DEF Custody!vars
<1>5. CASE \E c \in Contents : ledger[c] = "deleted" /\ ledger'[c] = "kept"
  <2>1. b \in Contents /\ ledger'[b] = "kept"
    BY <1>3, <1>5
  <2>2. \A c \in Contents : c # b => ledger'[c] = ledger[c]
    BY <1>2, <1>3
  <2>3. ledger' = [ledger EXCEPT ![b] = "kept"]
    BY <1>1, <2>1, <2>2
  <2> QED
    BY <1>1, <2>1, <2>3, AdmitsOrHas
<1> QED
  BY <1>2, <1>4, <1>5

\* Nothing else changes what phones hold or what became of the bytes.
LEMMA HandlerLeaves ==
  ASSUME NEW r \in Requests, Handler(r),
         ~(Complete(r) \/ Missing(r) \/ Verifying(r) \/ Commit(r) \/ Finish(r))
  PROVE  UNCHANGED <<phones, ledger>>
<1>1. ASSUME Fetch(r) \/ Remember(r) \/ Status(r) \/ Announce(r) \/ TakeOver(r) \/ ReadLedger(r)
             \/ Replace(r) \/ Opened(r) \/ Resume(r) \/ Reopened(r) \/ Resumed(r)
      PROVE  UNCHANGED <<phones, ledger>>
  BY <1>1 DEF Fetch, Remember, Status, Announce, TakeOver, ReadLedger, Replace, Opened, Resume,
              Reopened, Resumed, store, outside
<1>2. ASSUME Chunk(r) \/ WriteChunk(r) \/ AddChunk(r) \/ Verify(r) \/ SetVerifying(r) \/ Hash(r)
             \/ Hashed(r) \/ Damaged(r) \/ Conflict(r) \/ Promote(r) \/ Intake(r) \/ Admitted(r)
             \/ Refused(r) \/ Stays(r) \/ Paired(r)
      PROVE  UNCHANGED <<phones, ledger>>
  BY <1>2 DEF Chunk, WriteChunk, AddChunk, Verify, SetVerifying, Hash, Hashed, Damaged, Conflict,
              Promote, Intake, Admitted, Refused, Stays, Paired, store, outside
<1> QED
  BY <1>1, <1>2 DEF Handler

\* Asking, pairing and hanging up.
LEMMA PhoneLeaves ==
  ASSUME NEW r \in Requests, Phone(r)
  PROVE  UNCHANGED <<phones, ledger>>
<1>1. ASSUME NEW u, NEW op, NEW c, Ask(r, op, u, c)
      PROVE  UNCHANGED <<phones, ledger>>
  BY <1>1 DEF Ask, store, outside
<1>2. ASSUME NEW d \in Devices, Pair(r, d)
      PROVE  UNCHANGED <<phones, ledger>>
  BY <1>2 DEF Pair, store, outside
<1>3. ASSUME HangUp(r)
      PROVE  UNCHANGED <<phones, ledger>>
  BY <1>3 DEF HangUp, store
<1> QED
  BY <1>1, <1>2, <1>3 DEF Phone

\* The line, revokes and late chunks.
LEMMA ComputerLeaves ==
  ASSUME Core, Computer
  PROVE  \/ UNCHANGED <<phones, ledger>>
         \/ \E c \in Contents : DeleteMeeting(c)
         \/ \E abandoned \in BOOLEAN : Restart(abandoned)
<1>1. ASSUME Written
      PROVE  UNCHANGED <<phones, ledger>>
  <2> DEFINE w == Head(line)
  <2>1. w \in Writes
    BY <1>1 DEF Written, Core, TypeOK
  <2>2. w.kind \in {"receipt", "pair", "delete"}
    BY <2>1 DEF Writes
  <2> QED
    BY <1>1, <2>2 DEF Written, store, outside
<1>2. ASSUME WriteFails
      PROVE  UNCHANGED <<phones, ledger>>
  BY <1>2 DEF WriteFails, store
<1>3. ASSUME NEW d \in Devices, Revoke(d) \/ DiscardRevoked(d)
      PROVE  UNCHANGED <<phones, ledger>>
  BY <1>3 DEF Revoke, DiscardRevoked, store
<1>4. ASSUME NEW c \in Contents, NEW k \in Chunks, StrayWrite(c, k)
      PROVE  UNCHANGED <<phones, ledger>>
  BY <1>4 DEF StrayWrite, store
<1> QED
  BY <1>1, <1>2, <1>3, <1>4 DEF Computer

\* The first state is one of custody.
LEMMA InitSeen == ASSUME Init PROVE Custody!Init
<1>1. ledger = [c \in Contents |-> "none"]
  BY DEF Init
<1> QED
  BY <1>1 DEF Custody!Init

\* Every step is one of custody, or none.
LEMMA StepSeen ==
  ASSUME Core, NEW b, Known(b), [Next]_vars
  PROVE  [Custody!Next]_(Custody!vars)
<1>1. CASE UNCHANGED <<phones, ledger>>
  BY <1>1 DEF Custody!vars
<1>2. CASE UNCHANGED vars
  <2>1. UNCHANGED <<phones, ledger>>
    BY <1>2 DEF vars, store, outside
  <2> QED
    BY <1>1, <2>1
<1>3. ASSUME NEW r \in Requests, Handler(r)
      PROVE  [Custody!Next]_(Custody!vars)
  BY <1>1, <1>3, CompleteSeen, CommitSeen, HandlerLeaves
<1>4. ASSUME NEW r \in Requests, Phone(r)
      PROVE  [Custody!Next]_(Custody!vars)
  BY <1>1, <1>4, PhoneLeaves
<1>5. ASSUME Computer
      PROVE  [Custody!Next]_(Custody!vars)
  BY <1>1, <1>5, ComputerLeaves, DeleteMeetingSeen, RestartSeen
<1> QED
  BY <1>2, <1>3, <1>4, <1>5 DEF Next

Kept == Core /\ \E b \in {u[2] : u \in Uploads} \cup {None} : Known(b)

\* What is known of the one content stays known.
LEMMA AlwaysKept ==
  ASSUME OneRecording
  PROVE  Spec => []Kept
<1>1. Init => Kept
  BY InitIsCore, InitIsKnown DEF Kept
<1>2. Kept /\ [Next]_vars => Kept'
  BY NextIsCore, NextIsKnown DEF Kept
<1> QED
  BY <1>1, <1>2, PTL DEF Spec

\* A recording is never on neither side: whatever requests, hang-ups, revokes,
\* failed writes, crashes and power losses meet, a phone drops its copy only
\* once the computer has admitted the bytes, and the computer never forgets
\* that it did.  Recording ids are UUIDs, so the phones that announce one hold
\* the same bytes.  (engine/recording.rs `complete`, intake.rs)
THEOREM OneRecordingIsKept ==
  ASSUME OneRecording
  PROVE  Spec => IsCustody
<1>1. Init => Custody!Init
  BY InitSeen
<1>2. Kept /\ [Next]_vars => [Custody!Next]_(Custody!vars)
  BY StepSeen DEF Kept
<1>3. Spec => []Kept
  BY AlwaysKept
<1>4. Spec => Custody!Init /\ [][Custody!Next]_(Custody!vars)
  BY <1>1, <1>2, <1>3, PTL DEF Spec
<1> QED
  BY <1>4, PTL DEF IsCustody, Custody!Spec

-----------------------------------------------------------------------------
(* The bytes of one recording: what is on disk is `b`'s, or still missing.  *)

\* A verified file has every chunk of `b`, and was hashed to be `b`.
Holds(v, b) == v # None => Whole(v.data, b) /\ v.hashed = b

\* The files and the writes that hang-ups left.
Clean(b) ==
  /\ partial # None => \A c \in Chunks : partial[c] \in {None, b}
  /\ Holds(verified, b)
  /\ \A u \in strays : u[1] = b

\* The file is hashed, and the hash was the recording's.
Sure(q) == q.pc = "promote" \/ (q.pc = "hashed" /\ q.ok)

\* Only the request with the mark has the partial open; once it is sure, the
\* partial is whole; the intake's copy is the whole recording.
Sound(q, p, b) ==
  /\ q.file = "open" => p # None /\ Marked(q)
  /\ q.file = "open" /\ Sure(q) => Whole(p, b)
  /\ q.pc = "commit" => q.copied # None /\ Holds(q.copied, b)

Intact(b) == Clean(b) /\ \A r \in Requests : Sound(reqs[r], partial, b)

\* A request that opened nothing, and is surer of nothing.
NoSurer(p, q) ==
  /\ p.file = "open" => q.file = "open" /\ (Marked(q) => Marked(p))
  /\ Sure(p) => Sure(q)
  /\ p.pc = "commit" => q.pc = "commit" /\ p.copied = q.copied

\* The partial gains a chunk of `b`, at most.
Gains(b) ==
  partial' # partial => partial # None /\ \E c \in Chunks : partial' = [partial EXCEPT ![c] = b]

\* What `b` is, and what requests, receipts and the sidecar have of it.
LEMMA KnownParts ==
  ASSUME NEW b, Known(b)
  PROVE  /\ b \in Contents \cup {None}
         /\ sidecar \in {None, b}
         /\ \A r \in Requests : Pure(reqs[r], b)
<1>1. b \in {u[2] : u \in Uploads} \cup {None}
  BY DEF Known, Only
<1> QED
  BY <1>1, UploadParts DEF Known, Only

\* A chunk of `b` joins a partial of `b`.
LEMMA GainsStay ==
  ASSUME Core, NEW b \in Contents \cup {None}, Gains(b)
  PROVE  /\ partial # None => partial' # None
         /\ partial' # None => partial # None
         /\ Whole(partial, b) => Whole(partial', b)
         /\ Clean(b) /\ partial' # None => \A c \in Chunks : partial'[c] \in {None, b}
<1>1. CASE partial' = partial
  BY <1>1 DEF Clean
<1>2. ASSUME NEW c \in Chunks, partial # None, partial' = [partial EXCEPT ![c] = b]
      PROVE  /\ partial' # None
             /\ \A k \in Chunks : partial'[k] = IF k = c THEN b ELSE partial[k]
  <2>1. partial \in Data
    BY <1>2 DEF Core, TypeOK
  <2>2. partial' \in Data
    BY <1>2, <2>1 DEF Data
  <2> QED
    BY <1>2, <2>1, <2>2, NoneIsNothing DEF Data
<1>3. CASE partial' # partial
  BY <1>2, <1>3 DEF Gains, Whole, Clean
<1> QED
  BY <1>1, <1>3

\* A step that leaves the partial, or adds a chunk of `b`.
LEMMA GainsAreIntact ==
  ASSUME Core, NEW b \in Contents \cup {None}, Intact(b), Gains(b),
         Holds(verified', b), \A u \in strays' : u[1] = b,
         \A s \in Requests : NoSurer(reqs'[s], reqs[s]) \/ Sound(reqs'[s], partial', b)
  PROVE  Intact(b)'
<1>1. Clean(b)'
  BY GainsStay DEF Intact, Clean
<1>2. ASSUME NEW s \in Requests, NoSurer(reqs'[s], reqs[s])
      PROVE  Sound(reqs'[s], partial', b)
  <2>1. Sound(reqs[s], partial, b)
    BY DEF Intact
  <2> QED
    BY <1>2, <2>1, GainsStay DEF NoSurer, Sound
<1> QED
  BY <1>1, <1>2 DEF Intact

\* A step after which nobody has the partial open.
LEMMA ShutIsIntact ==
  ASSUME Core, NEW b, Intact(b),
         partial' \in {partial, None, Blank},
         Holds(verified', b), \A u \in strays' : u[1] = b,
         \A s \in Requests : NoSurer(reqs'[s], reqs[s]) /\ reqs'[s].file # "open"
  PROVE  Intact(b)'
<1>1. Clean(b)'
  BY DEF Intact, Clean, Blank
<1>2. ASSUME NEW s \in Requests
      PROVE  Sound(reqs'[s], partial', b)
  BY DEF NoSurer, Sound, Intact
<1> QED
  BY <1>1, <1>2 DEF Intact

\* A request left alone.
LEMMA SameIsNoSurer == ASSUME NEW q PROVE NoSurer(q, q)
BY DEF NoSurer

\* A request that ends.
LEMMA IdleIsNoSurer ==
  ASSUME NEW q
  PROVE  NoSurer(Idle, q) /\ Idle.file # "open"
BY DEF Idle, NoSurer, Sure

\* A request whose file is replaced, if it had one open.
LEMMA ClosedIsNoSurer ==
  ASSUME Core, NEW s \in Requests
  PROVE  NoSurer(Closed(reqs)[s], reqs[s]) /\ Closed(reqs)[s].file # "open"
<1>1. reqs[s] \in Request
  BY DEF Core, TypeOK
<1>2. CASE reqs[s].file = "open"
  <2> DEFINE x == [reqs[s] EXCEPT !.file = "replaced"]
  <2>1. Closed(reqs)[s] = x
    BY <1>2 DEF Closed
  <2>2. x.file = "replaced" /\ x.pc = reqs[s].pc /\ x.ok = reqs[s].ok /\ x.copied = reqs[s].copied
    BY <1>1 DEF Request
  <2> HIDE DEF x
  <2> QED
    BY <2>1, <2>2 DEF NoSurer, Sure
<1>3. CASE reqs[s].file # "open"
  BY <1>3, SameIsNoSurer DEF Closed
<1> QED
  BY <1>2, <1>3

\* One request ends and the others are left alone.
LEMMA OverIsNoSurer ==
  ASSUME Core, NEW r \in Requests, reqs' = Over(reqs, r)
  PROVE  \A s \in Requests : NoSurer(reqs'[s], reqs[s])
<1>1. \A s \in Requests : reqs'[s] = IF s = r THEN Idle ELSE reqs[s]
  BY DEF Over, Core, TypeOK
<1> QED
  BY <1>1, IdleIsNoSurer, SameIsNoSurer

\* Every open file is replaced, and a request may end.
LEMMA ShutIsNoSurer ==
  ASSUME Core, NEW r \in Requests, reqs' \in {Closed(reqs), Over(Closed(reqs), r)}
  PROVE  \A s \in Requests : NoSurer(reqs'[s], reqs[s]) /\ reqs'[s].file # "open"
<1>1. ASSUME NEW s \in Requests
      PROVE  reqs'[s] \in {Idle, Closed(reqs)[s]}
  BY DEF Over, Closed
<1> QED
  BY <1>1, ClosedIsNoSurer, IdleIsNoSurer

\* One request changes.
LEMMA EditIsNoSurer ==
  ASSUME Core, NEW r \in Requests, NEW x, reqs' = [reqs EXCEPT ![r] = x], NoSurer(x, reqs[r])
  PROVE  \A s \in Requests : NoSurer(reqs'[s], reqs[s])
<1>1. \A s \in Requests : reqs'[s] = IF s = r THEN x ELSE reqs[s]
  BY DEF Core, TypeOK
<1> QED
  BY <1>1, SameIsNoSurer

\* The steps that neither read a receipt nor are sure of a file.
Onward == {"saving", "missing", "verifying", "conflict", "finish", "stays", "answer", "opened",
            "resume", "resumed", "reopened", "writing", "written", "ledger", "replace", "hash",
            "damaged", "intake", "admitted", "refused", "verify"}

\* A request goes on to a step that opens no file and is sure of none.
LEMMA OnwardIsNoSurer ==
  ASSUME NEW x, NEW q, x.op = q.op, x.file = q.file, x.pc \in Onward
  PROVE  NoSurer(x, q)
BY DEF NoSurer, Sure, Onward, Marked, Reads

\* The same of a step that only goes on.
LEMMA GoesIsNoSurer ==
  ASSUME Core, NEW r \in Requests, NEW pc \in Onward, Goes(r, pc)
  PROVE  \A s \in Requests : NoSurer(reqs'[s], reqs[s])
<1> DEFINE x == [reqs[r] EXCEPT !.pc = pc]
<1>1. reqs' = [reqs EXCEPT ![r] = x]
  BY DEF Goes
<1>2. reqs[r] \in Request
  BY DEF Core, TypeOK
<1>3. x.op = reqs[r].op /\ x.file = reqs[r].file /\ x.pc = pc
  BY <1>2 DEF Request
<1> HIDE DEF x
<1> QED
  BY <1>1, <1>3, OnwardIsNoSurer, EditIsNoSurer

\* ... that saves a receipt.
LEMMA ChangeIsNoSurer ==
  ASSUME Core, NEW r \in Requests, NEW receipt, NEW then, Change(r, receipt, then, reqs)
  PROVE  \A s \in Requests : NoSurer(reqs'[s], reqs[s])
<1> DEFINE x == [reqs[r] EXCEPT !.pc = "saving", !.then = then, !.got = receipt]
<1>1. reqs' = [reqs EXCEPT ![r] = x]
  BY DEF Change
<1>2. reqs[r] \in Request
  BY DEF Core, TypeOK
<1>3. x.op = reqs[r].op /\ x.file = reqs[r].file /\ x.pc = "saving"
  BY <1>2 DEF Request
<1> HIDE DEF x
<1> QED
  BY <1>1, <1>3, OnwardIsNoSurer, EditIsNoSurer DEF Onward

\* ... and that updates the one it read.
LEMMA UpdateIsNoSurer ==
  ASSUME Core, NEW r \in Requests, NEW state, NEW emptied, NEW then \in Onward,
         Update(r, state, emptied, then)
  PROVE  \A s \in Requests : NoSurer(reqs'[s], reqs[s])
<1>1. reqs[r] \in Request
  BY DEF Core, TypeOK
<1>2. CASE reqs' = [reqs EXCEPT ![r].pc = then, ![r].ok = TRUE]
  <2> DEFINE x == [reqs[r] EXCEPT !.pc = then, !.ok = TRUE]
  <2>1. reqs' = [reqs EXCEPT ![r] = x]
    BY <1>2 DEF Core, TypeOK
  <2>2. x.op = reqs[r].op /\ x.file = reqs[r].file /\ x.pc = then
    BY <1>1 DEF Request
  <2> HIDE DEF x
  <2> QED
    BY <2>1, <2>2, OnwardIsNoSurer, EditIsNoSurer
<1>3. CASE reqs' = [reqs EXCEPT ![r].pc = then, ![r].ok = TRUE, ![r].got = mem]
  <2> DEFINE x == [reqs[r] EXCEPT !.pc = then, !.ok = TRUE, !.got = mem]
  <2>1. reqs' = [reqs EXCEPT ![r] = x]
    BY <1>3 DEF Core, TypeOK
  <2>2. x.op = reqs[r].op /\ x.file = reqs[r].file /\ x.pc = then
    BY <1>1 DEF Request
  <2> HIDE DEF x
  <2> QED
    BY <2>1, <2>2, OnwardIsNoSurer, EditIsNoSurer
<1> QED
  BY <1>2, <1>3, ChangeIsNoSurer DEF Update

\* Nobody else has the partial open.
LEMMA OthersAreShut ==
  ASSUME Core, NEW b, Intact(b), NEW r \in Requests, Marked(reqs[r]),
         NEW s \in Requests, s # r
  PROVE  reqs[s].file # "open"
<1>1. ~Marked(reqs[s])
  BY MarkIsMarked DEF Core
<1> QED
  BY <1>1 DEF Intact, Sound

\* Files, late chunks and what requests are sure of are left alone.
LEMMA QuietIsIntact ==
  ASSUME Core, NEW b, Known(b), Intact(b), UNCHANGED <<partial, verified, strays>>,
         \A s \in Requests : NoSurer(reqs'[s], reqs[s]) \/ Sound(reqs'[s], partial', b)
  PROVE  Intact(b)'
<1>1. Gains(b) /\ Holds(verified', b) /\ \A u \in strays' : u[1] = b
  BY DEF Gains, Intact, Clean
<1> QED
  BY <1>1, KnownParts, GainsAreIntact

\* The same when one request changes.
LEMMA QuietEditIsIntact ==
  ASSUME Core, NEW b, Known(b), Intact(b), UNCHANGED <<partial, verified, strays>>,
         NEW r \in Requests, NEW x, reqs' = [reqs EXCEPT ![r] = x],
         NoSurer(x, reqs[r]) \/ Sound(x, partial, b)
  PROVE  Intact(b)'
<1>1. \A s \in Requests : reqs'[s] = IF s = r THEN x ELSE reqs[s]
  BY DEF Core, TypeOK
<1> QED
  BY <1>1, SameIsNoSurer, QuietIsIntact

\* A request is asked, reads a receipt and decides; none has a file open yet.
LEMMA AskIsIntact ==
  ASSUME Core, NEW b, Known(b), Intact(b), NEW r \in Requests, NEW op, NEW u, NEW c,
         Ask(r, op, u, c)
  PROVE  Intact(b)'
<1> DEFINE x == [Idle EXCEPT !.op = op, !.dev = u[1], !.content = u[2], !.chunk = c, !.got = mem,
                             !.pc = IF mem = None THEN "fetch" ELSE "decide"]
<1>1. reqs' = [reqs EXCEPT ![r] = x]
  BY DEF Ask
<1>2. x.file = "closed" /\ x.pc \in {"fetch", "decide"}
  BY DEF Idle
<1> HIDE DEF x
<1>3. NoSurer(x, reqs[r])
  BY <1>2 DEF NoSurer, Sure
<1> QED
  BY <1>1, <1>3, QuietEditIsIntact DEF Ask, files, outside

\* A pairing has no file.
LEMMA PairIsIntact ==
  ASSUME Core, NEW b, Known(b), Intact(b), NEW r \in Requests, NEW d, Pair(r, d)
  PROVE  Intact(b)'
<1> DEFINE x == [Idle EXCEPT !.op = "pair", !.dev = d, !.pc = "saving", !.then = "paired"]
<1>1. reqs' = [reqs EXCEPT ![r] = x]
  BY DEF Pair
<1>2. x.file = "closed" /\ x.pc = "saving"
  BY DEF Idle
<1> HIDE DEF x
<1>3. NoSurer(x, reqs[r])
  BY <1>2 DEF NoSurer, Sure
<1> QED
  BY <1>1, <1>3, QuietEditIsIntact DEF Pair, files, outside

\* A request that is not a `complete` past its checks has no file open.
LEMMA UnmarkedIsShut ==
  ASSUME NEW b, Intact(b), NEW r \in Requests, ~Marked(reqs[r]),
         NEW x, x.file = reqs[r].file, ~Sure(x), x.pc # "commit"
  PROVE  NoSurer(x, reqs[r])
BY DEF Intact, Sound, NoSurer

\* Reading a receipt or the ledger comes before any file is opened.
LEMMA ReadsAreIntact ==
  ASSUME Core, NEW b, Known(b), Intact(b), NEW r \in Requests,
         Fetch(r) \/ Remember(r) \/ ReadLedger(r)
  PROVE  Intact(b)'
<1>1. reqs[r] \in Request
  BY DEF Core, TypeOK
<1>2. ~Marked(reqs[r])
  BY <1>1, RouteOf DEF Core, AllFine, Marked, Reads, Fetch, Remember, ReadLedger, At
<1>3. PICK x : /\ reqs' = [reqs EXCEPT ![r] = x]
               /\ x.file = reqs[r].file /\ x.pc \in {"decide", "remember", "replace"}
  <2>1. CASE Fetch(r)
    <3> DEFINE x == [reqs[r] EXCEPT !.got = Stored(row),
                                    !.pc = IF row = None THEN "decide" ELSE "remember"]
    <3>1. reqs' = [reqs EXCEPT ![r] = x]
      BY <2>1 DEF Fetch, Core, TypeOK
    <3>2. x.file = reqs[r].file /\ x.pc \in {"decide", "remember"}
      BY <1>1 DEF Request
    <3> QED
      BY <3>1, <3>2
  <2>2. CASE Remember(r)
    <3> DEFINE x == [reqs[r] EXCEPT !.got = IF mem = None THEN @ ELSE mem, !.pc = "decide"]
    <3>1. reqs' = [reqs EXCEPT ![r] = x]
      BY <2>2 DEF Remember, Core, TypeOK
    <3>2. x.file = reqs[r].file /\ x.pc = "decide"
      BY <1>1 DEF Request
    <3> QED
      BY <3>1, <3>2
  <2>3. CASE ReadLedger(r)
    <3> DEFINE x == [reqs[r] EXCEPT !.ok = (ledger[reqs[r].content] = "none"), !.pc = "replace"]
    <3>1. reqs' = [reqs EXCEPT ![r] = x]
      BY <2>3 DEF ReadLedger, Core, TypeOK
    <3>2. x.file = reqs[r].file /\ x.pc = "replace"
      BY <1>1 DEF Request
    <3> QED
      BY <3>1, <3>2
  <2> QED
    BY <2>1, <2>2, <2>3
<1>4. ~Sure(x) /\ x.pc # "commit"
  BY <1>3 DEF Sure
<1>5. UNCHANGED <<partial, verified, strays>>
  BY DEF Fetch, Remember, ReadLedger, files, outside
<1> QED
  BY <1>2, <1>3, <1>4, <1>5, UnmarkedIsShut, QuietEditIsIntact

\* An answer.
LEMMA AnswerIsIntact ==
  ASSUME Core, NEW b, Known(b), Intact(b), NEW r \in Requests, reqs' = Over(reqs, r),
         UNCHANGED <<partial, verified, strays>>
  PROVE  Intact(b)'
BY OverIsNoSurer, QuietIsIntact

\* A step to one that opens no file.
LEMMA GoesIsIntact ==
  ASSUME Core, NEW b, Known(b), Intact(b), NEW r \in Requests, NEW pc \in Onward, Goes(r, pc),
         UNCHANGED <<partial, verified, strays>>
  PROVE  Intact(b)'
BY GoesIsNoSurer, QuietIsIntact

\* An update of the receipt.
LEMMA UpdateIsIntact ==
  ASSUME Core, NEW b, Known(b), Intact(b), NEW r \in Requests,
         NEW state, NEW emptied, NEW then \in Onward, Update(r, state, emptied, then),
         UNCHANGED <<partial, verified, strays>>
  PROVE  Intact(b)'
BY UpdateIsNoSurer, QuietIsIntact

\* A save.
LEMMA ChangeIsIntact ==
  ASSUME Core, NEW b, Known(b), Intact(b), NEW r \in Requests,
         NEW receipt, NEW then, Change(r, receipt, then, reqs),
         UNCHANGED <<partial, verified, strays>>
  PROVE  Intact(b)'
BY ChangeIsNoSurer, QuietIsIntact

\* An announce that found memory changed decides again.
LEMMA DecideAgainIsIntact ==
  ASSUME Core, NEW b, Known(b), Intact(b), NEW r \in Requests, reqs[r].op = "announce",
         DecideAgain(r), UNCHANGED <<partial, verified, strays>>
  PROVE  Intact(b)'
<1> DEFINE x == [reqs[r] EXCEPT !.got = mem, !.pc = "decide"]
<1>1. reqs' = [reqs EXCEPT ![r] = x]
  BY DEF DecideAgain, Core, TypeOK
<1>2. reqs[r] \in Request
  BY DEF Core, TypeOK
<1>3. x.file = reqs[r].file /\ x.pc = "decide"
  BY <1>2 DEF Request
<1> HIDE DEF x
<1>4. NoSurer(x, reqs[r])
  BY <1>3, UnmarkedIsShut DEF Marked, Sure
<1> QED
  BY <1>1, <1>4, QuietEditIsIntact

\* Steps that answer, go on or save, and touch no file.
LEMMA PlainStepsAreIntact ==
  ASSUME Core, NEW b, Known(b), Intact(b), NEW r \in Requests,
         \/ Status(r) \/ Announce(r) \/ TakeOver(r) \/ Reopened(r) \/ Chunk(r) \/ AddChunk(r)
         \/ Missing(r) \/ SetVerifying(r) \/ Verifying(r) \/ Damaged(r) \/ Conflict(r)
         \/ Admitted(r) \/ Refused(r) \/ Paired(r)
  PROVE  Intact(b)'
<1>1. UNCHANGED <<partial, verified, strays>>
  BY DEF Status, Announce, TakeOver, Reopened, Chunk, AddChunk, Missing, SetVerifying, Verifying,
         Damaged, Conflict, Admitted, Refused, Paired, files, outside
<1>2. CASE Answer(r)
  BY <1>1, <1>2, AnswerIsIntact DEF Answer
<1>3. CASE \E pc \in Onward : Goes(r, pc)
  BY <1>1, <1>3, GoesIsIntact
<1>4. CASE \E state, emptied : \E then \in Onward : Update(r, state, emptied, then)
  BY <1>1, <1>4, UpdateIsIntact
<1>5. CASE \E receipt, then : Change(r, receipt, then, reqs)
  BY <1>1, <1>5, ChangeIsIntact
<1>6. CASE Announce(r)
  BY <1>2, <1>3, <1>6 DEF Announce, Onward
<1>7. CASE TakeOver(r)
  BY <1>1, <1>5, <1>7, DecideAgainIsIntact DEF TakeOver, Decides
<1>8. CASE Reopened(r) \/ SetVerifying(r) \/ Damaged(r) \/ Admitted(r) \/ Refused(r)
  BY <1>4, <1>8 DEF Reopened, SetVerifying, Damaged, Admitted, Refused, Onward
<1>9. CASE Chunk(r)
  BY <1>2, <1>3, <1>9 DEF Chunk, Onward
<1>10. CASE AddChunk(r)
  BY <1>2, <1>5, <1>10 DEF AddChunk
<1>11. CASE Verifying(r)
  BY <1>2, <1>3, <1>11 DEF Verifying, Onward
<1>12. CASE Status(r) \/ Missing(r) \/ Conflict(r) \/ Paired(r)
  BY <1>2, <1>12 DEF Status, Missing, Conflict, Paired
<1> QED
  BY <1>6, <1>7, <1>8, <1>9, <1>10, <1>11, <1>12

\* Files that go take nothing from the requests, which see theirs replaced.
LEMMA NoFilesIsIntact ==
  ASSUME Core, NEW b, Known(b), Intact(b), strays' = strays,
         partial' \in {partial, None, Blank}, verified' \in {verified, None},
         \A s \in Requests : NoSurer(reqs'[s], reqs[s]) /\ reqs'[s].file # "open"
  PROVE  Intact(b)'
<1>1. Holds(verified', b) /\ \A u \in strays' : u[1] = b
  BY DEF Intact, Clean, Holds
<1> QED
  BY <1>1, ShutIsIntact

\* A discard shuts the files, or leaves them.
LEMMA DiscardIsIntact ==
  ASSUME Core, NEW b, Known(b), Intact(b), strays' = strays, NEW d,
         DiscardOwn(d, reqs) \/ \E r \in Requests : DiscardOwn(d, Over(reqs, r))
  PROVE  Intact(b)'
<1>1. CASE DiscardOwn(d, reqs)
  <2>1. CASE reqs' = reqs /\ UNCHANGED files
    BY <2>1, SameIsNoSurer, QuietIsIntact DEF files
  <2>2. CASE reqs' = Closed(reqs) /\ NoFiles
    BY <2>2, ClosedIsNoSurer, NoFilesIsIntact DEF NoFiles
  <2> QED
    BY <1>1, <2>1, <2>2 DEF DiscardOwn
<1>2. ASSUME NEW r \in Requests, DiscardOwn(d, Over(reqs, r))
      PROVE  Intact(b)'
  <2>1. CASE reqs' = Over(reqs, r) /\ UNCHANGED files
    BY <2>1, AnswerIsIntact DEF files
  <2>2. CASE reqs' = Closed(Over(reqs, r)) /\ NoFiles
    <3>1. ASSUME NEW s \in Requests
          PROVE  NoSurer(reqs'[s], reqs[s]) /\ reqs'[s].file # "open"
      <4>1. CASE s = r
        <5>1. Over(reqs, r)[s] = Idle /\ reqs'[s] = Idle
          BY <2>2, <4>1 DEF Over, Closed, Core, TypeOK, Idle
        <5> QED
          BY <5>1, IdleIsNoSurer
      <4>2. CASE s # r
        <5>1. reqs'[s] = Closed(reqs)[s]
          BY <2>2, <4>2 DEF Over, Closed, Core, TypeOK
        <5> QED
          BY <5>1, ClosedIsNoSurer
      <4> QED
        BY <4>1, <4>2
    <3> QED
      BY <2>2, <3>1, NoFilesIsIntact DEF NoFiles
  <2> QED
    BY <1>2, <2>1, <2>2 DEF DiscardOwn
<1> QED
  BY <1>1, <1>2

\* The save of a fresh receipt is back, or the re-announce's.
LEMMA OpenedIsIntact ==
  ASSUME Core, NEW b, Known(b), Intact(b), NEW r \in Requests, Opened(r) \/ Resumed(r)
  PROVE  Intact(b)'
<1>1. strays' = strays
  BY DEF Opened, Resumed, outside
<1>2. \/ DiscardOwn(reqs[r].dev, Over(reqs, r))
      \/ reqs' = Over(reqs, r) /\ UNCHANGED files
  BY DEF Opened, Resumed
<1> QED
  BY <1>1, <1>2, DiscardIsIntact, AnswerIsIntact DEF files

\* A fresh receipt's files start over, and shut the old ones.
LEMMA ReplaceIsIntact ==
  ASSUME Core, NEW b, Known(b), Intact(b), NEW r \in Requests, Replace(r)
  PROVE  Intact(b)'
<1>1. strays' = strays /\ reqs[r].pc = "replace" /\ reqs[r] \in Request
  BY DEF Replace, outside, At, Core, TypeOK
<1>2. reqs[r].op = "announce"
  BY <1>1, RouteOf DEF Core, AllFine
<1>3. CASE Answer(r) /\ UNCHANGED files
  BY <1>1, <1>3, AnswerIsIntact DEF Answer, files
<1>4. CASE DecideAgain(r) /\ UNCHANGED files
  BY <1>1, <1>2, <1>4, DecideAgainIsIntact DEF files
<1>5. ASSUME NEW fresh, NEW then, Change(r, fresh, then, reqs), UNCHANGED files
      PROVE  Intact(b)'
  BY <1>1, <1>5, ChangeIsIntact DEF files
<1>6. ASSUME NEW fresh, NEW admitted \in BOOLEAN,
             Change(r, fresh, "opened", Closed(reqs)), OpenFiles(reqs[r], admitted)
      PROVE  Intact(b)'
  <2> DEFINE x == [Closed(reqs)[r] EXCEPT !.pc = "saving", !.then = "opened", !.got = fresh]
  <2>1. \A s \in Requests : reqs'[s] = IF s = r THEN x ELSE Closed(reqs)[s]
    BY <1>6 DEF Change, Closed
  <2>2. Closed(reqs)[r] \in Request
    BY ClosedIsLike DEF Like
  <2>3. x.file = Closed(reqs)[r].file /\ x.pc = "saving"
    BY <2>2 DEF Request
  <2> HIDE DEF x
  <2>4. x.file # "open" /\ NoSurer(x, reqs[r])
    BY <2>3, ClosedIsNoSurer DEF NoSurer, Sure
  <2>5. \A s \in Requests : NoSurer(reqs'[s], reqs[s]) /\ reqs'[s].file # "open"
    BY <2>1, <2>4, ClosedIsNoSurer
  <2> QED
    BY <1>1, <1>6, <2>5, NoFilesIsIntact DEF OpenFiles
<1> QED
  BY <1>3, <1>4, <1>5, <1>6 DEF Replace

\* A partial is opened where none was, so nobody had it open.
LEMMA ResumeIsIntact ==
  ASSUME Core, NEW b, Known(b), Intact(b), NEW r \in Requests, Resume(r)
  PROVE  Intact(b)'
<1>1. strays' = strays /\ reqs[r].pc = "resume" /\ reqs[r] \in Request
  BY DEF Resume, outside, At, Core, TypeOK
<1>2. CASE Answer(r) /\ UNCHANGED files
  BY <1>1, <1>2, AnswerIsIntact DEF Answer, files
<1>3. ASSUME NEW there \in BOOLEAN,
             reqs' = [reqs EXCEPT ![r].pc = "reopened", ![r].ok = there],
             partial' = IF there \/ partial # None THEN partial ELSE Blank, verified' = verified
      PROVE  Intact(b)'
  <2> DEFINE x == [reqs[r] EXCEPT !.pc = "reopened", !.ok = there]
  <2>1. reqs' = [reqs EXCEPT ![r] = x]
    BY <1>3 DEF Core, TypeOK
  <2>2. x.op = reqs[r].op /\ x.file = reqs[r].file /\ x.pc = "reopened"
    BY <1>1 DEF Request
  <2> HIDE DEF x
  <2>3. \A s \in Requests : NoSurer(reqs'[s], reqs[s])
    BY <2>1, <2>2, OnwardIsNoSurer, EditIsNoSurer DEF Onward
  <2>4. CASE partial' = partial
    BY <1>1, <1>3, <2>3, <2>4, QuietIsIntact
  <2>5. CASE partial = None /\ partial' = Blank
    <3>1. \A s \in Requests : reqs[s].file # "open"
      BY <2>5 DEF Intact, Sound
    <3>2. \A s \in Requests : reqs'[s].file # "open"
      BY <2>3, <3>1 DEF NoSurer
    <3> QED
      BY <1>1, <1>3, <2>3, <2>5, <3>2, NoFilesIsIntact
  <2> QED
    BY <1>3, <2>4, <2>5
<1> QED
  BY <1>2, <1>3 DEF Resume

\* A chunk of the recording joins whatever partial is there.
LEMMA WriteChunkIsIntact ==
  ASSUME Core, NEW b, Known(b), Intact(b), NEW r \in Requests, WriteChunk(r)
  PROVE  Intact(b)'
<1>1. strays' = strays /\ verified' = verified /\ reqs[r].pc = "writing" /\ Fine(reqs[r])
  BY DEF WriteChunk, outside, At, Core, AllFine
<1>2. reqs[r].op = "chunk"
  BY <1>1, RouteOf
<1>3. reqs[r].content = b /\ reqs[r].chunk \in Chunks
  BY <1>1, <1>2, KnownParts DEF Pure, Asks, Fine
<1>4. CASE Answer(r) /\ UNCHANGED partial
  BY <1>1, <1>4, AnswerIsIntact DEF Answer
<1>5. CASE /\ partial # None
           /\ partial' = [partial EXCEPT ![reqs[r].chunk] = reqs[r].content]
           /\ Goes(r, "written")
  <2>1. Gains(b)
    BY <1>3, <1>5 DEF Gains
  <2>2. \A s \in Requests : NoSurer(reqs'[s], reqs[s])
    BY <1>5, GoesIsNoSurer DEF Onward
  <2>3. Holds(verified', b) /\ \A u \in strays' : u[1] = b
    BY <1>1 DEF Intact, Clean
  <2> QED
    BY <2>1, <2>2, <2>3, KnownParts, GainsAreIntact
<1> QED
  BY <1>4, <1>5 DEF WriteChunk

\* The checks of `complete`: it goes on with the mark, answers, or discards.
LEMMA CompleteIsIntact ==
  ASSUME Core, NEW b, Known(b), Intact(b), NEW r \in Requests, Complete(r)
  PROVE  Intact(b)'
<1>1. strays' = strays /\ reqs[r].pc = "decide" /\ reqs[r] \in Request
  BY DEF Complete, Decides, At, Core, TypeOK
<1>2. CASE reqs' = Over(reqs, r) /\ UNCHANGED files
  BY <1>1, <1>2, AnswerIsIntact DEF files
<1>3. CASE reqs' = Over(Closed(reqs), r) /\ NoFiles
  BY <1>1, <1>3, ShutIsNoSurer, NoFilesIsIntact DEF NoFiles
<1>4. CASE reqs' = [reqs EXCEPT ![r].pc = "verify", ![r].meta = sidecar] /\ UNCHANGED files
  <2> DEFINE x == [reqs[r] EXCEPT !.pc = "verify", !.meta = sidecar]
  <2>1. reqs' = [reqs EXCEPT ![r] = x]
    BY <1>4 DEF Core, TypeOK
  <2>2. x.op = reqs[r].op /\ x.file = reqs[r].file /\ x.pc = "verify"
    BY <1>1 DEF Request
  <2> HIDE DEF x
  <2>3. NoSurer(x, reqs[r])
    BY <2>2, OnwardIsNoSurer DEF Onward
  <2> QED
    BY <1>1, <1>4, <2>1, <2>3, QuietEditIsIntact DEF files
<1> QED
  BY <1>2, <1>3, <1>4 DEF Complete, Answer

\* The partial is opened under the mark.
LEMMA VerifyIsIntact ==
  ASSUME Core, NEW b, Known(b), Intact(b), NEW r \in Requests, Verify(r)
  PROVE  Intact(b)'
<1>1. UNCHANGED <<partial, verified, strays>> /\ reqs[r].pc = "verify" /\ reqs[r] \in Request
  BY DEF Verify, files, outside, At, Core, TypeOK
<1>2. reqs[r].op = "complete"
  BY <1>1, AtComplete DEF Completes
<1>3. CASE partial # None /\ reqs' = [reqs EXCEPT ![r].pc = "open", ![r].file = "open"]
  <2> DEFINE x == [reqs[r] EXCEPT !.pc = "open", !.file = "open"]
  <2>1. reqs' = [reqs EXCEPT ![r] = x]
    BY <1>3 DEF Core, TypeOK
  <2>2. x.op = "complete" /\ x.pc = "open"
    BY <1>1, <1>2 DEF Request
  <2> HIDE DEF x
  <2>3. Sound(x, partial, b)
    BY <1>3, <2>2 DEF Sound, Sure, Marked, Reads
  <2> QED
    BY <1>1, <2>1, <2>3, QuietEditIsIntact
<1>4. CASE Goes(r, "intake")
  BY <1>1, <1>4, GoesIsIntact DEF Onward
<1>5. CASE Update(r, "same", TRUE, "missing")
  BY <1>1, <1>5, UpdateIsIntact DEF Onward
<1>6. CASE Answer(r)
  BY <1>1, <1>6, AnswerIsIntact DEF Answer
<1> QED
  BY <1>3, <1>4, <1>5, <1>6 DEF Verify

\* The hash tells a whole partial from another.
LEMMA HashIsIntact ==
  ASSUME Core, NEW b, Known(b), Intact(b), NEW r \in Requests, Hash(r)
  PROVE  Intact(b)'
<1> DEFINE ok == reqs[r].file = "open" /\ Whole(partial, reqs[r].got.content)
           x == [reqs[r] EXCEPT !.pc = "hashed", !.ok = ok]
<1>1. UNCHANGED <<partial, verified, strays>> /\ reqs[r].pc = "hash" /\ Fine(reqs[r])
  BY DEF Hash, files, outside, At, Core, AllFine
<1>2. reqs[r].op = "complete" /\ reqs[r] \in Request /\ reqs[r].got # None
  BY <1>1, AtComplete DEF Completes, Fine
<1>3. reqs[r].got.content = b
  BY <1>2, KnownParts DEF Pure, Of
<1>4. reqs' = [reqs EXCEPT ![r] = x]
  BY DEF Hash, Core, TypeOK
<1>5. x.pc = "hashed" /\ x.op = "complete" /\ x.file = reqs[r].file /\ (x.ok <=> ok)
  BY <1>2 DEF Request
<1>6. ok => Whole(partial, b)
  BY <1>3
<1> HIDE DEF x, ok
<1>7. Sound(x, partial, b)
  BY <1>5, <1>6 DEF Intact, Sound, Sure, Marked, Reads
<1> QED
  BY <1>1, <1>4, <1>7, QuietEditIsIntact

\* A hash that was the recording's goes on; others answer, and may discard.
LEMMA HashedIsIntact ==
  ASSUME Core, NEW b, Known(b), Intact(b), NEW r \in Requests, Hashed(r)
  PROVE  Intact(b)'
<1>1. strays' = strays /\ reqs[r].pc = "hashed"
  BY DEF Hashed, outside, At
<1>2. reqs[r].op = "complete" /\ reqs[r] \in Request
  BY <1>1, AtComplete DEF Completes
<1>3. CASE DiscardOwn(reqs[r].dev, Over(reqs, r))
  BY <1>1, <1>3, DiscardIsIntact
<1>4. CASE reqs' = Over(reqs, r) /\ UNCHANGED files
  BY <1>1, <1>4, AnswerIsIntact DEF files
<1>5. CASE Update(r, "receiving", TRUE, "conflict") /\ UNCHANGED files
  BY <1>1, <1>5, UpdateIsIntact DEF files, Onward
<1>6. CASE DiscardOwn(reqs[r].dev, [reqs EXCEPT ![r].pc = "damaged"])
  <2> DEFINE x == [reqs[r] EXCEPT !.pc = "damaged"]
  <2>1. x.op = reqs[r].op /\ x.file = reqs[r].file /\ x.pc = "damaged"
    BY <1>2 DEF Request
  <2>2. [reqs EXCEPT ![r].pc = "damaged"] = [reqs EXCEPT ![r] = x]
    OBVIOUS
  <2>3. x \in Request
    BY <1>2 DEF Request, Steps
  <2> HIDE DEF x
  <2>4. NoSurer(x, reqs[r])
    BY <2>1, OnwardIsNoSurer DEF Onward
  <2>5. CASE reqs' = [reqs EXCEPT ![r] = x] /\ UNCHANGED files
    BY <1>1, <2>4, <2>5, QuietEditIsIntact DEF files
  <2>6. CASE reqs' = Closed([reqs EXCEPT ![r] = x]) /\ NoFiles
    <3> DEFINE y == IF x.file = "open" THEN [x EXCEPT !.file = "replaced"] ELSE x
    <3>1. y.file # "open" /\ y.pc = "damaged"
      BY <2>1, <2>3 DEF Request
    <3>2. \A s \in Requests : reqs'[s] = IF s = r THEN y ELSE Closed(reqs)[s]
      BY <2>6 DEF Closed, Core, TypeOK
    <3> HIDE DEF y
    <3>3. NoSurer(y, reqs[r])
      BY <3>1 DEF NoSurer, Sure
    <3>4. \A s \in Requests : NoSurer(reqs'[s], reqs[s]) /\ reqs'[s].file # "open"
      BY <3>1, <3>2, <3>3, ClosedIsNoSurer
    <3> QED
      BY <1>1, <2>6, <3>4, NoFilesIsIntact DEF NoFiles
  <2> QED
    BY <1>6, <2>2, <2>5, <2>6 DEF DiscardOwn
<1>7. CASE reqs[r].ok /\ Goes(r, "promote") /\ UNCHANGED files
  <2> DEFINE x == [reqs[r] EXCEPT !.pc = "promote"]
  <2>1. reqs' = [reqs EXCEPT ![r] = x]
    BY <1>7 DEF Goes
  <2>2. x.op = "complete" /\ x.file = reqs[r].file /\ x.pc = "promote"
    BY <1>2 DEF Request
  <2> HIDE DEF x
  <2>3. NoSurer(x, reqs[r])
    BY <1>1, <1>7, <2>2 DEF NoSurer, Sure, Marked, Reads
  <2> QED
    BY <1>1, <1>7, <2>1, <2>3, QuietEditIsIntact DEF files
<1> QED
  BY <1>3, <1>4, <1>5, <1>6, <1>7 DEF Hashed

\* The rename makes the hashed partial the verified file.
LEMMA PromoteIsIntact ==
  ASSUME Core, NEW b, Known(b), Intact(b), NEW r \in Requests, Promote(r)
  PROVE  Intact(b)'
<1>1. strays' = strays /\ reqs[r].pc = "promote"
  BY DEF Promote, outside, At
<1>2. Marked(reqs[r]) /\ reqs[r] \in Request /\ reqs[r].got # None
  BY <1>1, AtComplete DEF Completes
<1>3. reqs[r].got.content = b
  BY <1>2, KnownParts DEF Pure, Of
<1>4. \A s \in Requests : s # r => reqs[s].file # "open"
  BY <1>2, OthersAreShut
<1>5. CASE Answer(r) /\ UNCHANGED <<partial, verified>>
  BY <1>1, <1>5, AnswerIsIntact DEF Answer
<1>6. CASE /\ reqs[r].file = "open" /\ partial' = None
           /\ verified' = [data |-> partial, hashed |-> reqs[r].got.content]
           /\ reqs' = [reqs EXCEPT ![r].pc = "intake", ![r].file = "closed"]
  <2> DEFINE x == [reqs[r] EXCEPT !.pc = "intake", !.file = "closed"]
  <2>1. reqs' = [reqs EXCEPT ![r] = x]
    BY <1>6 DEF Core, TypeOK
  <2>2. x.file = "closed" /\ x.pc = "intake"
    BY <1>2 DEF Request
  <2> HIDE DEF x
  <2>3. NoSurer(x, reqs[r])
    BY <2>2 DEF NoSurer, Sure
  <2>4. \A s \in Requests : reqs'[s] = IF s = r THEN x ELSE reqs[s]
    BY <2>1 DEF Core, TypeOK
  <2>5. \A s \in Requests : NoSurer(reqs'[s], reqs[s]) /\ reqs'[s].file # "open"
    BY <1>4, <2>2, <2>3, <2>4, SameIsNoSurer
  <2>6. Whole(partial, b)
    BY <1>1, <1>6 DEF Intact, Sound, Sure
  <2>7. Holds(verified', b)
    BY <1>3, <1>6, <2>6 DEF Holds
  <2>8. \A u \in strays' : u[1] = b
    BY <1>1 DEF Intact, Clean
  <2> QED
    BY <1>6, <2>5, <2>7, <2>8, ShutIsIntact
<1>7. CASE /\ reqs[r].file = "replaced" /\ partial' = None /\ verified' = None
           /\ Update(r, "receiving", TRUE, "conflict")
  <2>1. \A s \in Requests : NoSurer(reqs'[s], reqs[s])
    BY <1>7, UpdateIsNoSurer DEF Onward
  <2>2. \A s \in Requests : reqs'[s].file # "open"
    BY <1>4, <1>7, <2>1 DEF NoSurer
  <2> QED
    BY <1>1, <1>7, <2>1, <2>2, NoFilesIsIntact
<1> QED
  BY <1>5, <1>6, <1>7 DEF Promote

\* The intake takes its copy of the verified file.
LEMMA IntakeIsIntact ==
  ASSUME Core, NEW b, Known(b), Intact(b), NEW r \in Requests, Intake(r)
  PROVE  Intact(b)'
<1>1. UNCHANGED <<partial, verified, strays>> /\ reqs[r].pc = "intake"
  BY DEF Intake, files, At
<1>2. reqs[r].op = "complete" /\ reqs[r] \in Request
  BY <1>1, AtComplete DEF Completes
<1>3. CASE Goes(r, "refused") \/ Goes(r, "admitted")
  BY <1>1, <1>3, GoesIsIntact DEF Onward
<1>4. CASE verified # None /\ reqs' = [reqs EXCEPT ![r].pc = "commit", ![r].copied = verified]
  <2> DEFINE x == [reqs[r] EXCEPT !.pc = "commit", !.copied = verified]
  <2>1. reqs' = [reqs EXCEPT ![r] = x]
    BY <1>4 DEF Core, TypeOK
  <2>2. x.op = "complete" /\ x.file = reqs[r].file /\ x.pc = "commit" /\ x.copied = verified
    BY <1>2 DEF Request
  <2> HIDE DEF x
  <2>3. Sound(x, partial, b)
    BY <1>4, <2>2 DEF Intact, Clean, Sound, Sure, Marked, Reads
  <2> QED
    BY <1>1, <2>1, <2>3, QuietEditIsIntact
<1> QED
  BY <1>3, <1>4 DEF Intake

\* The admission's transaction removes the verified file, or leaves it.
LEMMA CommitIsIntact ==
  ASSUME Core, NEW b, Known(b), Intact(b), NEW r \in Requests, Commit(r)
  PROVE  Intact(b)'
<1>1. partial' = partial /\ strays' = strays /\ reqs[r].pc = "commit"
  BY DEF Commit, At
<1>2. reqs[r] \in Request
  BY <1>1, AtComplete DEF Completes
<1>3. CASE Goes(r, "refused") /\ verified' = verified
  BY <1>1, <1>3, GoesIsIntact DEF Onward
<1>4. CASE Commits(r)
  <2> DEFINE x == [reqs[r] EXCEPT !.pc = "admitted", !.copied = None]
  <2>1. reqs' = [reqs EXCEPT ![r] = x]
    BY <1>4 DEF Commits, Core, TypeOK
  <2>2. x.op = reqs[r].op /\ x.file = reqs[r].file /\ x.pc = "admitted"
    BY <1>2 DEF Request
  <2> HIDE DEF x
  <2>3. \A s \in Requests : NoSurer(reqs'[s], reqs[s])
    BY <2>1, <2>2, OnwardIsNoSurer, EditIsNoSurer DEF Onward
  <2>4. Gains(b) /\ Holds(verified', b) /\ \A u \in strays' : u[1] = b
    BY <1>1, <1>4 DEF Commits, Gains, Holds, Intact, Clean
  <2> QED
    BY <2>3, <2>4, KnownParts, GainsAreIntact
<1> QED
  BY <1>3, <1>4 DEF Commit, CommitFails

\* The end of an admission: the files go, or the verified one alone.
LEMMA EndsAreIntact ==
  ASSUME Core, NEW b, Known(b), Intact(b), NEW r \in Requests, Finish(r) \/ Stays(r)
  PROVE  Intact(b)'
<1>1. strays' = strays
  BY DEF Finish, Stays, outside
<1>2. CASE reqs' = Over(Closed(reqs), r) /\ NoFiles
  BY <1>1, <1>2, ShutIsNoSurer, NoFilesIsIntact DEF NoFiles
<1>3. CASE reqs' = Over(reqs, r) /\ partial' = partial /\ verified' \in {verified, None}
  <2>1. Gains(b) /\ Holds(verified', b) /\ \A u \in strays' : u[1] = b
    BY <1>1, <1>3 DEF Gains, Holds, Intact, Clean
  <2> QED
    BY <1>3, <2>1, OverIsNoSurer, KnownParts, GainsAreIntact
<1> QED
  BY <1>2, <1>3 DEF Finish, Stays, Answer

\* A save that is back sends its request on to a step that opens no file.
LEMMA LineIsIntact ==
  ASSUME Core, NEW b, Known(b), Intact(b), Written \/ WriteFails
  PROVE  Intact(b)'
<1> DEFINE w == Head(line)
<1>1. UNCHANGED <<partial, verified, strays>> /\ line # << >>
  BY DEF Written, WriteFails, files, outside
<1>2. w = line[1] /\ 1 \in 1..Len(line) /\ w \in Writes
  BY <1>1 DEF Core, TypeOK
<1>3. w.for # None => w.for \in Requests /\ reqs[w.for].pc = "saving"
  BY <1>2, LineElements DEF Core, Lined, TypeOK
<1> HIDE DEF w
<1>4. w.kind \in {"receipt", "pair", "delete"}
  BY <1>2 DEF Writes
<1>5. PICK ok \in BOOLEAN : Told(w, ok)
  BY <1>4 DEF Written, WriteFails, w
<1>6. CASE reqs' = reqs
  BY <1>1, <1>6, SameIsNoSurer, QuietIsIntact
<1>7. CASE w.for # None /\ reqs' = Over(reqs, w.for)
  BY <1>1, <1>3, <1>7, AnswerIsIntact
<1>8. CASE /\ w.for # None
           /\ reqs' = [reqs EXCEPT ![w.for].pc = reqs[w.for].then, ![w.for].then = "idle", ![w.for].ok = ok]
           /\ reqs[w.for].then # "answer"
  <2> DEFINE r == w.for
             x == [reqs[r] EXCEPT !.pc = reqs[r].then, !.then = "idle", !.ok = ok]
  <2>1. r \in Requests /\ reqs[r].pc = "saving" /\ Fine(reqs[r])
    BY <1>3, <1>8 DEF Core, AllFine
  <2>2. reqs' = [reqs EXCEPT ![r] = x]
    BY <1>8, <2>1 DEF Core, TypeOK
  <2>3. x.op = reqs[r].op /\ x.file = reqs[r].file /\ x.pc = reqs[r].then
    BY <2>1 DEF Fine, Request
  <2> HIDE DEF x
  <2>4. reqs[r].then \in Onward \cup {"paired"}
    BY <2>1 DEF Fine, InRoute, Saves, Request, Reads, Completes, Onward
  <2>5. NoSurer(x, reqs[r])
    BY <2>3, <2>4 DEF NoSurer, Sure, Onward, Marked, Reads
  <2> QED
    BY <1>1, <2>1, <2>2, <2>5, QuietEditIsIntact
<1> QED
  BY <1>5, <1>6, <1>7, <1>8 DEF Told

\* A revoke is seen by the device's requests.
LEMMA RevokeIsIntact ==
  ASSUME Core, NEW b, Known(b), Intact(b), NEW d \in Devices, Revoke(d)
  PROVE  Intact(b)'
<1>1. ASSUME NEW s \in Requests
      PROVE  NoSurer(reqs'[s], reqs[s])
  <2> DEFINE x == [reqs[s] EXCEPT !.since = TRUE]
  <2>1. reqs[s] \in Request
    BY DEF Core, TypeOK
  <2>2. reqs'[s] \in {reqs[s], x}
    BY DEF Revoke
  <2>3. /\ x.op = reqs[s].op /\ x.file = reqs[s].file /\ x.pc = reqs[s].pc
        /\ x.ok = reqs[s].ok /\ x.copied = reqs[s].copied
    BY <2>1 DEF Request
  <2> HIDE DEF x
  <2> QED
    BY <2>2, <2>3 DEF NoSurer, Sure, Marked
<1>2. UNCHANGED <<partial, verified, strays>>
  BY DEF Revoke, files
<1> QED
  BY <1>1, <1>2, QuietIsIntact

\* A hang-up leaves a chunk write of the recording, at most.
LEMMA HangUpIsIntact ==
  ASSUME Core, NEW b, Known(b), Intact(b), NEW r \in Requests, HangUp(r)
  PROVE  Intact(b)'
<1>1. UNCHANGED <<partial, verified>> /\ Fine(reqs[r])
  BY DEF HangUp, files, Core, AllFine
<1>2. CASE reqs' = [reqs EXCEPT ![r].heard = FALSE] /\ strays' = strays
  <2> DEFINE x == [reqs[r] EXCEPT !.heard = FALSE]
  <2>1. reqs' = [reqs EXCEPT ![r] = x]
    BY <1>2 DEF Core, TypeOK
  <2>2. /\ x.op = reqs[r].op /\ x.file = reqs[r].file /\ x.pc = reqs[r].pc
        /\ x.ok = reqs[r].ok /\ x.copied = reqs[r].copied
    BY <1>1 DEF Fine, Request
  <2> HIDE DEF x
  <2>3. NoSurer(x, reqs[r])
    BY <2>2 DEF NoSurer, Sure, Marked
  <2> QED
    BY <1>1, <1>2, <2>1, <2>3, QuietEditIsIntact
<1>3. CASE /\ Answer(r)
           /\ strays' = IF reqs[r].pc = "writing" THEN strays \cup {<<reqs[r].content, reqs[r].chunk>>}
                                                  ELSE strays
  <2>1. reqs[r].pc = "writing" => reqs[r].content = b
    BY <1>1, RouteOf, KnownParts DEF Pure, Asks
  <2>2. \A u \in strays' : u[1] = b
    BY <1>3, <2>1 DEF Intact, Clean
  <2>3. Gains(b) /\ Holds(verified', b)
    BY <1>1 DEF Gains, Intact, Clean
  <2> QED
    BY <1>3, <2>2, <2>3, OverIsNoSurer, KnownParts, GainsAreIntact DEF Answer
<1> QED
  BY <1>2, <1>3 DEF HangUp

\* A late chunk is the recording's.
LEMMA StrayWriteIsIntact ==
  ASSUME Core, NEW b, Known(b), Intact(b), NEW c, NEW k \in Chunks, StrayWrite(c, k)
  PROVE  Intact(b)'
<1>1. /\ <<c, k>> \in strays /\ strays' = strays \ {<<c, k>>}
      /\ partial' = IF partial = None THEN None ELSE [partial EXCEPT ![k] = c]
      /\ verified' = verified /\ reqs' = reqs
  BY DEF StrayWrite
<1>2. c = b
  BY <1>1 DEF Intact, Clean
<1>3. Gains(b) /\ Holds(verified', b) /\ \A u \in strays' : u[1] = b
  BY <1>1, <1>2 DEF Gains, Intact, Clean
<1> QED
  BY <1>1, <1>3, SameIsNoSurer, KnownParts, GainsAreIntact

\* What a start finds of the files is what was there.
LEMMA RestartIsIntact ==
  ASSUME Core, NEW b, Known(b), Intact(b), NEW abandoned \in BOOLEAN, Restart(abandoned)
  PROVE  Intact(b)'
<1>1. reqs' = [s \in Requests |-> Idle] /\ strays' = {}
      /\ partial' \in {partial, None} /\ verified' \in {verified, None}
  BY DEF Restart, NoFiles, files
<1>2. \A s \in Requests : NoSurer(reqs'[s], reqs[s]) /\ reqs'[s].file # "open"
  BY <1>1, IdleIsNoSurer
<1>3. Holds(verified', b) /\ \A u \in strays' : u[1] = b
  BY <1>1 DEF Intact, Clean, Holds
<1> QED
  BY <1>1, <1>2, <1>3, ShutIsIntact

\* Nothing is on disk to begin with.
LEMMA InitIsIntact ==
  ASSUME Init, NEW b
  PROVE  Intact(b)
<1>1. partial = None /\ verified = None /\ strays = {} /\ reqs = [r \in Requests |-> Idle]
  BY DEF Init
<1> QED
  BY <1>1 DEF Intact, Clean, Holds, Sound, Sure, Idle

\* Every step leaves the bytes `b`'s.
LEMMA NextIsIntact ==
  ASSUME Core, NEW b, Known(b), Intact(b), [Next]_vars
  PROVE  Intact(b)'
<1>1. CASE UNCHANGED vars
  <2>1. reqs' = reqs /\ UNCHANGED <<partial, verified, strays>>
    BY <1>1 DEF vars, files, outside
  <2> QED
    BY <2>1, SameIsNoSurer, QuietIsIntact
<1>2. ASSUME NEW r \in Requests, Handler(r)
      PROVE  Intact(b)'
  BY <1>2, ReadsAreIntact, PlainStepsAreIntact, ReplaceIsIntact, OpenedIsIntact, ResumeIsIntact,
     WriteChunkIsIntact, CompleteIsIntact, VerifyIsIntact, HashIsIntact, HashedIsIntact,
     PromoteIsIntact, IntakeIsIntact, CommitIsIntact, EndsAreIntact
  DEF Handler
<1>3. ASSUME NEW r \in Requests, Phone(r)
      PROVE  Intact(b)'
  BY <1>3, AskIsIntact, PairIsIntact, HangUpIsIntact DEF Phone
<1>4. ASSUME Computer
      PROVE  Intact(b)'
  <2>1. ASSUME NEW d \in Devices, DiscardRevoked(d)
        PROVE  Intact(b)'
    BY <2>1, DiscardIsIntact DEF DiscardRevoked
  <2>2. ASSUME NEW c \in Contents, DeleteMeeting(c)
        PROVE  Intact(b)'
    BY <2>2, SameIsNoSurer, QuietIsIntact DEF DeleteMeeting, files, outside
  <2> QED
    BY <1>4, <2>1, <2>2, LineIsIntact, RevokeIsIntact, StrayWriteIsIntact, RestartIsIntact
    DEF Computer
<1> QED
  BY <1>1, <1>2, <1>3, <1>4 DEF Next

\* What every state has, of the one content of its behaviour.
Sealed ==
  Core /\ \E b \in {u[2] : u \in Uploads} \cup {None} : Known(b) /\ Intact(b)

\* Any number of phones and requests, of one recording, with every fault:
\* what the intake admits was hashed to be the upload, and every chunk of it
\* is the upload's.  A chunk that comes late, after a hang-up or to a partial
\* opened anew, is a chunk of the same bytes, and a partial that goes under a
\* running verify is another file than the one it renames.
\* (upload/inbox.rs, engine/recording.rs `verified_file`, intake.rs)
THEOREM OneRecordingIsAdmittedWhole ==
  ASSUME OneRecording
  PROVE  Spec => [](AdmittedWasHashed /\ AdmittedHoldsItsBytes)
<1>1. Init => Sealed
  BY InitIsCore, InitIsKnown, InitIsIntact DEF Sealed
<1>2. Sealed /\ [Next]_vars => Sealed'
  BY NextIsCore, NextIsKnown, NextIsIntact DEF Sealed
<1>3. Sealed => AdmittedWasHashed /\ AdmittedHoldsItsBytes
  <2> SUFFICES ASSUME Sealed, NEW r \in Requests, reqs[r].pc = "commit"
               PROVE  reqs[r].copied.hashed = reqs[r].meta /\ Whole(reqs[r].copied.data, reqs[r].meta)
    BY DEF AdmittedWasHashed, AdmittedHoldsItsBytes, At
  <2>1. PICK b : Known(b) /\ Intact(b)
    BY DEF Sealed
  <2>2. Marked(reqs[r])
    BY AtComplete DEF Sealed, Completes
  <2>3. reqs[r].meta = b
    BY <2>1, <2>2, KnownParts DEF Pure
  <2> QED
    BY <2>1, <2>3 DEF Intact, Sound, Holds
<1> QED
  BY <1>1, <1>2, <1>3, PTL DEF Spec

-----------------------------------------------------------------------------
(* One phone: the store follows memory.                                     *)

\* No behaviour has two phones that announce the id.
OnePhone == \A s \in Starts : \A u, v \in s.phones : u = v

\* No write was lost and no device revoked.
Calm == faults.met \cap {"write", "revoke"} = {}

From(receipt, d) == receipt # None => receipt.dev = d

\* The phone is paired with `d`'s key, and no other holds the recording.
PhoneOf(d) ==
  /\ revoked = {} /\ discards = {} /\ paired = Devices
  /\ \A u \in Uploads : phones[u] = "held" => u[1] = d

\* A request of that phone; it reads the ledger only when it read no receipt.
Sole(q, d) ==
  /\ q.op # "pair" /\ ~q.since
  /\ q.op \in Asks => q.dev = d
  /\ From(q.got, d)
  /\ q.pc \in {"ledger", "replace"} => q.got = None

\* Every receipt is of that phone.
OneDevice(d) ==
  /\ From(mem, d) /\ From(row, d) /\ From(safe.row, d)
  /\ \A i \in 1..Len(line) : line[i].kind = "receipt" /\ From(line[i].receipt, d)
  /\ \A r \in Requests : Sole(reqs[r], d)

\* The last write in line is what memory holds.
LineEndsInMemory == line # << >> => mem # None /\ line[Len(line)].receipt = mem

\* A request before memory has a receipt: it holds none but the store's.
Unread(q, b) ==
  \/ q.pc = "idle"
  \/ q.pc \in {"fetch", "decide", "ledger"} /\ q.got = None
  \/ q.pc = "replace" /\ q.got = None /\ (q.ok => ~Taken(b))
  \/ q.pc = "remember" /\ IF row = None THEN Says(q.got) ELSE q.got = Stored(row)

BeforeMemory(b) == mem = None => \A r \in Requests : Unread(reqs[r], b)

\* A `complete` that runs on after the admission hashes and admits nothing.
Ending(q) ==
  Marked(q) =>
    \/ q.pc \in {"verify", "missing", "open", "conflict", "admitted", "finish", "stays"}
    \/ q.pc = "verifying" /\ Says(q.got)
    \/ Saves(q, {"missing", "conflict", "finish", "stays"})

Admitting == \E r \in Requests : reqs[r].pc = "admitted"
Refusing == \E r \in Requests : reqs[r].pc = "refused"

\* Memory has the admission, or is about to.
AfterAdmission(b) ==
  Taken(b) =>
    /\ verified = None
    /\ mem = None \/ Says(mem) \/ Admitting
    /\ \A r \in Requests : Ending(reqs[r])

\* With no write in line, the row is memory's receipt, or the intake was
\* ahead of memory: it admitted the bytes or failed to.
StoreAgrees(b) ==
  line = << >> /\ mem # None =>
    IF row = None THEN Says(mem) \/ Admitting
                  ELSE row.chunks = mem.chunks /\ (Taken(b) \/ Stored(row) = mem \/ Refusing)

Settled(d, b) ==
  /\ PhoneOf(d) /\ OneDevice(d) /\ LineEndsInMemory
  /\ BeforeMemory(b) /\ AfterAdmission(b) /\ StoreAgrees(b)

\* Faults are not forgotten.
LEMMA FaultsStay ==
  ASSUME [Next]_vars
  PROVE  faults.met \subseteq faults'.met \/ faults' = faults
<1>0. ASSUME NEW kind, Fault(kind)
      PROVE  faults.met \subseteq faults'.met \/ faults' = faults
  BY <1>0 DEF Fault
<1>1. ASSUME NEW r \in Requests, Handler(r)
      PROVE  faults' = faults \/ Fault("intake")
  <2>1. ASSUME Fetch(r) \/ Remember(r) \/ Status(r) \/ Announce(r) \/ TakeOver(r) \/ ReadLedger(r)
               \/ Replace(r) \/ Opened(r) \/ Resume(r) \/ Reopened(r) \/ Resumed(r)
        PROVE  faults' = faults
    BY <2>1 DEF Fetch, Remember, Status, Announce, TakeOver, ReadLedger, Replace, Opened, Resume,
                Reopened, Resumed, outside
  <2>2. ASSUME Chunk(r) \/ WriteChunk(r) \/ AddChunk(r) \/ Verify(r) \/ SetVerifying(r) \/ Hash(r)
               \/ Hashed(r) \/ Damaged(r) \/ Conflict(r) \/ Promote(r) \/ Admitted(r)
               \/ Refused(r) \/ Stays(r) \/ Paired(r)
        PROVE  faults' = faults
    BY <2>2 DEF Chunk, WriteChunk, AddChunk, Verify, SetVerifying, Hash, Hashed, Damaged, Conflict,
                Promote, Admitted, Refused, Stays, Paired, outside
  <2>3. ASSUME Complete(r) \/ Missing(r) \/ Verifying(r) \/ Finish(r)
        PROVE  faults' = faults
    BY <2>3 DEF Complete, Missing, Verifying, Finish
  <2>4. ASSUME Intake(r) \/ Commit(r)
        PROVE  faults' = faults \/ Fault("intake")
    BY <2>4 DEF Intake, Commit, Commits, CommitFails
  <2> QED
    BY <1>1, <2>1, <2>2, <2>3, <2>4 DEF Handler
<1>2. ASSUME NEW r \in Requests, Phone(r)
      PROVE  faults' = faults \/ Fault("hang_up")
  BY <1>2 DEF Phone, Ask, Pair, HangUp, outside
<1>3. ASSUME Computer
      PROVE  faults' = faults \/ \E kind \in FaultKinds : Fault(kind)
  <2>1. {"write", "revoke", "crash"} \subseteq FaultKinds
    BY DEF FaultKinds
  <2>2. Written => faults' = faults
    BY DEF Written, outside
  <2>3. WriteFails => Fault("write")
    BY DEF WriteFails
  <2>4. ASSUME NEW d \in Devices, Revoke(d) \/ DiscardRevoked(d)
        PROVE  faults' = faults \/ Fault("revoke")
    BY <2>4 DEF Revoke, DiscardRevoked
  <2>5. ASSUME NEW c \in Contents, DeleteMeeting(c) \/ \E k \in Chunks : StrayWrite(c, k)
        PROVE  faults' = faults
    BY <2>5 DEF DeleteMeeting, StrayWrite, outside
  <2>6. ASSUME NEW abandoned \in BOOLEAN, Restart(abandoned)
        PROVE  Fault("crash")
    BY <2>6 DEF Restart
  <2> QED
    BY <1>3, <2>1, <2>2, <2>3, <2>4, <2>5, <2>6 DEF Computer
<1>4. UNCHANGED vars => faults' = faults
  BY DEF vars, outside
<1> QED
  BY <1>0, <1>1, <1>2, <1>3, <1>4 DEF Next

\* A fault that happens is remembered.
LEMMA FaultIsMet ==
  ASSUME Core, NEW kind, Fault(kind)
  PROVE  kind \in faults'.met
BY DEF Fault, Core, TypeOK

\* While nothing went wrong the phone stays paired, and alone.
LEMMA PhoneStays ==
  ASSUME Core, NEW b, Known(b), NEW d, PhoneOf(d), OneDevice(d), [Next]_vars, Calm'
  PROVE  Calm /\ PhoneOf(d)'
<1>1. Calm
  BY FaultsStay DEF Calm
<1>2. ASSUME NEW u \in Uploads, phones'[u] = "held"
      PROVE  u[1] = d
  <2> DEFINE holds == {v \in Uploads : phones[v] = "held"}
  <2>1. holds' \subseteq holds
    BY StepSeen DEF Custody!Next, Custody!vars, Custody!Admit, Custody!Drop, Custody!Delete
  <2>2. u \in holds
    BY <1>2, <2>1
  <2> QED
    BY <2>2 DEF PhoneOf
<1>3. revoked' = {} /\ discards' = {} /\ paired' = Devices
  <2> USE DEF memory, store, outside
  <2>0. revoked = {} /\ discards = {} /\ paired = Devices
    BY DEF PhoneOf
  <2>1. ASSUME NEW r \in Requests, Handler(r)
        PROVE  UNCHANGED <<revoked, discards, paired>>
    <3>1. ASSUME Fetch(r) \/ Remember(r) \/ Status(r) \/ Announce(r) \/ TakeOver(r) \/ ReadLedger(r)
                 \/ Replace(r) \/ Opened(r) \/ Resume(r) \/ Reopened(r) \/ Resumed(r)
          PROVE  UNCHANGED <<revoked, discards, paired>>
      BY <3>1 DEF Fetch, Remember, Status, Announce, TakeOver, ReadLedger, Replace, Opened, Resume,
                  Reopened, Resumed
    <3>2. ASSUME Chunk(r) \/ WriteChunk(r) \/ AddChunk(r) \/ Verify(r) \/ SetVerifying(r) \/ Hash(r)
                 \/ Hashed(r) \/ Damaged(r) \/ Conflict(r) \/ Promote(r) \/ Admitted(r)
                 \/ Refused(r) \/ Stays(r)
          PROVE  UNCHANGED <<revoked, discards, paired>>
      BY <3>2 DEF Chunk, WriteChunk, AddChunk, Verify, SetVerifying, Hash, Hashed, Damaged,
                  Conflict, Promote, Admitted, Refused, Stays
    <3>3. ASSUME Complete(r) \/ Missing(r) \/ Verifying(r) \/ Finish(r) \/ Intake(r) \/ Commit(r)
          PROVE  UNCHANGED <<revoked, discards, paired>>
      BY <3>3 DEF Complete, Missing, Verifying, Finish, Intake, Commit
    <3>4. ~Paired(r)
      BY RouteOf DEF Paired, At, Core, AllFine, OneDevice, Sole
    <3> QED
      BY <2>1, <3>1, <3>2, <3>3, <3>4 DEF Handler
  <2>2. ASSUME NEW r \in Requests, Phone(r)
        PROVE  UNCHANGED <<revoked, discards, paired>>
    BY <2>2 DEF Phone, Ask, Pair, HangUp
  <2>3. ASSUME Written
        PROVE  UNCHANGED <<revoked, discards, paired>>
    <3>1. line # << >> /\ Head(line) = line[1] /\ 1 \in 1..Len(line)
      BY <2>3 DEF Written, Core, TypeOK
    <3>2. Head(line).kind = "receipt"
      BY <3>1 DEF OneDevice
    <3> QED
      BY <2>3, <3>2 DEF Written
  <2>4. ~WriteFails
    BY FaultIsMet DEF WriteFails, Calm
  <2>5. ASSUME NEW e \in Devices
        PROVE  ~Revoke(e) /\ ~DiscardRevoked(e)
    BY <2>0, FaultIsMet DEF Revoke, DiscardRevoked, Calm
  <2>6. ASSUME NEW c \in Contents, DeleteMeeting(c) \/ \E k \in Chunks : StrayWrite(c, k)
        PROVE  UNCHANGED <<revoked, discards, paired>>
    BY <2>6 DEF DeleteMeeting, StrayWrite
  <2>7. ASSUME NEW abandoned \in BOOLEAN, Restart(abandoned)
        PROVE  revoked' = {} /\ discards' = {} /\ paired' = paired
    BY <2>7 DEF Restart
  <2>8. CASE UNCHANGED vars
    BY <2>0, <2>8 DEF vars
  <2> QED
    BY <2>0, <2>1, <2>2, <2>3, <2>4, <2>5, <2>6, <2>7, <2>8 DEF Next, Computer
<1> QED
  BY <1>1, <1>2, <1>3 DEF PhoneOf

-----------------------------------------------------------------------------
(* Steps of one request, under one phone.                                   *)

\* A request that went no step.
Twin(p, q) ==
  /\ p.op = q.op /\ p.dev = q.dev /\ p.pc = q.pc /\ p.then = q.then
  /\ p.got = q.got /\ p.ok = q.ok /\ p.since = q.since

Twins(r) == \A s \in Requests : s # r => Twin(reqs'[s], reqs[s])

\* A request that went no step keeps what is known of it.
LEMMA TwinsKeep ==
  ASSUME NEW p, NEW q, Twin(p, q), NEW d, NEW b
  PROVE  /\ Sole(q, d) => Sole(p, d)
         /\ Unread(q, b) => Unread(p, b)
         /\ Ending(q) => Ending(p)
<1>1. Sole(q, d) => Sole(p, d)
  BY DEF Twin, Sole
<1>2. Unread(q, b) => Unread(p, b)
  BY DEF Twin, Unread
<1>3. Ending(q) => Ending(p)
  BY DEF Twin, Ending, Marked, Saves
<1> QED
  BY <1>1, <1>2, <1>3

\* A request with nothing to do is of any phone.
LEMMA IdleIsSole ==
  ASSUME NEW d, NEW b
  PROVE  Sole(Idle, d) /\ Unread(Idle, b) /\ Ending(Idle)
BY DEF Idle, Sole, From, Asks, Unread, Ending, Marked

\* What one phone's step may do to the line: nothing, but for who waits.
SameLine ==
  /\ Len(line') = Len(line)
  /\ \A i \in 1..Len(line) : line'[i].kind = line[i].kind /\ line'[i].receipt = line[i].receipt

\* A save of what memory now holds.
SavesMemory(d) ==
  /\ mem' # None /\ From(mem', d)
  /\ \E w \in Writes : w.kind = "receipt" /\ w.receipt = mem' /\ line' = Append(line, w)

\* The line in the next state.
LEMMA LineGrows ==
  ASSUME Core, NEW d, OneDevice(d), SavesMemory(d)
  PROVE  /\ Len(line') = Len(line) + 1 /\ Len(line) \in Nat
         /\ line'[Len(line')].receipt = mem'
         /\ \A i \in 1..Len(line') : line'[i].kind = "receipt" /\ From(line'[i].receipt, d)
<1>1. PICK w \in Writes : w.kind = "receipt" /\ w.receipt = mem' /\ line' = Append(line, w)
  BY DEF SavesMemory
<1>2. /\ Len(line') = Len(line) + 1 /\ Len(line) \in Nat /\ line'[Len(line) + 1] = w
      /\ \A i \in 1..Len(line) : line'[i] = line[i]
  BY <1>1 DEF Core, TypeOK
<1>3. ASSUME NEW i \in 1..Len(line')
      PROVE  line'[i].kind = "receipt" /\ From(line'[i].receipt, d)
  <2>1. i \in 1..Len(line) \/ i = Len(line) + 1
    BY <1>2
  <2> QED
    BY <1>1, <1>2, <2>1 DEF OneDevice, SavesMemory
<1> QED
  BY <1>1, <1>2, <1>3

\* The receipts stay the phone's.
LEMMA OneDeviceStays ==
  ASSUME Core, NEW d, OneDevice(d), NEW r \in Requests, Twins(r), Sole(reqs'[r], d),
         From(mem', d), SameLine \/ SavesMemory(d),
         From(row', d), From(safe'.row, d)
  PROVE  OneDevice(d)'
<1>1. \A s \in Requests : Sole(reqs'[s], d)
  BY TwinsKeep DEF Twins, OneDevice
<1>2. \A i \in 1..Len(line') : line'[i].kind = "receipt" /\ From(line'[i].receipt, d)
  <2>1. CASE SameLine
    BY <2>1 DEF SameLine, OneDevice
  <2>2. CASE SavesMemory(d)
    BY <2>2, LineGrows
  <2> QED
    BY <2>1, <2>2
<1> QED
  BY <1>1, <1>2 DEF OneDevice

\* A step that leaves memory, the line and the store: no request ends its
\* admission by it, unless memory has the admission.
Rests(r, b) ==
  /\ mem' = mem /\ SameLine
  /\ mem = None => Unread(reqs'[r], b)
  /\ reqs[r].pc = "admitted" => Says(mem)
  /\ reqs[r].pc = "refused" => Taken(b)

\* A step that changes memory and saves it: complete, once the bytes are
\* taken, but for a request that goes ahead of their admission.
Records(r, d, b) ==
  /\ SavesMemory(d)
  /\ Taken(b) => Says(mem') \/ (mem # None /\ ~Says(mem) /\ reqs[r].pc # "admitted")

\* Two states in a row with one phone and its one recording.
Scene(d, b) == Core /\ Core' /\ Known(b) /\ Settled(d, b) /\ PhoneOf(d)'

\* A request that stands where it stood.
LEMMA StandsStill ==
  ASSUME NEW r \in Requests, Twins(r)
  PROVE  /\ Admitting /\ reqs[r].pc # "admitted" => Admitting'
         /\ Refusing /\ reqs[r].pc # "refused" => Refusing'
BY DEF Twins, Twin, Admitting, Refusing

\* Either keeps the store in step with memory.
LEMMA StepSettles ==
  ASSUME NEW d, NEW b, Scene(d, b), NEW r \in Requests,
         Twins(r), Sole(reqs'[r], d), UNCHANGED store,
         Rests(r, b) \/ Records(r, d, b),
         Taken(b) => verified' \in {verified, None} /\ Ending(reqs'[r])
  PROVE  Settled(d, b)'
<1> USE DEF Scene
<1>1. row' = row /\ ledger' = ledger /\ safe' = safe /\ (Taken(b)' <=> Taken(b))
  BY DEF store, Taken
<1>2. OneDevice(d)'
  <2>1. From(mem', d) /\ (SameLine \/ SavesMemory(d))
    BY DEF Rests, Records, SavesMemory, Settled, OneDevice
  <2>2. From(row', d) /\ From(safe'.row, d)
    BY <1>1 DEF Settled, OneDevice
  <2> QED
    BY <2>1, <2>2, OneDeviceStays DEF Settled
<1>3. Taken(b) => verified' = None /\ \A s \in Requests : Ending(reqs'[s])
  BY TwinsKeep DEF Settled, AfterAdmission, Twins
<1>4. CASE Rests(r, b)
  <2>1. /\ mem' = mem /\ Len(line') = Len(line) /\ (line' = << >> <=> line = << >>)
        /\ Len(line) \in Nat /\ (line # << >> => Len(line) \in 1..Len(line))
    <3>1. mem' = mem /\ SameLine
      BY <1>4 DEF Rests
    <3>2. line \in Seq(Writes) /\ (line = << >> <=> Len(line) = 0)
      BY DEF Core, TypeOK
    <3>3. line' = << >> <=> Len(line') = 0
      BY DEF Core, TypeOK
    <3> QED
      BY <3>1, <3>2, <3>3 DEF SameLine, Core, TypeOK
  <2>2. LineEndsInMemory'
    BY <1>4, <2>1 DEF Settled, LineEndsInMemory, Rests, SameLine
  <2>3. BeforeMemory(b)'
    <3> SUFFICES ASSUME mem = None, NEW s \in Requests
                 PROVE  Unread(reqs[s], b)'
      BY <2>1 DEF BeforeMemory
    <3>1. Unread(reqs'[s], b)
      BY <1>4, TwinsKeep DEF Settled, BeforeMemory, Twins, Rests
    <3>2. Stored(row)' = Stored(row)
      BY <1>1 DEF Stored
    <3> QED
      BY <1>1, <3>1, <3>2 DEF Unread
  <2>4. AfterAdmission(b)'
    BY <1>1, <1>3, <1>4, <2>1, StandsStill DEF Settled, AfterAdmission, Rests
  <2>5. StoreAgrees(b)'
    <3> SUFFICES ASSUME line = << >>, mem # None
                 PROVE  IF row = None THEN Says(mem) \/ Admitting'
                        ELSE row.chunks = mem.chunks /\ (Taken(b) \/ Stored(row) = mem \/ Refusing')
      BY <1>1, <2>1 DEF StoreAgrees, Stored
    <3> QED
      BY <1>4, StandsStill DEF Settled, StoreAgrees, Rests
  <2> QED
    BY <1>2, <2>2, <2>3, <2>4, <2>5 DEF Settled
<1>5. CASE Records(r, d, b)
  <2>1. mem' # None /\ line' # << >> /\ line'[Len(line')].receipt = mem'
    BY <1>5, LineGrows DEF Records, SavesMemory, Settled
  <2>2. AfterAdmission(b)'
    BY <1>1, <1>3, <1>5, StandsStill DEF Settled, AfterAdmission, Records
  <2> QED
    BY <1>2, <2>1, <2>2 DEF Settled, LineEndsInMemory, BeforeMemory, StoreAgrees
<1> QED
  BY <1>4, <1>5

\* Closing files moves nobody.
LEMMA ClosedTwin ==
  ASSUME NEW rs, NEW s \in Requests, rs[s] \in Request
  PROVE  Twin(Closed(rs)[s], rs[s])
<1>1. CASE rs[s].file = "open"
  <2> DEFINE x == [rs[s] EXCEPT !.file = "replaced"]
  <2>1. Closed(rs)[s] = x
    BY <1>1 DEF Closed
  <2>2. /\ x.op = rs[s].op /\ x.dev = rs[s].dev /\ x.pc = rs[s].pc /\ x.then = rs[s].then
        /\ x.got = rs[s].got /\ x.ok = rs[s].ok /\ x.since = rs[s].since
    BY DEF Request
  <2> HIDE DEF x
  <2> QED
    BY <2>1, <2>2 DEF Twin
<1>2. CASE rs[s].file # "open"
  BY <1>2 DEF Closed, Twin
<1> QED
  BY <1>1, <1>2

\* One request changes.
LEMMA EditTwins ==
  ASSUME Core, NEW r \in Requests, NEW x, reqs' = [reqs EXCEPT ![r] = x]
  PROVE  Twins(r) /\ reqs'[r] = x
<1>1. reqs'[r] = x /\ \A s \in Requests : s # r => reqs'[s] = reqs[s]
  BY DEF Core, TypeOK
<1> QED
  BY <1>1 DEF Twins, Twin

\* A request ends.
Ends(r) == Twins(r) /\ reqs'[r] = Idle

\* ... with or without its files.
LEMMA OverEnds ==
  ASSUME Core, NEW r \in Requests,
         \/ reqs' \in {Over(reqs, r), Over(Closed(reqs), r)}
         \/ Answer(r)
         \/ \E e : DiscardOwn(e, Over(reqs, r))
  PROVE  Ends(r)
<1>1. \A s \in Requests : Twin(reqs[s], reqs[s]) /\ Twin(Closed(reqs)[s], reqs[s])
  BY ClosedTwin DEF Core, TypeOK, Twin
<1>2. CASE reqs' = Over(reqs, r)
  <2>1. reqs'[r] = Idle /\ \A s \in Requests : s # r => reqs'[s] = reqs[s]
    BY <1>2 DEF Over, Core, TypeOK
  <2> QED
    BY <1>1, <2>1 DEF Ends, Twins
<1>3. CASE reqs' = Over(Closed(reqs), r)
  <2>1. reqs'[r] = Idle /\ \A s \in Requests : s # r => reqs'[s] = Closed(reqs)[s]
    BY <1>3 DEF Over, Closed
  <2> QED
    BY <1>1, <2>1 DEF Ends, Twins
<1>4. CASE reqs' = Closed(Over(reqs, r))
  <2> DEFINE rs == Over(reqs, r)
  <2>1. rs[r] = Idle /\ \A s \in Requests : s # r => rs[s] = reqs[s]
    BY DEF Over, Core, TypeOK
  <2>2. reqs'[r] = Idle
    BY <1>4, <2>1 DEF Closed, Idle
  <2>3. \A s \in Requests : s # r => reqs'[s] = Closed(reqs)[s]
    BY <1>4, <2>1 DEF Closed
  <2> QED
    BY <1>1, <2>2, <2>3 DEF Ends, Twins
<1> QED
  BY <1>2, <1>3, <1>4 DEF Answer, DiscardOwn

\* An answer settles nothing and disturbs nothing.
LEMMA EndSettles ==
  ASSUME NEW d, NEW b, Scene(d, b), NEW r \in Requests, Ends(r),
         UNCHANGED <<mem, line, store>>,
         verified' \in {verified, None}, reqs[r].pc \notin {"admitted", "refused"}
  PROVE  Settled(d, b)'
<1>1. Rests(r, b)
  BY IdleIsSole DEF Ends, Rests, SameLine
<1> QED
  BY <1>1, IdleIsSole, StepSettles DEF Ends

\* The receipts, requests and uploads of one phone are of one upload.
LEMMA OneUpload ==
  ASSUME Core, NEW b, Known(b), NEW d, Settled(d, b), NEW r \in Requests
  PROVE  /\ reqs[r] \in Request /\ Fine(reqs[r]) /\ Sole(reqs[r], d)
         /\ reqs[r].op \in Asks => /\ reqs[r].dev = d /\ reqs[r].content = b
                                   /\ d \in Devices /\ b \in Contents
         /\ reqs[r].got # None => /\ reqs[r].got \in Receipts
                                  /\ reqs[r].got.dev = d /\ reqs[r].got.content = b
         /\ mem # None => mem \in Receipts /\ mem.dev = d /\ mem.content = b
         /\ row # None => row \in Receipts /\ row.dev = d /\ row.content = b
<1>1. reqs[r] \in Request /\ Fine(reqs[r]) /\ Sole(reqs[r], d) /\ Pure(reqs[r], b)
  BY ClaimsAreSo DEF Core, AllFine, Fine, Settled, OneDevice
<1>2. reqs[r].op \in Asks => /\ reqs[r].dev = d /\ reqs[r].content = b
                             /\ d \in Devices /\ b \in Contents
  BY <1>1, AskParts DEF Sole, Pure
<1>3. reqs[r].got # None => /\ reqs[r].got \in Receipts
                            /\ reqs[r].got.dev = d /\ reqs[r].got.content = b
  BY <1>1 DEF Sole, Pure, From, Of, Request
<1>4. /\ mem # None => mem \in Receipts /\ mem.dev = d /\ mem.content = b
      /\ row # None => row \in Receipts /\ row.dev = d /\ row.content = b
  BY DEF Core, TypeOK, Known, Only, Of, Settled, OneDevice, From
<1> QED
  BY <1>1, <1>2, <1>3, <1>4

\* A request that decided had a receipt to decide on, and memory has it.
LEMMA HasMemory ==
  ASSUME Core, NEW b, NEW d, Settled(d, b), NEW r \in Requests,
         \/ reqs[r].pc \notin {"idle", "fetch", "decide", "ledger", "replace", "remember"}
         \/ reqs[r].pc = "decide" /\ reqs[r].got # None
  PROVE  mem # None
BY DEF Settled, BeforeMemory, Unread

\* Nobody hashes or admits bytes that are taken.
LEMMA NotTaken ==
  ASSUME Core, NEW b, NEW d, Settled(d, b), NEW r \in Requests,
         reqs[r].pc \in {"hash", "hashed", "damaged", "promote", "intake", "commit", "refused"}
  PROVE  ~Taken(b)
<1>1. Marked(reqs[r]) /\ reqs[r].pc # "saving"
  BY AtComplete DEF Completes
<1> QED
  BY <1>1 DEF Settled, AfterAdmission, Ending, Saves

\* While the admission is on its way to memory no other `complete` runs.
LEMMA MarkedSays ==
  ASSUME Core, NEW b, NEW d, Settled(d, b), NEW r \in Requests,
         Marked(reqs[r]), reqs[r].pc # "admitted", Taken(b)
  PROVE  Says(mem)
<1>1. mem # None
  <2>1. reqs[r].op = "complete" /\ Fine(reqs[r])
    BY DEF Marked, Core, AllFine
  <2>2. reqs[r].pc \notin {"idle", "fetch", "decide", "ledger", "replace", "remember"}
    BY <2>1 DEF Marked, Fine, InRoute, Completes, Saves, Reads
  <2> QED
    BY <2>2, HasMemory
<1>2. ~Admitting
  <2> SUFFICES ASSUME NEW s \in Requests, reqs[s].pc = "admitted"
               PROVE  FALSE
    BY DEF Admitting
  <2>1. Marked(reqs[s])
    BY AtComplete DEF Completes
  <2>2. completing = s /\ completing = r
    BY <2>1, MarkIsMarked DEF Core
  <2> QED
    BY <2>2
<1> QED
  BY <1>1, <1>2 DEF Settled, AfterAdmission

\* One request goes on, and memory, the line and the store rest.
LEMMA EditSettles ==
  ASSUME NEW d, NEW b, Scene(d, b), NEW r \in Requests,
         NEW x, reqs' = [reqs EXCEPT ![r] = x], Sole(x, d),
         UNCHANGED <<mem, line, store>>, verified' \in {verified, None} \/ ~Taken(b),
         mem = None => Unread(x, b),
         Taken(b) => Ending(x),
         reqs[r].pc \notin {"admitted", "refused"} \/ Says(mem)
  PROVE  Settled(d, b)'
<1>1. Twins(r) /\ reqs'[r] = x
  BY EditTwins DEF Scene
<1>2. Says(mem) => Taken(b)
  BY ClaimsAreSo DEF Scene
<1>3. Rests(r, b)
  BY <1>1, <1>2 DEF Rests, SameLine
<1> QED
  BY <1>1, <1>3, StepSettles

\* ... to another step, with what it has.
LEMMA GoesSettles ==
  ASSUME NEW d, NEW b, Scene(d, b), NEW r \in Requests, NEW pc, Goes(r, pc),
         UNCHANGED <<mem, line, store>>, verified' \in {verified, None} \/ ~Taken(b),
         pc \notin {"ledger", "replace"},
         mem # None,
         Taken(b) /\ reqs[r].op = "complete" =>
           pc \in {"verify", "missing", "open", "conflict", "admitted", "finish", "stays"},
         reqs[r].pc \notin {"admitted", "refused"}
  PROVE  Settled(d, b)'
<1> DEFINE x == [reqs[r] EXCEPT !.pc = pc]
<1>1. reqs[r] \in Request /\ Sole(reqs[r], d)
  BY OneUpload DEF Scene
<1>2. reqs' = [reqs EXCEPT ![r] = x]
  BY DEF Goes
<1>3. /\ x.op = reqs[r].op /\ x.dev = reqs[r].dev /\ x.pc = pc /\ x.got = reqs[r].got
      /\ x.since = reqs[r].since
  BY <1>1 DEF Request
<1> HIDE DEF x
<1>4. Sole(x, d) /\ (Taken(b) => Ending(x))
  BY <1>1, <1>3 DEF Sole, Ending, Marked
<1> QED
  BY <1>2, <1>4, EditSettles

\* A change of the receipt, when no device is revoked.
LEMMA ChangeRecords ==
  ASSUME NEW d, NEW b, Scene(d, b), NEW r \in Requests,
         NEW receipt \in Receipts, receipt.dev = d, NEW then, NEW rs \in {reqs, Closed(reqs)},
         Change(r, receipt, then, rs)
  PROVE  /\ Twins(r) /\ SavesMemory(d) /\ mem' = receipt
         /\ reqs'[r].op = reqs[r].op /\ Sole(reqs'[r], d)
         /\ reqs'[r].pc = "saving" /\ reqs'[r].then = then
<1> DEFINE x == [rs[r] EXCEPT !.pc = "saving", !.then = then, !.got = receipt]
           w == [kind |-> "receipt", dev |-> receipt.dev, receipt |-> receipt, for |-> r]
<1>1. \A s \in Requests : Twin(rs[s], reqs[s]) /\ Like(rs[s], reqs[s])
  BY ClosedTwin, ClosedIsLike, ReqsAreLike DEF Scene, Core, TypeOK, Twin
<1>2. DOMAIN rs = Requests
  BY DEF Scene, Core, TypeOK, Closed
<1>3. reqs' = [rs EXCEPT ![r] = x]
  BY DEF Change
<1>4. rs[r] \in Request
  BY <1>1 DEF Like
<1>5. /\ x.op = rs[r].op /\ x.dev = rs[r].dev /\ x.pc = "saving" /\ x.then = then
      /\ x.got = receipt /\ x.since = rs[r].since
  BY <1>4 DEF Request
<1>6. mem' = receipt /\ mem' # None
  BY NoneIsNothing DEF Change, Remembered, Scene, Settled, PhoneOf
<1>7. w \in Writes
  BY DEF Writes, Receipts
<1>8. line' = Append(line, w)
  BY DEF Change
<1>9. SavesMemory(d)
  BY <1>6, <1>7, <1>8 DEF SavesMemory, From
<1> HIDE DEF x
<1>10. reqs'[r] = x /\ \A s \in Requests : s # r => reqs'[s] = rs[s]
  BY <1>2, <1>3
<1>11. Twins(r)
  BY <1>1, <1>10 DEF Twins
<1>12. Sole(reqs[r], d)
  BY DEF Scene, Settled, OneDevice
<1> QED
  BY <1>1, <1>5, <1>6, <1>9, <1>10, <1>11, <1>12 DEF Twin, Sole, From

\* An update of the receipt, by a request that memory is ahead of or agrees
\* with.
LEMMA UpdateSettles ==
  ASSUME NEW d, NEW b, Scene(d, b), NEW r \in Requests, reqs[r].got # None, mem # None,
         NEW state \in States \cup {"same"}, NEW emptied \in BOOLEAN, NEW then,
         Update(r, state, emptied, then),
         UNCHANGED store, verified' \in {verified, None} \/ ~Taken(b),
         then \notin {"ledger", "replace"},
         reqs[r].op = "complete" =>
           Marked(reqs[r]) /\ then \in {"missing", "verifying", "conflict", "finish", "stays"},
         reqs[r].pc = "admitted" => state = "complete" /\ then = "finish"
  PROVE  Settled(d, b)'
<1> DEFINE base == IF mem = None THEN reqs[r].got ELSE mem
           receipt == [base EXCEPT !.state = IF state = "same" THEN @ ELSE state,
                                   !.chunks = IF emptied THEN {} ELSE @]
<1>1. /\ reqs[r] \in Request /\ Sole(reqs[r], d) /\ Fine(reqs[r])
      /\ SameUpload(mem, reqs[r].got) /\ mem \in Receipts /\ mem.dev = d
  BY OneUpload DEF Scene, SameUpload
<1>2. CASE /\ mem.state = "complete"
           /\ reqs' = [reqs EXCEPT ![r].pc = then, ![r].ok = TRUE, ![r].got = mem]
           /\ UNCHANGED <<mem, line>>
  <2> DEFINE x == [reqs[r] EXCEPT !.pc = then, !.ok = TRUE, !.got = mem]
  <2>1. reqs' = [reqs EXCEPT ![r] = x]
    BY <1>2 DEF Scene, Core, TypeOK
  <2>2. /\ x.op = reqs[r].op /\ x.dev = reqs[r].dev /\ x.pc = then /\ x.got = mem
        /\ x.since = reqs[r].since
    BY <1>1 DEF Request
  <2> HIDE DEF x
  <2>3. Sole(x, d)
    BY <1>1, <2>2 DEF Sole, From
  <2>4. Says(mem)
    BY <1>2 DEF Says
  <2>5. Ending(x)
    BY <2>2, <2>4 DEF Ending, Marked
  <2> QED
    BY <1>2, <2>1, <2>3, <2>4, <2>5, EditSettles
<1>3. CASE mem.state # "complete" /\ Change(r, receipt, then, reqs)
  <2>1. receipt \in Receipts /\ receipt.dev = d
        /\ (state = "complete" => receipt.state = "complete")
    <3>1. receipt \in Receipts
      BY <1>1, UpdatedReceipt
    <3>2. receipt.dev = d /\ (state = "complete" => receipt.state = "complete")
      BY <1>1 DEF Receipts
    <3> QED
      BY <3>1, <3>2
  <2> HIDE DEF receipt
  <2>2. /\ Twins(r) /\ SavesMemory(d) /\ mem' = receipt
        /\ reqs'[r].op = reqs[r].op /\ Sole(reqs'[r], d)
        /\ reqs'[r].pc = "saving" /\ reqs'[r].then = then
    BY <1>3, <2>1, ChangeRecords
  <2>3. Records(r, d, b)
    BY <1>3, <2>1, <2>2, NoneIsNothing DEF Records, Says
  <2>4. Taken(b) => Ending(reqs'[r])
    <3>1. CASE reqs[r].pc = "admitted"
      BY <2>2, <3>1 DEF Ending, Saves
    <3>2. CASE reqs[r].pc # "admitted"
      <4>1. Taken(b) => ~Marked(reqs[r])
        BY <1>3, <3>2, MarkedSays DEF Scene, Says
      <4> QED
        BY <2>2, <4>1 DEF Ending, Marked
    <3> QED
      BY <3>1, <3>2
  <2> QED
    BY <2>2, <2>3, <2>4, StepSettles
<1> QED
  BY <1>1, <1>2, <1>3 DEF Update

-----------------------------------------------------------------------------
(* What each request does to the one phone's receipt.                       *)

\* The phone asks with memory's receipt, or goes to the store for it.
LEMMA AskSettles ==
  ASSUME NEW d, NEW b, Scene(d, b), NEW r \in Requests, NEW op \in Asks,
         NEW u \in Uploads, NEW c, Ask(r, op, u, c)
  PROVE  Settled(d, b)'
<1> DEFINE x == [Idle EXCEPT !.op = op, !.dev = u[1], !.content = u[2], !.chunk = c, !.got = mem,
                             !.pc = IF mem = None THEN "fetch" ELSE "decide"]
<1>1. reqs' = [reqs EXCEPT ![r] = x] /\ phones[u] = "held" /\ reqs[r].pc = "idle"
  BY DEF Ask, At
<1>2. /\ x.op = op /\ x.dev = u[1] /\ x.got = mem /\ x.since = FALSE
      /\ x.pc = IF mem = None THEN "fetch" ELSE "decide"
  BY DEF Idle
<1> HIDE DEF x
<1>3. Sole(x, d)
  BY <1>1, <1>2 DEF Sole, Scene, Settled, PhoneOf, OneDevice, Asks
<1>4. ~Marked(x)
  BY <1>2 DEF Marked, Reads
<1>5. UNCHANGED <<mem, line, store, verified>>
  BY DEF Ask, memory, files
<1> QED
  BY <1>1, <1>2, <1>3, <1>4, <1>5, EditSettles DEF Ending, Unread

\* The store's receipt is read.
LEMMA FetchSettles ==
  ASSUME NEW d, NEW b, Scene(d, b), NEW r \in Requests, Fetch(r)
  PROVE  Settled(d, b)'
<1> DEFINE x == [reqs[r] EXCEPT !.got = Stored(row), !.pc = IF row = None THEN "decide" ELSE "remember"]
<1>1. reqs[r].pc = "fetch" /\ reqs' = [reqs EXCEPT ![r] = x]
  BY DEF Fetch, At
<1>2. /\ reqs[r] \in Request /\ Sole(reqs[r], d)
      /\ row # None => row \in Receipts /\ row.dev = d
  BY OneUpload DEF Scene
<1>3. /\ x.op = reqs[r].op /\ x.dev = reqs[r].dev /\ x.got = Stored(row) /\ x.since = reqs[r].since
      /\ x.pc = IF row = None THEN "decide" ELSE "remember"
  BY <1>2 DEF Request
<1> HIDE DEF x
<1>4. From(Stored(row), d)
  BY <1>2 DEF Stored, From, Receipts
<1>5. Sole(x, d)
  BY <1>2, <1>3, <1>4 DEF Sole
<1>6. Unread(x, b) /\ ~Marked(x)
  BY <1>3 DEF Unread, Stored, Marked, Reads
<1>7. UNCHANGED <<mem, line, store, verified>>
  BY DEF Fetch, memory, files
<1> QED
  BY <1>1, <1>5, <1>6, <1>7, EditSettles DEF Ending

\* A row reads as a receipt with its chunks, complete once the bytes are taken.
LEMMA StoredReads ==
  ASSUME NEW b, NEW x \in Receipts, x.content = b
  PROVE  /\ Stored(x) \in Receipts /\ Stored(x) # None
         /\ Stored(x).chunks = x.chunks /\ Stored(x).dev = x.dev
         /\ Taken(b) => Stored(x).state = "complete"
<1>1. x # None /\ b # None
  BY NoneIsNothing DEF Receipts
<1>2. CASE ledger[b] # "none"
  <2>1. Stored(x) = [x EXCEPT !.state = "complete"]
    BY <1>1, <1>2 DEF Stored
  <2> QED
    BY <2>1, NoneIsNothing DEF Receipts, States
<1>3. CASE ledger[b] = "none"
  <2>1. Stored(x) = IF x.state = "complete" THEN [x EXCEPT !.state = "failed"] ELSE x
    BY <1>1, <1>3 DEF Stored
  <2>2. Stored(x) \in {[x EXCEPT !.state = "failed"], x}
    BY <2>1
  <2>3. Stored(x) \in Receipts /\ Stored(x).chunks = x.chunks /\ Stored(x).dev = x.dev
    BY <2>2 DEF Receipts, States
  <2> QED
    BY <1>3, <2>3, NoneIsNothing DEF Taken
<1> QED
  BY <1>2, <1>3

\* Memory takes the store's receipt; no write is in line then.
LEMMA RememberSettles ==
  ASSUME NEW d, NEW b, Scene(d, b), NEW r \in Requests, Remember(r)
  PROVE  Settled(d, b)'
<1> DEFINE x == [reqs[r] EXCEPT !.got = IF mem = None THEN @ ELSE mem, !.pc = "decide"]
<1>1. reqs[r].pc = "remember" /\ reqs' = [reqs EXCEPT ![r] = x]
  BY DEF Remember, At
<1>2. /\ reqs[r] \in Request /\ Sole(reqs[r], d)
      /\ reqs[r].got # None => reqs[r].got \in Receipts /\ reqs[r].got.dev = d
      /\ mem # None => mem \in Receipts /\ mem.dev = d
      /\ row # None => row \in Receipts /\ row.content = b
  BY OneUpload DEF Scene
<1>3. /\ x.op = reqs[r].op /\ x.dev = reqs[r].dev /\ x.since = reqs[r].since
      /\ x.got = (IF mem = None THEN reqs[r].got ELSE mem) /\ x.pc = "decide"
  BY <1>2 DEF Request
<1> HIDE DEF x
<1>4. Sole(x, d)
  BY <1>2, <1>3 DEF Sole, From
<1>5. ~Marked(x)
  BY <1>3 DEF Marked, Reads
<1>6. UNCHANGED <<line, store, verified>>
  BY DEF Remember, files
<1>7. CASE mem # None
  BY <1>1, <1>4, <1>5, <1>6, <1>7, EditSettles DEF Ending, Remember
<1>8. CASE mem = None
  <2>1. mem' = reqs[r].got
    BY <1>8 DEF Remember, Remembered, Scene, Settled, PhoneOf
  <2>2. line = << >>
    BY <1>8 DEF Scene, Settled, LineEndsInMemory
  <2>3. IF row = None THEN Says(reqs[r].got) ELSE reqs[r].got = Stored(row)
    BY <1>1, <1>8 DEF Scene, Settled, BeforeMemory, Unread
  <2>4. row # None => /\ Stored(row).chunks = row.chunks /\ Stored(row) # None
                      /\ (Taken(b) => Stored(row).state = "complete")
    <3>1. row # None => row \in Receipts /\ row.content = b /\ row # None
      BY <1>2
    <3> QED
      BY <3>1, StoredReads
  <2>5. mem' # None /\ From(mem', d)
    BY <1>2, <2>1, <2>3, <2>4 DEF Says, From
  <2>6. row' = row /\ line' = line /\ safe' = safe /\ ledger' = ledger /\ verified' = verified
    BY <1>6 DEF store
  <2>7. Twins(r) /\ reqs'[r] = x
    BY <1>1, EditTwins DEF Scene
  <2>8. OneDevice(d)'
    BY <1>4, <2>5, <2>6, <2>7, OneDeviceStays DEF SameLine, Scene, Settled, OneDevice
  <2>9. LineEndsInMemory' /\ BeforeMemory(b)'
    BY <2>2, <2>5, <2>6 DEF LineEndsInMemory, BeforeMemory
  <2>10. AfterAdmission(b)'
    <3> SUFFICES ASSUME Taken(b)
                 PROVE  verified = None /\ Says(mem') /\ \A s \in Requests : Ending(reqs'[s])
      BY <2>6 DEF AfterAdmission, Taken
    <3>1. Says(mem')
      BY <2>1, <2>3, <2>4 DEF Says
    <3>2. verified = None /\ \A s \in Requests : Ending(reqs[s])
      BY DEF Scene, Settled, AfterAdmission
    <3>3. \A s \in Requests : Ending(reqs'[s])
      BY <1>5, <2>7, <3>2, TwinsKeep DEF Twins, Ending
    <3> QED
      BY <3>1, <3>2, <3>3
  <2>11. StoreAgrees(b)'
    <3>1. Stored(row)' = Stored(row)
      BY <2>6 DEF Stored
    <3> QED
      BY <2>1, <2>3, <2>4, <2>6, <3>1 DEF StoreAgrees
  <2> QED
    BY <2>8, <2>9, <2>10, <2>11 DEF Settled, Scene
<1> QED
  BY <1>7, <1>8

\* Steps that end a request and leave memory and the store.
LEMMA EndsSettle ==
  ASSUME NEW d, NEW b, Scene(d, b), NEW r \in Requests,
         \/ Status(r) \/ Opened(r) \/ Resumed(r) \/ Missing(r) \/ Conflict(r) \/ Finish(r)
         \/ Stays(r)
  PROVE  Settled(d, b)'
<1>1. Ends(r)
  <2>1. Core
    BY DEF Scene
  <2>2. \/ Answer(r) \/ reqs' \in {Over(reqs, r), Over(Closed(reqs), r)}
        \/ \E e : DiscardOwn(e, Over(reqs, r))
    BY DEF Status, Opened, Resumed, Missing, Conflict, Finish, Stays
  <2> QED
    BY <2>1, <2>2, OverEnds
<1>2. UNCHANGED <<mem, line, store>>
  BY DEF Status, Opened, Resumed, Missing, Conflict, Finish, Stays, memory
<1>3. verified' \in {verified, None}
  BY DEF Status, Opened, Resumed, Missing, Conflict, Finish, Stays, files, DiscardOwn, NoFiles
<1>4. reqs[r].pc \notin {"admitted", "refused"}
  BY DEF Status, Opened, Resumed, Missing, Conflict, Finish, Stays, At, Decides
<1> QED
  BY <1>1, <1>2, <1>3, <1>4, EndSettles

\* An announce of other bytes than the receipt's has read none.
LEMMA AnnounceSettles ==
  ASSUME NEW d, NEW b, Scene(d, b), NEW r \in Requests, Announce(r)
  PROVE  Settled(d, b)'
<1>1. reqs[r].pc = "decide" /\ reqs[r].op = "announce" /\ UNCHANGED <<mem, line, store, verified>>
  BY DEF Announce, Decides, At, memory, files
<1>2. /\ reqs[r] \in Request /\ Sole(reqs[r], d) /\ reqs[r].content = b
      /\ reqs[r].got # None => reqs[r].got.content = b
  BY <1>1, OneUpload DEF Scene, Asks
<1>3. CASE Answer(r)
  BY <1>1, <1>3, OverEnds, EndSettles DEF Scene
<1>4. CASE SameBytes(r) /\ Goes(r, "resume")
  <2>1. mem # None
    BY <1>1, <1>4, HasMemory DEF Scene, SameBytes
  <2> QED
    BY <1>1, <1>4, <2>1, GoesSettles
<1>5. CASE ~SameBytes(r) /\ Goes(r, "ledger")
  <2> DEFINE x == [reqs[r] EXCEPT !.pc = "ledger"]
  <2>1. reqs[r].got = None
    BY <1>2, <1>5 DEF SameBytes
  <2>2. reqs' = [reqs EXCEPT ![r] = x]
    BY <1>5 DEF Goes
  <2>3. /\ x.op = "announce" /\ x.dev = reqs[r].dev /\ x.got = None /\ x.pc = "ledger"
        /\ x.since = reqs[r].since
    BY <1>1, <1>2, <2>1 DEF Request
  <2> HIDE DEF x
  <2>4. Sole(x, d) /\ Unread(x, b) /\ Ending(x)
    BY <1>1, <1>2, <2>3 DEF Sole, Unread, Ending, Marked, From
  <2> QED
    BY <1>1, <2>2, <2>4, EditSettles
<1> QED
  BY <1>3, <1>4, <1>5 DEF Announce

\* Nobody takes the receipt over from the one phone.
LEMMA NoTakeOver ==
  ASSUME NEW d, NEW b, Scene(d, b), NEW r \in Requests
  PROVE  ~TakeOver(r)
<1> SUFFICES ASSUME TakeOver(r) PROVE FALSE
  OBVIOUS
<1>1. reqs[r].op \in Asks /\ reqs[r].got # None /\ ~Owned(r)
  BY DEF TakeOver, Decides, SameBytes, Asks
<1>2. reqs[r].dev = d /\ reqs[r].got.dev = d
  BY <1>1, OneUpload DEF Scene
<1> QED
  BY <1>1, <1>2 DEF Owned

\* The ledger is read while memory has nothing.
LEMMA ReadLedgerSettles ==
  ASSUME NEW d, NEW b, Scene(d, b), NEW r \in Requests, ReadLedger(r)
  PROVE  Settled(d, b)'
<1> DEFINE x == [reqs[r] EXCEPT !.ok = (ledger[reqs[r].content] = "none"), !.pc = "replace"]
<1>1. reqs[r].pc = "ledger" /\ reqs' = [reqs EXCEPT ![r] = x]
      /\ UNCHANGED <<mem, line, store, verified>>
  BY DEF ReadLedger, At, memory, files
<1>2. /\ reqs[r] \in Request /\ Sole(reqs[r], d) /\ reqs[r].op = "announce"
      /\ reqs[r].content = b /\ reqs[r].got = None
  BY <1>1, OneUpload, RouteOf DEF Scene, Asks, Sole
<1>3. /\ x.op = reqs[r].op /\ x.dev = reqs[r].dev /\ x.got = None /\ x.pc = "replace"
      /\ x.since = reqs[r].since /\ x.ok = (ledger[b] = "none")
  BY <1>2 DEF Request
<1> HIDE DEF x
<1>4. Sole(x, d) /\ Ending(x)
  BY <1>2, <1>3 DEF Sole, Ending, Marked, From
<1>5. Unread(x, b)
  BY <1>3 DEF Unread, Taken
<1> QED
  BY <1>1, <1>4, <1>5, EditSettles

\* A fresh receipt is the first: complete when the ledger has the bytes.
LEMMA ReplaceSettles ==
  ASSUME NEW d, NEW b, Scene(d, b), NEW r \in Requests, Replace(r)
  PROVE  Settled(d, b)'
<1> DEFINE admitted == ~reqs[r].ok
           fresh == [dev |-> reqs[r].dev, content |-> reqs[r].content, chunks |-> {},
                     state |-> IF admitted THEN "complete" ELSE "receiving"]
<1>1. reqs[r].pc = "replace" /\ UNCHANGED store
  BY DEF Replace, At
<1>2. /\ reqs[r] \in Request /\ Sole(reqs[r], d) /\ reqs[r].op = "announce"
      /\ reqs[r].dev = d /\ reqs[r].content = b /\ reqs[r].got = None
      /\ d \in Devices /\ b \in Contents
  BY <1>1, OneUpload, RouteOf DEF Scene, Asks, Sole
<1>3. CASE Changed(r) /\ DecideAgain(r) /\ UNCHANGED files
  <2> DEFINE x == [reqs[r] EXCEPT !.got = mem, !.pc = "decide"]
  <2>1. reqs' = [reqs EXCEPT ![r] = x] /\ mem # None /\ UNCHANGED <<mem, line, verified>>
    BY <1>3 DEF DecideAgain, Changed, Scene, Core, TypeOK, files
  <2>2. /\ x.op = reqs[r].op /\ x.dev = reqs[r].dev /\ x.got = mem /\ x.pc = "decide"
        /\ x.since = reqs[r].since
    BY <1>2 DEF Request
  <2> HIDE DEF x
  <2>3. Sole(x, d) /\ Ending(x)
    BY <1>2, <2>2 DEF Sole, Ending, Marked, Reads, Scene, Settled, OneDevice
  <2> QED
    BY <1>1, <2>1, <2>3, EditSettles
<1>4. CASE ~Changed(r) /\ Change(r, fresh, "opened", Closed(reqs)) /\ OpenFiles(reqs[r], admitted)
  <2>1. mem = None
    BY <1>2, <1>4 DEF Changed
  <2>2. Taken(b) => admitted
    BY <1>1, <2>1 DEF Scene, Settled, BeforeMemory, Unread
  <2>3. fresh \in Receipts /\ fresh.dev = d /\ (admitted => fresh.state = "complete")
    BY <1>2 DEF Receipts, States
  <2>4. verified' = None
    BY <1>4 DEF OpenFiles
  <2> HIDE DEF fresh, admitted
  <2>5. /\ Twins(r) /\ SavesMemory(d) /\ mem' = fresh /\ reqs'[r].op = "announce"
        /\ Sole(reqs'[r], d)
    BY <1>2, <1>4, <2>3, ChangeRecords
  <2>6. Records(r, d, b)
    BY <2>2, <2>3, <2>5, NoneIsNothing DEF Records, Says
  <2>7. Ending(reqs'[r])
    BY <2>5 DEF Ending, Marked
  <2> QED
    BY <1>1, <2>4, <2>5, <2>6, <2>7, StepSettles
<1>5. Remembered(fresh) = fresh /\ fresh.dev = reqs[r].dev /\ fresh # None
  <2>1. fresh \in Receipts
    BY <1>2 DEF Receipts, States
  <2> QED
    BY <2>1, NoneIsNothing DEF Remembered, Scene, Settled, PhoneOf
<1> QED
  BY <1>2, <1>3, <1>4, <1>5 DEF Replace

\* Files are opened again for a receipt that memory has.
LEMMA ResumeSettles ==
  ASSUME NEW d, NEW b, Scene(d, b), NEW r \in Requests, Resume(r)
  PROVE  Settled(d, b)'
<1> DEFINE there == verified # None \/ (partial # None /\ sidecar # None)
           x == [reqs[r] EXCEPT !.pc = "reopened", !.ok = there]
<1>1. reqs[r].pc = "resume" /\ UNCHANGED <<mem, line, store, verified>>
  BY DEF Resume, At, memory, files
<1>2. /\ reqs[r] \in Request /\ Sole(reqs[r], d) /\ reqs[r].op = "announce" /\ mem # None
  BY <1>1, OneUpload, RouteOf, HasMemory DEF Scene
<1>3. CASE Answer(r)
  BY <1>1, <1>3, OverEnds, EndSettles DEF Scene
<1>4. CASE reqs' = [reqs EXCEPT ![r].pc = "reopened", ![r].ok = there]
  <2>1. reqs' = [reqs EXCEPT ![r] = x]
    BY <1>4 DEF Scene, Core, TypeOK
  <2>2. /\ x.op = reqs[r].op /\ x.dev = reqs[r].dev /\ x.got = reqs[r].got /\ x.pc = "reopened"
        /\ x.since = reqs[r].since
    BY <1>2 DEF Request
  <2> HIDE DEF x
  <2>3. Sole(x, d) /\ Ending(x)
    BY <1>2, <2>2 DEF Sole, Ending, Marked
  <2> QED
    BY <1>1, <1>2, <2>1, <2>3, EditSettles
<1> QED
  BY <1>3, <1>4 DEF Resume

\* The re-announce updates the receipt.
LEMMA ReopenedSettles ==
  ASSUME NEW d, NEW b, Scene(d, b), NEW r \in Requests, Reopened(r)
  PROVE  Settled(d, b)'
<1>1. reqs[r].pc = "reopened" /\ UNCHANGED <<store, verified>>
      /\ Update(r, "receiving", ~reqs[r].ok, "resumed")
  BY DEF Reopened, At, files
<1>2. reqs[r].op = "announce" /\ reqs[r].got # None /\ mem # None
  BY <1>1, OneUpload, RouteOf, HasMemory DEF Scene, Fine, Asks
<1>3. (~reqs[r].ok) \in BOOLEAN /\ "receiving" \in States \cup {"same"}
  BY DEF States
<1>4. /\ verified' \in {verified, None} \/ ~Taken(b)
      /\ "resumed" \notin {"ledger", "replace"}
      /\ reqs[r].op # "complete" /\ reqs[r].pc # "admitted"
  BY <1>1, <1>2
<1> QED
  BY <1>1, <1>2, <1>3, <1>4, UpdateSettles

\* A chunk for a receipt that memory has.
LEMMA ChunkSettles ==
  ASSUME NEW d, NEW b, Scene(d, b), NEW r \in Requests, Chunk(r) \/ WriteChunk(r)
  PROVE  Settled(d, b)'
<1>1. /\ UNCHANGED <<mem, line, store, verified>>
      /\ Answer(r) \/ Goes(r, "writing") \/ Goes(r, "written")
  BY DEF Chunk, WriteChunk, memory, files
<1>2. reqs[r].pc \in {"decide", "writing"} /\ reqs[r].op = "chunk"
  <2>1. CASE Chunk(r)
    BY <2>1 DEF Chunk, Decides, At
  <2>2. CASE WriteChunk(r)
    BY <2>2, RouteOf DEF WriteChunk, At, Scene, Core, AllFine
  <2> QED
    BY <2>1, <2>2
<1>3. CASE Answer(r)
  BY <1>1, <1>2, <1>3, OverEnds, EndSettles DEF Scene
<1>4. ASSUME Goes(r, "writing") \/ Goes(r, "written"), ~Answer(r)
      PROVE  Settled(d, b)'
  <2>1. mem # None
    BY <1>2, <1>4, HasMemory DEF Scene, Chunk, WriteChunk, Owned, Decides, At
  <2> QED
    BY <1>1, <1>2, <1>4, <2>1, GoesSettles
<1> QED
  BY <1>1, <1>3, <1>4

\* The chunk is folded into memory's receipt.
LEMMA AddChunkSettles ==
  ASSUME NEW d, NEW b, Scene(d, b), NEW r \in Requests, AddChunk(r)
  PROVE  Settled(d, b)'
<1> DEFINE receipt == [mem EXCEPT !.state = "receiving", !.chunks = @ \cup {reqs[r].chunk}]
<1>1. reqs[r].pc = "written" /\ UNCHANGED <<store, verified>>
  BY DEF AddChunk, At, files
<1>2. Fine(reqs[r]) /\ reqs[r].op = "chunk" /\ reqs[r].chunk \in Chunks
  BY <1>1, RouteOf DEF Scene, Core, AllFine, Fine
<1>3. CASE Answer(r) /\ UNCHANGED <<mem, line>>
  BY <1>1, <1>3, OverEnds, EndSettles DEF Scene
<1>4. CASE mem # None /\ mem.state # "complete" /\ Change(r, receipt, "answer", reqs)
  <2>1. mem \in Receipts /\ mem.dev = d
    BY <1>4, OneUpload DEF Scene
  <2>2. receipt \in Receipts /\ receipt.dev = d
    BY <1>2, <2>1 DEF Receipts, States
  <2> HIDE DEF receipt
  <2>3. /\ Twins(r) /\ SavesMemory(d) /\ reqs'[r].op = "chunk" /\ Sole(reqs'[r], d)
    BY <1>2, <1>4, <2>2, ChangeRecords
  <2>4. Records(r, d, b) /\ Ending(reqs'[r])
    BY <1>1, <1>4, <2>3 DEF Records, Says, Ending, Marked
  <2> QED
    BY <1>1, <2>3, <2>4, StepSettles
<1> QED
  BY <1>3, <1>4 DEF AddChunk

\* The mark goes to a request that read memory's receipt.
LEMMA CompleteSettles ==
  ASSUME NEW d, NEW b, Scene(d, b), NEW r \in Requests, Complete(r)
  PROVE  Settled(d, b)'
<1>1. /\ reqs[r].pc = "decide" /\ reqs[r].op = "complete" /\ UNCHANGED <<line, store>>
  BY DEF Complete, Decides, At
<1>2. reqs[r] \in Request /\ Sole(reqs[r], d) /\ ~reqs[r].since
  BY OneUpload DEF Scene, Sole
<1>3. CASE Answer(r) /\ UNCHANGED <<mem, files>>
  BY <1>1, <1>3, OverEnds, EndSettles DEF Scene, files
<1>4. CASE Owned(r) /\ reqs' = [reqs EXCEPT ![r].pc = "verify", ![r].meta = sidecar]
           /\ UNCHANGED <<mem, files>>
  <2> DEFINE x == [reqs[r] EXCEPT !.pc = "verify", !.meta = sidecar]
  <2>1. reqs' = [reqs EXCEPT ![r] = x]
    BY <1>4 DEF Scene, Core, TypeOK
  <2>2. /\ x.op = reqs[r].op /\ x.dev = reqs[r].dev /\ x.got = reqs[r].got /\ x.pc = "verify"
        /\ x.since = reqs[r].since
    BY <1>2 DEF Request
  <2> HIDE DEF x
  <2>3. Sole(x, d) /\ Ending(x)
    BY <1>2, <2>2 DEF Sole, Ending
  <2>4. mem # None
    BY <1>1, <1>4, HasMemory DEF Scene, Owned
  <2> QED
    BY <1>1, <1>4, <2>1, <2>3, <2>4, EditSettles DEF files
<1> QED
  BY <1>2, <1>3, <1>4 DEF Complete

\* An update by a `complete` past its checks.
LEMMA CompleteUpdateSettles ==
  ASSUME NEW d, NEW b, Scene(d, b), NEW r \in Requests, reqs[r].pc \in Completes,
         NEW state \in States \cup {"same"}, NEW emptied \in BOOLEAN,
         NEW then \in {"missing", "verifying", "conflict", "finish", "stays"},
         Update(r, state, emptied, then),
         UNCHANGED store, verified' \in {verified, None} \/ ~Taken(b),
         reqs[r].pc # "admitted" \/ (state = "complete" /\ then = "finish")
  PROVE  Settled(d, b)'
<1>1. reqs[r].op = "complete" /\ Marked(reqs[r]) /\ reqs[r].got # None
  BY AtComplete DEF Scene
<1>2. mem # None
  BY HasMemory DEF Scene, Completes
<1>3. then \notin {"ledger", "replace"}
  OBVIOUS
<1> QED
  BY <1>1, <1>2, <1>3, UpdateSettles

\* A verify finds a verified file only before the bytes are taken.
LEMMA VerifySettles ==
  ASSUME NEW d, NEW b, Scene(d, b), NEW r \in Requests, Verify(r)
  PROVE  Settled(d, b)'
<1>1. reqs[r].pc = "verify" /\ reqs[r].pc \in Completes /\ UNCHANGED <<store, verified>>
  BY DEF Verify, At, Completes, files
<1>2. /\ reqs[r] \in Request /\ reqs[r].op = "complete" /\ Marked(reqs[r])
      /\ reqs[r].got # None /\ mem # None /\ Sole(reqs[r], d)
  BY <1>1, AtComplete, HasMemory, OneUpload DEF Scene
<1>3. CASE verified # None /\ Goes(r, "intake") /\ UNCHANGED <<mem, line>>
  <2>1. ~Taken(b)
    BY <1>3 DEF Scene, Settled, AfterAdmission
  <2> QED
    BY <1>1, <1>2, <1>3, <2>1, GoesSettles
<1>4. CASE Update(r, "same", TRUE, "missing")
  BY <1>1, <1>4, CompleteUpdateSettles DEF States
<1>5. CASE Answer(r) /\ UNCHANGED <<mem, line>>
  BY <1>1, <1>5, OverEnds, EndSettles DEF Scene
<1>6. CASE reqs' = [reqs EXCEPT ![r].pc = "open", ![r].file = "open"] /\ UNCHANGED <<mem, line>>
  <2> DEFINE x == [reqs[r] EXCEPT !.pc = "open", !.file = "open"]
  <2>1. reqs' = [reqs EXCEPT ![r] = x]
    BY <1>6 DEF Scene, Core, TypeOK
  <2>2. /\ x.op = reqs[r].op /\ x.dev = reqs[r].dev /\ x.got = reqs[r].got /\ x.pc = "open"
        /\ x.since = reqs[r].since
    BY <1>2 DEF Request
  <2> HIDE DEF x
  <2>3. Sole(x, d) /\ Ending(x)
    BY <1>2, <2>2 DEF Sole, Ending
  <2> QED
    BY <1>1, <1>2, <1>6, <2>1, <2>3, EditSettles
<1> QED
  BY <1>3, <1>4, <1>5, <1>6 DEF Verify

\* The updates of `complete`.
LEMMA UpdatesSettle ==
  ASSUME NEW d, NEW b, Scene(d, b), NEW r \in Requests,
         SetVerifying(r) \/ Damaged(r) \/ Admitted(r) \/ Refused(r)
  PROVE  Settled(d, b)'
<1>1. /\ UNCHANGED <<store, verified>>
      /\ reqs[r].pc \in {"open", "damaged", "admitted", "refused"} /\ reqs[r].pc \in Completes
  BY DEF SetVerifying, Damaged, Admitted, Refused, At, Completes, files
<1>2. {"verifying", "failed", "complete"} \subseteq States \cup {"same"}
  BY DEF States
<1>3. CASE SetVerifying(r)
  <2>1. reqs[r].pc = "open" /\ Update(r, "verifying", FALSE, "verifying")
    BY <1>3 DEF SetVerifying, At
  <2> QED
    BY <1>1, <1>2, <2>1, CompleteUpdateSettles
<1>4. CASE Damaged(r)
  <2>1. reqs[r].pc = "damaged" /\ Update(r, "failed", TRUE, "conflict")
    BY <1>4 DEF Damaged, At
  <2> QED
    BY <1>1, <1>2, <2>1, CompleteUpdateSettles
<1>5. CASE Admitted(r)
  <2>1. Update(r, "complete", FALSE, "finish")
    BY <1>5 DEF Admitted
  <2> QED
    BY <1>1, <1>2, <2>1, CompleteUpdateSettles
<1>6. CASE Refused(r)
  <2>1. reqs[r].pc = "refused" /\ Update(r, "failed", FALSE, "stays")
    BY <1>6 DEF Refused, At
  <2> QED
    BY <1>1, <1>2, <2>1, CompleteUpdateSettles
<1> QED
  BY <1>3, <1>4, <1>5, <1>6

\* A file is hashed for a receipt that is not complete.
LEMMA HashSettles ==
  ASSUME NEW d, NEW b, Scene(d, b), NEW r \in Requests, Verifying(r) \/ Hash(r)
  PROVE  Settled(d, b)'
<1>1. /\ UNCHANGED <<mem, line, store, verified>>
      /\ reqs[r].pc \in {"verifying", "hash"} /\ reqs[r].pc \in Completes
  BY DEF Verifying, Hash, At, Completes, memory, files
<1>2. /\ reqs[r] \in Request /\ reqs[r].op = "complete" /\ Marked(reqs[r]) /\ reqs[r].got # None
      /\ mem # None /\ Sole(reqs[r], d)
  BY <1>1, AtComplete, HasMemory, OneUpload DEF Scene
<1>3. CASE Answer(r)
  BY <1>1, <1>3, OverEnds, EndSettles DEF Scene
<1>4. CASE Verifying(r) /\ reqs[r].got.state # "complete" /\ Goes(r, "hash")
  <2>1. reqs[r].pc = "verifying"
    BY <1>4 DEF Verifying, At
  <2>2. ~Taken(b)
    BY <1>2, <1>4, <2>1 DEF Scene, Settled, AfterAdmission, Ending, Says, Saves
  <2> QED
    BY <1>1, <1>2, <1>4, <2>2, GoesSettles
<1>5. CASE Hash(r)
  <2> DEFINE ok == reqs[r].file = "open" /\ Whole(partial, reqs[r].got.content)
             x == [reqs[r] EXCEPT !.pc = "hashed", !.ok = ok]
  <2>1. reqs' = [reqs EXCEPT ![r] = x] /\ reqs[r].pc = "hash"
    BY <1>5 DEF Hash, At, Scene, Core, TypeOK
  <2>2. /\ x.op = reqs[r].op /\ x.dev = reqs[r].dev /\ x.got = reqs[r].got /\ x.pc = "hashed"
        /\ x.since = reqs[r].since
    BY <1>2 DEF Request
  <2> HIDE DEF x
  <2>3. Sole(x, d)
    BY <1>2, <2>2 DEF Sole
  <2>4. ~Taken(b)
    BY <2>1, NotTaken DEF Scene
  <2> QED
    BY <1>1, <1>2, <2>1, <2>3, <2>4, EditSettles
<1> QED
  BY <1>3, <1>4, <1>5 DEF Verifying

\* The answers of a verify.
LEMMA HashedSettles ==
  ASSUME NEW d, NEW b, Scene(d, b), NEW r \in Requests, Hashed(r)
  PROVE  Settled(d, b)'
<1>1. /\ reqs[r].pc = "hashed" /\ reqs[r].pc \in Completes /\ UNCHANGED store
      /\ verified' \in {verified, None}
  BY DEF Hashed, At, Completes, files, DiscardOwn, NoFiles
<1>2. /\ reqs[r] \in Request /\ reqs[r].op = "complete" /\ Marked(reqs[r]) /\ reqs[r].got # None
      /\ mem # None /\ Sole(reqs[r], d) /\ ~Taken(b) /\ ~reqs[r].since
  BY <1>1, AtComplete, HasMemory, OneUpload, NotTaken DEF Scene, Sole
<1>3. CASE Update(r, "receiving", TRUE, "conflict")
  <2>1. "receiving" \in States \cup {"same"}
    BY DEF States
  <2> QED
    BY <1>1, <1>3, <2>1, CompleteUpdateSettles
<1>4. CASE Goes(r, "promote") /\ UNCHANGED <<mem, line>>
  BY <1>1, <1>2, <1>4, GoesSettles
<1>5. CASE DiscardOwn(reqs[r].dev, [reqs EXCEPT ![r].pc = "damaged"]) /\ UNCHANGED <<mem, line>>
  <2> DEFINE x == [reqs[r] EXCEPT !.pc = "damaged"]
             rs == [reqs EXCEPT ![r].pc = "damaged"]
  <2>1. rs[r] = x /\ \A s \in Requests : s # r => rs[s] = reqs[s]
    BY DEF Scene, Core, TypeOK
  <2>2. x \in Request
    BY <1>2 DEF Request, Steps
  <2>3. /\ x.op = reqs[r].op /\ x.dev = reqs[r].dev /\ x.got = reqs[r].got /\ x.pc = "damaged"
        /\ x.since = reqs[r].since
    BY <1>2 DEF Request
  <2>4. reqs' \in {rs, Closed(rs)}
    BY <1>5 DEF DiscardOwn
  <2> HIDE DEF rs, x
  <2>5. \A s \in Requests : rs[s] \in Request
    BY <2>1, <2>2 DEF Scene, Core, TypeOK
  <2>6. \A s \in Requests : Twin(reqs'[s], rs[s])
    BY <2>4, <2>5, ClosedTwin DEF Twin
  <2>7. Twins(r) /\ Twin(reqs'[r], x)
    BY <2>1, <2>6 DEF Twins
  <2>8. Sole(reqs'[r], d)
    BY <1>2, <2>3, <2>7 DEF Sole, Twin
  <2>9. Rests(r, b)
    BY <1>1, <1>2, <1>5 DEF Rests, SameLine
  <2> QED
    BY <1>1, <1>2, <2>7, <2>8, <2>9, StepSettles
<1> QED
  BY <1>2, <1>3, <1>4, <1>5 DEF Hashed

\* The rename.
LEMMA PromoteSettles ==
  ASSUME NEW d, NEW b, Scene(d, b), NEW r \in Requests, Promote(r)
  PROVE  Settled(d, b)'
<1>1. reqs[r].pc = "promote" /\ reqs[r].pc \in Completes /\ UNCHANGED store
  BY DEF Promote, At, Completes
<1>2. /\ reqs[r] \in Request /\ reqs[r].op = "complete" /\ Marked(reqs[r]) /\ reqs[r].got # None
      /\ mem # None /\ Sole(reqs[r], d) /\ ~Taken(b)
  BY <1>1, AtComplete, HasMemory, OneUpload, NotTaken DEF Scene
<1>3. CASE Answer(r) /\ UNCHANGED <<mem, line, verified>>
  BY <1>1, <1>3, OverEnds, EndSettles DEF Scene
<1>4. CASE Update(r, "receiving", TRUE, "conflict")
  <2>1. "receiving" \in States \cup {"same"}
    BY DEF States
  <2> QED
    BY <1>1, <1>2, <1>4, <2>1, CompleteUpdateSettles
<1>5. CASE reqs' = [reqs EXCEPT ![r].pc = "intake", ![r].file = "closed"] /\ UNCHANGED <<mem, line>>
  <2> DEFINE x == [reqs[r] EXCEPT !.pc = "intake", !.file = "closed"]
  <2>1. reqs' = [reqs EXCEPT ![r] = x]
    BY <1>5 DEF Scene, Core, TypeOK
  <2>2. /\ x.op = reqs[r].op /\ x.dev = reqs[r].dev /\ x.got = reqs[r].got /\ x.pc = "intake"
        /\ x.since = reqs[r].since
    BY <1>2 DEF Request
  <2> HIDE DEF x
  <2>3. Sole(x, d)
    BY <1>2, <2>2 DEF Sole
  <2> QED
    BY <1>1, <1>2, <1>5, <2>1, <2>3, EditSettles
<1> QED
  BY <1>3, <1>4, <1>5 DEF Promote

\* The intake has bytes that are not taken, and no other upload in its way.
LEMMA IntakeSettles ==
  ASSUME NEW d, NEW b, Scene(d, b), NEW r \in Requests, Intake(r)
  PROVE  Settled(d, b)'
<1>1. reqs[r].pc = "intake" /\ reqs[r].pc \in Completes /\ UNCHANGED <<mem, line, store, verified>>
  BY DEF Intake, At, Completes, memory, files
<1>2. /\ reqs[r] \in Request /\ reqs[r].op = "complete" /\ mem # None /\ Sole(reqs[r], d)
      /\ ~Taken(b)
  BY <1>1, AtComplete, HasMemory, OneUpload, NotTaken DEF Scene
<1>3. ASSUME NEW pc \in {"refused", "admitted"}, Goes(r, pc)
      PROVE  Settled(d, b)'
  BY <1>1, <1>2, <1>3, GoesSettles
<1>4. CASE reqs' = [reqs EXCEPT ![r].pc = "commit", ![r].copied = verified]
  <2> DEFINE x == [reqs[r] EXCEPT !.pc = "commit", !.copied = verified]
  <2>1. reqs' = [reqs EXCEPT ![r] = x]
    BY <1>4 DEF Scene, Core, TypeOK
  <2>2. /\ x.op = reqs[r].op /\ x.dev = reqs[r].dev /\ x.got = reqs[r].got /\ x.pc = "commit"
        /\ x.since = reqs[r].since
    BY <1>2 DEF Request
  <2> HIDE DEF x
  <2>3. Sole(x, d)
    BY <1>2, <2>2 DEF Sole
  <2> QED
    BY <1>1, <1>2, <2>1, <2>3, EditSettles
<1> QED
  BY <1>3, <1>4 DEF Intake

\* The commit writes the row ahead of memory, with the chunks the row had: a
\* row is there, unless its first save is still in line.
LEMMA CommitSettles ==
  ASSUME NEW d, NEW b, Scene(d, b), NEW r \in Requests, Commit(r)
  PROVE  Settled(d, b)'
<1>1. /\ reqs[r].pc = "commit" /\ reqs[r].pc \in Completes /\ UNCHANGED <<mem, line>>
      /\ verified' \in {verified, None}
  BY DEF Commit, Commits, CommitFails, At, Completes, memory
<1>2. /\ reqs[r] \in Request /\ Sole(reqs[r], d) /\ ~Taken(b) /\ mem # None /\ Marked(reqs[r])
      /\ reqs[r].op = "complete" /\ reqs[r].dev = d /\ reqs[r].meta = b
      /\ b \in Contents /\ b # None
  <2>1. reqs[r].op = "complete" /\ Marked(reqs[r])
    BY <1>1, AtComplete DEF Scene
  <2>2. reqs[r].meta = b /\ reqs[r].dev = d /\ b \in Contents
    BY <2>1, OneUpload, ClaimsAreSo DEF Scene, Pure, Asks
  <2> QED
    BY <1>1, <2>1, <2>2, HasMemory, OneUpload, NotTaken, NoneIsNothing DEF Scene
<1>3. CASE Goes(r, "refused") /\ UNCHANGED <<row, safe, ledger, verified>>
  <2>1. UNCHANGED store
    BY <1>3 DEF Commit, store
  <2> QED
    BY <1>1, <1>2, <1>3, <2>1, GoesSettles
<1>4. ASSUME NEW chunks, chunks = IF row = None THEN {} ELSE row.chunks,
             NEW state \in {"complete", "failed"}, row' = Row(d, b, state, chunks),
             safe' = Now',
             NEW x, reqs' = [reqs EXCEPT ![r] = x], x.op = reqs[r].op, x.dev = reqs[r].dev,
             x.got = reqs[r].got, x.since = reqs[r].since,
             \/ /\ x.pc = "admitted" /\ verified' = None
                /\ ledger' = [ledger EXCEPT ![b] = "kept"]
             \/ x.pc = "refused" /\ UNCHANGED <<verified, ledger>>
      PROVE  Settled(d, b)'
  <2>1. Twins(r) /\ reqs'[r] = x
    BY <1>4, EditTwins DEF Scene
  <2>2. row'.dev = d /\ row'.chunks = chunks /\ row' # None /\ safe'.row = row'
    <3>1. row' \in Receipts \cup {None} /\ row'.dev = d /\ row'.chunks = chunks
      BY <1>4 DEF Row, Scene, Core, TypeOK
    <3>2. row' # None
      <4>1. d \in Devices /\ b \in Contents
        BY <1>2, OneUpload DEF Scene, Asks
      <4>2. chunks \in SUBSET Chunks
        BY <1>4 DEF Scene, Core, TypeOK, Receipts
      <4>3. row' \in Receipts
        BY <1>4, <4>1, <4>2 DEF Row, Receipts, States
      <4> QED
        BY <4>3, NoneIsNothing
    <3> QED
      BY <1>4, <3>1, <3>2 DEF Now
  <2>3. Sole(reqs'[r], d)
    BY <1>2, <1>4, <2>1 DEF Sole
  <2>4. OneDevice(d)'
    BY <1>1, <2>1, <2>2, <2>3, OneDeviceStays DEF SameLine, Scene, Settled, OneDevice, From
  <2>5. LineEndsInMemory' /\ BeforeMemory(b)'
    BY <1>1, <1>2 DEF Scene, Settled, LineEndsInMemory, BeforeMemory
  <2>6. \A s \in Requests : s # r => ~Marked(reqs'[s]) /\ reqs'[s].pc # "admitted"
        /\ ~Marked(reqs[s]) /\ reqs[s].pc # "admitted"
    <3> TAKE s \in Requests
    <3> HAVE s # r
    <3>1. ~Marked(reqs[s])
      BY <1>2, MarkIsMarked DEF Scene, Core
    <3>2. reqs[s].pc # "admitted"
      BY <3>1, AtComplete DEF Scene, Completes
    <3> QED
      BY <2>1, <3>1, <3>2 DEF Twins, Twin, Marked
  <2>7. line = << >> => chunks = mem.chunks
    <3>1. ~Says(mem)
      BY <1>2, ClaimsAreSo DEF Scene
    <3>2. ~Admitting
      BY <1>1, <2>6 DEF Admitting
    <3>3. line = << >> => row # None /\ row.chunks = mem.chunks
      BY <1>2, <3>1, <3>2 DEF Scene, Settled, StoreAgrees
    <3> QED
      BY <1>4, <3>3
  <2>8. CASE x.pc = "admitted"
    <3>1. Taken(b)' /\ Admitting' /\ Ending(reqs'[r])
      <4>1. ledger' = [ledger EXCEPT ![b] = "kept"] /\ b \in DOMAIN ledger
        BY <1>2, <1>4, <2>8 DEF Scene, Core, TypeOK
      <4>2. Taken(b)'
        BY <1>2, <4>1 DEF Taken
      <4>3. Admitting' /\ Ending(reqs'[r])
        BY <2>1, <2>8 DEF Admitting, Ending
      <4> QED
        BY <4>2, <4>3
    <3>2. AfterAdmission(b)'
      BY <1>4, <2>6, <2>8, <3>1 DEF AfterAdmission, Ending
    <3>3. StoreAgrees(b)'
      BY <1>1, <2>2, <2>7, <3>1 DEF StoreAgrees
    <3> QED
      BY <2>4, <2>5, <3>2, <3>3 DEF Settled, Scene
  <2>9. CASE x.pc = "refused"
    <3>1. ~Taken(b)' /\ Refusing'
      BY <1>2, <1>4, <2>1, <2>9 DEF Taken, Refusing
    <3>2. AfterAdmission(b)'
      BY <3>1 DEF AfterAdmission
    <3>3. StoreAgrees(b)'
      BY <1>1, <2>2, <2>7, <3>1 DEF StoreAgrees
    <3> QED
      BY <2>4, <2>5, <3>2, <3>3 DEF Settled, Scene
  <2> QED
    BY <1>4, <2>8, <2>9
<1>5. CASE Commits(r)
  <2> DEFINE x == [reqs[r] EXCEPT !.pc = "admitted", !.copied = None]
             chunks == IF row = None THEN {} ELSE row.chunks
  <2>1. /\ reqs' = [reqs EXCEPT ![r] = x] /\ row' = Row(d, b, "complete", chunks) /\ safe' = Now'
        /\ verified' = None /\ ledger' = [ledger EXCEPT ![b] = "kept"]
    BY <1>2, <1>5 DEF Commits, Scene, Core, TypeOK
  <2>2. /\ x.op = reqs[r].op /\ x.dev = reqs[r].dev /\ x.got = reqs[r].got /\ x.pc = "admitted"
        /\ x.since = reqs[r].since
    BY <1>2 DEF Request
  <2> HIDE DEF x
  <2> QED
    BY <1>4, <2>1, <2>2
<1>6. CASE CommitFails(r)
  <2> DEFINE x == [reqs[r] EXCEPT !.pc = "refused"]
             chunks == IF row = None THEN {} ELSE row.chunks
  <2>1. /\ reqs' = [reqs EXCEPT ![r] = x] /\ row' = Row(d, b, "failed", chunks) /\ safe' = Now'
        /\ UNCHANGED <<verified, ledger>>
    BY <1>2, <1>6 DEF CommitFails, Goes
  <2>2. /\ x.op = reqs[r].op /\ x.dev = reqs[r].dev /\ x.got = reqs[r].got /\ x.pc = "refused"
        /\ x.since = reqs[r].since
    BY <1>2 DEF Request
  <2> HIDE DEF x
  <2> QED
    BY <1>4, <2>1, <2>2
<1> QED
  BY <1>3, <1>5, <1>6 DEF Commit

\* Nothing the one phone's receipt depends on changes.
LEMMA NothingSettles ==
  ASSUME NEW d, NEW b, Scene(d, b), \A s \in Requests : Twin(reqs'[s], reqs[s]),
         UNCHANGED <<mem, line, store, verified>>
  PROVE  Settled(d, b)'
<1>1. /\ mem' = mem /\ line' = line /\ row' = row /\ ledger' = ledger /\ safe' = safe
      /\ verified' = verified /\ (Taken(b)' <=> Taken(b)) /\ Stored(row)' = Stored(row)
  BY DEF store, Taken, Stored
<1>2. /\ \A s \in Requests : Sole(reqs[s], d) => Sole(reqs'[s], d)
      /\ \A s \in Requests : Unread(reqs[s], b) => Unread(reqs'[s], b)
      /\ \A s \in Requests : Ending(reqs[s]) => Ending(reqs'[s])
      /\ (Admitting => Admitting') /\ (Refusing => Refusing')
  BY TwinsKeep DEF Twin, Admitting, Refusing
<1>3. OneDevice(d)'
  BY <1>1, <1>2 DEF Scene, Settled, OneDevice
<1>4. LineEndsInMemory'
  BY <1>1 DEF Scene, Settled, LineEndsInMemory
<1>5. BeforeMemory(b)'
  <2> SUFFICES ASSUME mem = None, NEW s \in Requests
               PROVE  Unread(reqs[s], b)'
    BY <1>1 DEF BeforeMemory
  <2>1. Unread(reqs'[s], b)
    BY <1>2 DEF Scene, Settled, BeforeMemory
  <2> QED
    BY <1>1, <2>1 DEF Unread
<1>6. AfterAdmission(b)'
  BY <1>1, <1>2 DEF Scene, Settled, AfterAdmission
<1>7. StoreAgrees(b)'
  BY <1>1, <1>2 DEF Scene, Settled, StoreAgrees
<1> QED
  BY <1>3, <1>4, <1>5, <1>6, <1>7 DEF Scene, Settled

\* A hang-up ends a request whose write stays in line, or is not heard of.
LEMMA HangUpSettles ==
  ASSUME NEW d, NEW b, Scene(d, b), NEW r \in Requests, HangUp(r)
  PROVE  Settled(d, b)'
<1>1. UNCHANGED <<mem, store, verified>>
  BY DEF HangUp, files
<1>2. CASE reqs' = [reqs EXCEPT ![r].heard = FALSE] /\ UNCHANGED line
  <2> DEFINE x == [reqs[r] EXCEPT !.heard = FALSE]
  <2>1. reqs' = [reqs EXCEPT ![r] = x] /\ reqs[r] \in Request
    BY <1>2 DEF Scene, Core, TypeOK
  <2>2. Twin(x, reqs[r])
    BY <2>1 DEF Twin, Request
  <2> HIDE DEF x
  <2>3. Twins(r) /\ reqs'[r] = x
    BY <2>1, EditTwins DEF Scene
  <2>4. \A s \in Requests : Twin(reqs'[s], reqs[s])
    BY <2>2, <2>3 DEF Twins
  <2> QED
    BY <1>1, <1>2, <2>4, NothingSettles
<1>3. CASE /\ reqs[r].pc \in Awaits /\ Answer(r)
           /\ line' = [i \in DOMAIN line |-> IF line[i].for = r THEN [line[i] EXCEPT !.for = None]
                                                                ELSE line[i]]
  <2>1. Ends(r) /\ reqs[r].pc \notin {"admitted", "refused"}
    BY <1>3, OverEnds DEF Scene, Awaits
  <2>2. SameLine
    <3>1. line \in Seq(Writes) /\ line' \in Seq(Writes)
      BY DEF Scene, Core, TypeOK
    <3>2. DOMAIN line = 1..Len(line) /\ Len(line) \in Nat /\ DOMAIN line' = 1..Len(line')
          /\ Len(line') \in Nat
      BY <3>1
    <3>3. DOMAIN line' = DOMAIN line
      BY <1>3
    <3>4. Len(line') = Len(line)
      <4> DEFINE n == Len(line)
                 m == Len(line')
      <4>1. n \in Nat /\ m \in Nat /\ 1..n = 1..m
        BY <3>2, <3>3
      <4> HIDE DEF n, m
      <4>2. (n > 0 => n \in 1..n) /\ (m > 0 => m \in 1..m)
        BY <4>1
      <4>3. (n > 0 => n \in 1..m) /\ (m > 0 => m \in 1..n)
        BY <4>1, <4>2
      <4>4. n = m
        BY <4>1, <4>3
      <4> QED
        BY <4>4 DEF n, m
    <3>5. ASSUME NEW i \in 1..Len(line)
          PROVE  line'[i].kind = line[i].kind /\ line'[i].receipt = line[i].receipt
      <4>1. line[i] \in Writes
        BY <3>1
      <4>2. line'[i] \in {line[i], [line[i] EXCEPT !.for = None]}
        BY <1>3, <3>2
      <4>3. [line[i] EXCEPT !.for = None].kind = line[i].kind
            /\ [line[i] EXCEPT !.for = None].receipt = line[i].receipt
        BY <4>1 DEF Writes
      <4> QED
        BY <4>2, <4>3
    <3> QED
      BY <3>4, <3>5 DEF SameLine
  <2>3. Rests(r, b)
    BY <1>1, <2>1, <2>2, IdleIsSole DEF Ends, Rests
  <2> QED
    BY <1>1, <2>1, <2>3, IdleIsSole, StepSettles DEF Ends
<1> QED
  BY <1>2, <1>3 DEF HangUp

\* A write reaches the store; with the last one the store has what memory has.
LEMMA WrittenSettles ==
  ASSUME NEW d, NEW b, Scene(d, b), Written
  PROVE  Settled(d, b)'
<1> DEFINE w == Head(line)
<1>1. /\ line # << >> /\ line' = Tail(line) /\ mem' = mem /\ verified' = verified
  BY DEF Written, files
<1>2. /\ Len(line) \in Nat /\ Len(line) > 0 /\ w = line[1] /\ w \in Writes
      /\ Len(line') = Len(line) - 1
      /\ \A i \in 1..Len(line') : i + 1 \in 1..Len(line) /\ line'[i] = line[i + 1]
  BY <1>1 DEF Scene, Core, TypeOK
<1>3. mem # None /\ line[Len(line)].receipt = mem
  BY <1>1 DEF Scene, Settled, LineEndsInMemory
<1>4. w.kind = "receipt" /\ From(w.receipt, d) /\ w.dev \in paired
  <2>1. 1 \in 1..Len(line)
    BY <1>2
  <2>2. w.dev \in Devices
    BY <1>2 DEF Writes
  <2> QED
    BY <1>2, <2>1, <2>2 DEF Scene, Settled, OneDevice, PhoneOf
<1>5. /\ row' = w.receipt /\ ledger' = ledger /\ Logged /\ Told(w, TRUE)
      /\ (Taken(b)' <=> Taken(b))
  BY <1>4 DEF Written, Taken
<1>6. w.for \in Requests \cup {None} /\ (w.for # None => reqs[w.for].pc = "saving")
  BY <1>2 DEF Scene, Core, Lined, Writes
<1>7. /\ \A s \in Requests : Sole(reqs'[s], d)
      /\ Taken(b) => \A s \in Requests : Ending(reqs'[s])
      /\ Admitting => Admitting'
      /\ Refusing => Refusing'
  <2>1. CASE w.for = None
    <3>1. reqs' = reqs
      BY <1>5, <2>1 DEF Told
    <3> QED
      BY <3>1 DEF Scene, Settled, OneDevice, AfterAdmission, Admitting, Refusing
  <2>2. CASE w.for \in Requests
    <3> DEFINE r == w.for
               x == [reqs[r] EXCEPT !.pc = reqs[r].then, !.then = "idle", !.ok = TRUE]
    <3>1. w.for # None
      BY <2>2, NoneIsNothing
    <3>2. /\ reqs[r] \in Request /\ Sole(reqs[r], d) /\ Fine(reqs[r]) /\ reqs[r].pc = "saving"
      BY <1>6, <2>2, <3>1, OneUpload DEF Scene
    <3>3. Twins(r) /\ (reqs'[r] = Idle \/ reqs'[r] = x)
      <4>1. CASE reqs[r].then = "answer"
        <5>1. reqs' = Over(reqs, r)
          BY <1>5, <3>1, <4>1 DEF Told
        <5> QED
          BY <2>2, <5>1, OverEnds DEF Scene, Ends
      <4>2. CASE reqs[r].then # "answer"
        <5>1. reqs' = [reqs EXCEPT ![r] = x]
          BY <1>5, <2>2, <3>1, <4>2 DEF Told, Scene, Core, TypeOK
        <5> HIDE DEF x
        <5> QED
          BY <2>2, <5>1, EditTwins DEF Scene
      <4> QED
        BY <4>1, <4>2
    <3>4. /\ x.op = reqs[r].op /\ x.dev = reqs[r].dev /\ x.pc = reqs[r].then
          /\ x.got = reqs[r].got /\ x.since = reqs[r].since
      BY <3>2 DEF Request
    <3> HIDE DEF x, r
    <3>5. Sole(x, d)
      <4>1. reqs[r].then \notin {"ledger", "replace"} \/ reqs[r].op = "none"
        BY <3>2 DEF Fine, InRoute, Reads, Completes, Saves, Request
      <4>2. reqs[r].op # "none"
        BY <3>2 DEF Fine, InRoute
      <4> QED
        BY <3>2, <3>4, <4>1, <4>2 DEF Sole
    <3>6. Taken(b) => Ending(x)
      <4>1. Taken(b) => Ending(reqs[r])
        BY <2>2 DEF Scene, Settled, AfterAdmission, r
      <4>2. Marked(x) => reqs[r].op = "complete" /\ Marked(reqs[r])
        BY <3>2, <3>4 DEF Marked, Reads
      <4> QED
        BY <3>2, <3>4, <4>1, <4>2 DEF Ending, Saves
    <3>7. r \in Requests
      BY <2>2 DEF r
    <3>8. Sole(reqs'[r], d) /\ (Taken(b) => Ending(reqs'[r]))
      BY <3>3, <3>5, <3>6, IdleIsSole
    <3>9. \A s \in Requests : Sole(reqs[s], d) /\ (Taken(b) => Ending(reqs[s]))
      BY DEF Scene, Settled, OneDevice, AfterAdmission
    <3>10. \A s \in Requests : Sole(reqs'[s], d) /\ (Taken(b) => Ending(reqs'[s]))
      BY <3>3, <3>8, <3>9, TwinsKeep DEF Twins
    <3> QED
      BY <3>2, <3>3, <3>7, <3>10, StandsStill
  <2> QED
    BY <1>6, <2>1, <2>2
<1>8. OneDevice(d)'
  <2>1. safe'.row \in {safe.row, row, row'}
    BY <1>5 DEF Logged, Now
  <2>2. From(mem', d) /\ From(row', d) /\ From(safe'.row, d)
    BY <1>1, <1>4, <1>5, <2>1 DEF Scene, Settled, OneDevice
  <2>3. \A i \in 1..Len(line') : line'[i].kind = "receipt" /\ From(line'[i].receipt, d)
    BY <1>2 DEF Scene, Settled, OneDevice
  <2> QED
    BY <1>7, <2>2, <2>3 DEF OneDevice
<1>9. LineEndsInMemory'
  <2> SUFFICES ASSUME line' # << >>
               PROVE  mem' # None /\ line'[Len(line')].receipt = mem'
    BY DEF LineEndsInMemory
  <2>1. Len(line') > 0
    BY <1>1, <1>2 DEF Scene, Core, TypeOK
  <2>2. Len(line') \in 1..Len(line') /\ Len(line') + 1 = Len(line)
    BY <1>2, <2>1
  <2> QED
    BY <1>1, <1>2, <1>3, <2>2
<1>10. BeforeMemory(b)'
  BY <1>1, <1>3 DEF BeforeMemory
<1>11. AfterAdmission(b)'
  BY <1>1, <1>5, <1>7 DEF Scene, Settled, AfterAdmission
<1>12. StoreAgrees(b)'
  <2> SUFFICES ASSUME line' = << >>
               PROVE  row' = mem /\ (Taken(b) \/ Stored(mem)' = mem)
    BY <1>1, <1>3, <1>5 DEF StoreAgrees
  <2>1. Len(line') = 0
    OBVIOUS
  <2>2. row' = mem
    <3>1. Len(line) = 1
      BY <1>2, <2>1
    <3>2. w.receipt = mem
      BY <1>2, <1>3, <3>1
    <3> QED
      BY <1>5, <3>2
  <2>3. ~Taken(b) => Stored(mem)' = mem
    <3>1. mem \in Receipts /\ mem.content = b /\ b # None
      BY <1>3, NoneIsNothing DEF Scene, Core, TypeOK, Known, Only, Of, Receipts
    <3>2. ~Taken(b) => mem.state # "complete"
      BY <1>3, ClaimsAreSo DEF Scene, Says
    <3> QED
      BY <1>1, <1>3, <1>5, <3>1, <3>2 DEF Stored, Taken
  <2> QED
    BY <2>2, <2>3
<1> QED
  BY <1>8, <1>9, <1>10, <1>11, <1>12 DEF Scene, Settled

\* The user deletes the meeting: its receipt goes, and what the store then
\* reads as is still that the bytes were taken.
LEMMA DeleteMeetingSettles ==
  ASSUME NEW d, NEW b, Scene(d, b), NEW c \in Contents, DeleteMeeting(c)
  PROVE  Settled(d, b)'
<1>1. /\ ledger[c] = "kept" /\ ledger' = [ledger EXCEPT ![c] = "deleted"]
      /\ row' = (IF row # None /\ row.content = c /\ row.state = "complete" THEN None ELSE row)
      /\ Logged /\ mem' = mem /\ line' = line /\ reqs' = reqs /\ verified' = verified
  BY DEF DeleteMeeting, memory, files
<1>2. c = b /\ b # None
  BY <1>1, NoneIsNothing DEF Scene, Known, Only
<1>3. Taken(b) /\ Taken(b)'
  BY <1>1, <1>2 DEF Taken, Scene, Core, TypeOK
<1>4. row # None => row \in Receipts /\ row.content = b
  BY DEF Scene, Core, TypeOK, Known, Only, Of
<1>5. row # None => /\ Stored(row) = [row EXCEPT !.state = "complete"]
                    /\ Stored(row)' = IF row' = None THEN None ELSE Stored(row)
                    /\ Says(Stored(row))
  <2> SUFFICES ASSUME row # None
               PROVE  /\ Stored(row) = [row EXCEPT !.state = "complete"]
                      /\ Stored(row)' = IF row' = None THEN None ELSE Stored(row)
                      /\ Says(Stored(row))
    OBVIOUS
  <2>1. Stored(row) = [row EXCEPT !.state = "complete"]
    BY <1>3, <1>4 DEF Stored, Taken
  <2>2. row' = None \/ row' = row
    BY <1>1
  <2>3. Stored(row)' = IF row' = None THEN None ELSE Stored(row)
    BY <1>3, <1>4, <2>1, <2>2 DEF Stored, Taken
  <2>4. Says(Stored(row))
    BY <1>3, <1>4, StoredReads DEF Says
  <2> QED
    BY <2>1, <2>3, <2>4
<1>6. OneDevice(d)'
  <2>1. row' \in {row, None} /\ safe'.row \in {safe.row, row, row'}
    BY <1>1 DEF Logged, Now
  <2> QED
    BY <1>1, <2>1 DEF Scene, Settled, OneDevice, From
<1>7. LineEndsInMemory'
  BY <1>1 DEF Scene, Settled, LineEndsInMemory
<1>8. BeforeMemory(b)'
  <2> SUFFICES ASSUME mem = None, NEW s \in Requests
               PROVE  Unread(reqs[s], b)'
    BY <1>1 DEF BeforeMemory
  <2>1. Unread(reqs[s], b)
    BY DEF Scene, Settled, BeforeMemory
  <2>2. reqs[s].pc = "remember" =>
          IF row' = None THEN Says(reqs[s].got) ELSE reqs[s].got = Stored(row)'
    BY <1>1, <1>5, <2>1 DEF Unread
  <2> QED
    BY <1>1, <1>3, <2>1, <2>2 DEF Unread
<1>9. AfterAdmission(b)'
  BY <1>1, <1>3 DEF Scene, Settled, AfterAdmission, Admitting
<1>10. StoreAgrees(b)'
  <2> SUFFICES ASSUME line = << >>, mem # None
               PROVE  IF row' = None THEN Says(mem) \/ Admitting'
                      ELSE row'.chunks = mem.chunks
    BY <1>1, <1>3 DEF StoreAgrees
  <2>1. Says(mem) \/ Admitting'
    BY <1>1, <1>3 DEF Scene, Settled, AfterAdmission, Admitting
  <2>2. row' # None => row' = row /\ row # None
    BY <1>1
  <2> QED
    BY <2>1, <2>2 DEF Scene, Settled, StoreAgrees
<1> QED
  BY <1>6, <1>7, <1>8, <1>9, <1>10 DEF Scene, Settled

\* After a crash memory holds nothing, and no file of taken bytes is left.
LEMMA RestartSettles ==
  ASSUME NEW d, NEW b, Scene(d, b), NEW abandoned \in BOOLEAN, Restart(abandoned)
  PROVE  Settled(d, b)'
<1>1. /\ mem' = None /\ line' = << >> /\ reqs' = [r \in Requests |-> Idle]
      /\ row' \in {row, safe.row} /\ safe'.row = row'
  BY DEF Restart, Now
<1>2. \A s \in Requests : reqs'[s] = Idle
  BY <1>1
<1>3. OneDevice(d)'
  <2>1. From(mem', d) /\ From(row', d) /\ From(safe'.row, d)
    BY <1>1 DEF Scene, Settled, OneDevice, From
  <2>2. \A i \in 1..Len(line') : line'[i].kind = "receipt" /\ From(line'[i].receipt, d)
    BY <1>1
  <2> QED
    BY <1>2, <2>1, <2>2, IdleIsSole DEF OneDevice
<1>4. LineEndsInMemory' /\ StoreAgrees(b)'
  BY <1>1 DEF LineEndsInMemory, StoreAgrees
<1>5. BeforeMemory(b)'
  <2> SUFFICES ASSUME NEW s \in Requests
               PROVE  Unread(reqs[s], b)'
    BY DEF BeforeMemory
  <2> QED
    BY <1>2 DEF Unread, Idle
<1>6. AfterAdmission(b)'
  <2> SUFFICES ASSUME Taken(b)'
               PROVE  verified' = None
    BY <1>1, <1>2, IdleIsSole DEF AfterAdmission
  <2>1. row' # None => row' \in Receipts /\ row'.content = b
    BY <1>1 DEF Scene, Core, TypeOK, Known, Only, Of
  <2>2. row' = None \/ Stored(row)'.state = "complete"
    <3>1. ASSUME row' # None
          PROVE  Stored(row)'.state = "complete"
      <4>1. ledger'[row'.content] # "none"
        BY <2>1, <3>1 DEF Taken
      <4>2. Stored(row)' = [row' EXCEPT !.state = "complete"]
        BY <3>1, <4>1 DEF Stored
      <4> QED
        BY <2>1, <3>1, <4>2 DEF Receipts
    <3> QED
      BY <3>1
  <2> QED
    BY <2>2 DEF Restart, NoFiles
<1> QED
  BY <1>3, <1>4, <1>5, <1>6 DEF Scene, Settled

-----------------------------------------------------------------------------
(* Every step, and the store that follows.                                  *)

\* Before anything happened.
LEMMA InitIsSettled ==
  ASSUME OnePhone, Init, NEW b, Known(b)
  PROVE  \E d : Settled(d, b)
<1>1. /\ mem = None /\ line = << >> /\ row = None /\ safe.row = None /\ verified = None
      /\ revoked = {} /\ discards = {} /\ paired = Devices
      /\ ledger = [c \in Contents |-> "none"] /\ reqs = [r \in Requests |-> Idle]
  BY DEF Init
<1>2. PICK s \in Starts : phones = [u \in Uploads |-> IF u \in s.phones THEN "held" ELSE "gone"]
  BY DEF Init
<1>3. PICK d : \A u \in s.phones : u[1] = d
  BY <1>2 DEF OnePhone
<1>4. PhoneOf(d)
  BY <1>1, <1>2, <1>3 DEF PhoneOf
<1>5. \A r \in Requests : Sole(reqs[r], d) /\ Unread(reqs[r], b) /\ Ending(reqs[r])
  BY <1>1, IdleIsSole
<1>6. OneDevice(d)
  BY <1>1, <1>5 DEF OneDevice, From
<1>7. BeforeMemory(b) /\ AfterAdmission(b)
  BY <1>1, <1>5 DEF BeforeMemory, AfterAdmission
<1>8. LineEndsInMemory /\ StoreAgrees(b)
  BY <1>1 DEF LineEndsInMemory, StoreAgrees
<1> QED
  BY <1>4, <1>6, <1>7, <1>8 DEF Settled

\* A request's own steps.
LEMMA HandlerSettles ==
  ASSUME NEW d, NEW b, Scene(d, b), NEW r \in Requests, Handler(r)
  PROVE  Settled(d, b)'
<1>1. ~Paired(r)
  BY RouteOf DEF Paired, At, Scene, Core, AllFine, Settled, OneDevice, Sole
<1>2. ASSUME Fetch(r) \/ Remember(r) \/ Announce(r) \/ ReadLedger(r) \/ Replace(r) \/ Resume(r)
             \/ Reopened(r) \/ Chunk(r) \/ WriteChunk(r) \/ AddChunk(r)
      PROVE  Settled(d, b)'
  BY <1>2, FetchSettles, RememberSettles, AnnounceSettles, ReadLedgerSettles, ReplaceSettles,
     ResumeSettles, ReopenedSettles, ChunkSettles, AddChunkSettles
<1>3. ASSUME Complete(r) \/ Verify(r) \/ SetVerifying(r) \/ Verifying(r) \/ Hash(r) \/ Hashed(r)
             \/ Damaged(r) \/ Promote(r) \/ Intake(r) \/ Commit(r) \/ Admitted(r) \/ Refused(r)
      PROVE  Settled(d, b)'
  BY <1>3, CompleteSettles, VerifySettles, UpdatesSettle, HashSettles, HashedSettles,
     PromoteSettles, IntakeSettles, CommitSettles
<1>4. ASSUME Status(r) \/ Opened(r) \/ Resumed(r) \/ Missing(r) \/ Conflict(r) \/ Finish(r)
             \/ Stays(r)
      PROVE  Settled(d, b)'
  BY <1>4, EndsSettle
<1> QED
  BY <1>1, <1>2, <1>3, <1>4, NoTakeOver DEF Handler

\* What the phone does.
LEMMA PhoneSettles ==
  ASSUME NEW d, NEW b, Scene(d, b), NEW r \in Requests, Phone(r)
  PROVE  Settled(d, b)'
<1>1. ASSUME NEW op \in Asks, NEW u \in Uploads, NEW c, Ask(r, op, u, c)
      PROVE  Settled(d, b)'
  BY <1>1, AskSettles
<1>2. ASSUME NEW e \in Devices
      PROVE  ~Pair(r, e)
  BY DEF Pair, Scene, Settled, PhoneOf
<1> QED
  BY <1>1, <1>2, HangUpSettles DEF Phone, Asks

\* What the computer does on its own, when nothing goes wrong.
LEMMA ComputerSettles ==
  ASSUME NEW d, NEW b, Scene(d, b), Calm', Computer
  PROVE  Settled(d, b)'
<1>1. ~WriteFails
  BY FaultIsMet DEF WriteFails, Calm, Scene
<1>2. ASSUME NEW e \in Devices
      PROVE  ~Revoke(e) /\ ~DiscardRevoked(e)
  BY FaultIsMet DEF Revoke, DiscardRevoked, Calm, Scene, Settled, PhoneOf
<1>3. ASSUME NEW c \in Contents, NEW k \in Chunks, StrayWrite(c, k)
      PROVE  Settled(d, b)'
  <2>1. reqs' = reqs /\ UNCHANGED <<mem, line, store, verified>>
    BY <1>3 DEF StrayWrite, memory
  <2> QED
    BY <2>1, NothingSettles DEF Twin
<1> QED
  BY <1>1, <1>2, <1>3, WrittenSettles, DeleteMeetingSettles, RestartSettles DEF Computer

\* While no write is lost and no device revoked, the receipt of the one phone
\* stays settled.
LEMMA NextSettles ==
  ASSUME Core, NEW d, NEW b, Known(b), Calm => Settled(d, b), [Next]_vars
  PROVE  (Calm => Settled(d, b))'
<1> SUFFICES ASSUME Calm'
             PROVE  Settled(d, b)'
  OBVIOUS
<1>1. Calm
  BY FaultsStay DEF Calm
<1>2. Scene(d, b)
  BY <1>1, NextIsCore, PhoneStays DEF Scene, Settled
<1>3. CASE UNCHANGED vars
  <2>1. reqs' = reqs /\ UNCHANGED <<mem, line, store, verified>>
    BY <1>3 DEF vars, memory, files
  <2> QED
    BY <1>2, <2>1, NothingSettles DEF Twin
<1>4. CASE Next
  BY <1>2, <1>4, HandlerSettles, PhoneSettles, ComputerSettles DEF Next
<1> QED
  BY <1>3, <1>4

\* A settled receipt is the store's once nothing is under way.
LEMMA SettledFollows ==
  ASSUME Core, NEW d, NEW b, Known(b), Calm => Settled(d, b)
  PROVE  StoreFollowsMemory
<1> SUFFICES ASSUME Quiet, mem # None, row # None, Settled(d, b)
             PROVE  Stored(row) \in {mem, [mem EXCEPT !.state = "complete"]}
  BY DEF StoreFollowsMemory, Calm
<1>1. line = << >> /\ ~Refusing
  BY DEF Quiet, InAdmission, At, Refusing
<1>2. row.chunks = mem.chunks /\ (Taken(b) \/ Stored(row) = mem)
  BY <1>1 DEF Settled, StoreAgrees
<1>3. /\ row \in Receipts /\ mem \in Receipts
      /\ row.dev = mem.dev /\ row.content = b /\ mem.content = b
  BY DEF Core, TypeOK, Known, Only, Of, Settled, OneDevice, From
<1>4. CASE Taken(b)
  <2>1. Stored(row) = [row EXCEPT !.state = "complete"]
    BY <1>3, <1>4 DEF Stored, Taken
  <2>2. [row EXCEPT !.state = "complete"] = [mem EXCEPT !.state = "complete"]
    BY <1>2, <1>3 DEF Receipts
  <2> QED
    BY <2>1, <2>2
<1> QED
  BY <1>2, <1>4

\* What every state has, of the one phone of its behaviour.
InStep ==
  Core /\ \E b \in {u[2] : u \in Uploads} \cup {None} : Known(b) /\ \E d : Calm => Settled(d, b)

\* One phone, with any number of requests at once, hang-ups, refused intakes,
\* deleted meetings, crashes and power losses: once the line is empty and no
\* admission runs, the store has the receipt memory holds, chunk for chunk, or
\* the ledger has the bytes.  The intake writes the row ahead of memory, with
\* the chunks the row had, because a row is there whenever no save is in line;
\* and memory learns of the admission before the request ends.
\* (engine/mod.rs `in_order`, engine/recording.rs, store/handover.rs)
THEOREM OnePhoneIsStored ==
  ASSUME OnePhone
  PROVE  Spec => []StoreFollowsMemory
<1>1. OneRecording
  BY DEF OnePhone, OneRecording
<1>2. Init => InStep
  BY <1>1, InitIsCore, InitIsKnown, InitIsSettled DEF InStep
<1>3. InStep /\ [Next]_vars => InStep'
  BY NextIsCore, NextIsKnown, NextSettles DEF InStep
<1>4. InStep => StoreFollowsMemory
  BY SettledFollows DEF InStep
<1> QED
  BY <1>2, <1>3, <1>4, PTL DEF Spec

=============================================================================
