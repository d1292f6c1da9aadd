------------------------------ MODULE LaneRings ------------------------------
(***************************************************************************)
(* The lock-free rings of steno-audio (realtime/ring.rs, rings.rs,         *)
(* wake.rs): one single-producer, single-consumer ring per lane, advanced  *)
(* together, between a realtime callback and the processing thread, and    *)
(* again, as FrameRelay, between that thread and the writer.               *)
(*                                                                         *)
(* A load of the other side's index may return an older value than the     *)
(* last stored: Acquire and Release order the samples before the index,    *)
(* and a location's values are seen in order, never that the newest one is *)
(* seen.  `seenRead` and `seenWrite` are the newest each side has seen.    *)
(* Samples are named by the number of the frame they belong to.  Indices   *)
(* are 64 bits wide and never wrap in a recording.                         *)
(***************************************************************************)
EXTENDS Naturals

CONSTANTS
  NumLanes,   \* rings advanced together
  Capacity,   \* samples a ring holds
  FrameSize,  \* samples the consumer reads at a time
  MaxBlock,   \* the longest callback
  MaxOffered  \* frames offered in a behaviour: a bound

ASSUME RingAssumption ==
  /\ NumLanes \in Nat \ {0} /\ Capacity \in Nat \ {0}
  /\ FrameSize \in Nat \ {0} /\ MaxBlock \in Nat \ {0}
  /\ MaxOffered \in Nat

Lanes == 1..NumLanes
Slots == 0..(Capacity - 1)

VARIABLES
  cells,      \* storage, per lane
  writeIndex, readIndex,
  dropped,    \* samples refused, per lane
  offered,    \* frames of every callback begun
  seenRead,   \* the newest read index the producer loaded, per lane
  seenWrite,  \* the newest write index the consumer loaded, per lane
  p,          \* the producer: where in its callback, its frames and its lane
  c,          \* the consumer: where in its loop, its lane, the least it found queued
  got,        \* the lane buffers a frame is read into
  pending, parked  \* Wake

producer == <<p, seenRead, offered, dropped, writeIndex, cells>>
consumer == <<c, seenWrite, readIndex, got>>
vars == <<producer, consumer, pending, parked>>

PPcs == {"idle", "room", "reserve", "copy", "publish", "signal", "notify"}
CPcs == {"wait", "park", "recheck", "sleep", "woken", "take", "avail", "read", "copy",
         "advance", "frame"}

TypeOK ==
  /\ cells \in [Lanes -> [Slots -> Nat]]
  /\ writeIndex \in [Lanes -> Nat] /\ readIndex \in [Lanes -> Nat]
  /\ dropped \in [Lanes -> Nat] /\ offered \in Nat
  /\ seenRead \in [Lanes -> Nat] /\ seenWrite \in [Lanes -> Nat]
  /\ p \in [pc : PPcs, count : Nat, lane : Lanes]
  /\ c \in [pc : CPcs, lane : Lanes, least : Nat]
  /\ got \in [Lanes -> [1..FrameSize -> Nat]]
  /\ pending \in Nat /\ parked \in BOOLEAN

Init ==
  /\ cells = [l \in Lanes |-> [s \in Slots |-> 0]]
  /\ writeIndex = [l \in Lanes |-> 0] /\ readIndex = [l \in Lanes |-> 0]
  /\ dropped = [l \in Lanes |-> 0] /\ offered = 0
  /\ seenRead = [l \in Lanes |-> 0] /\ seenWrite = [l \in Lanes |-> 0]
  /\ p = [pc |-> "idle", count |-> 0, lane |-> 1]
  /\ c = [pc |-> "wait", lane |-> 1, least |-> 0]
  /\ got = [l \in Lanes |-> [i \in 1..FrameSize |-> 0]]
  /\ pending = 0 /\ parked = FALSE

\* position & mask.
Slot(position) == position % Capacity

-----------------------------------------------------------------------------
(* The producer: begin_callback, a write per lane, end_callback.            *)

PAt(pc) == p.pc = pc
PGoes(pc) == p' = [p EXCEPT !.pc = pc]

\* After lane `p.lane`: the next lane from `pc`, or `done` after the last.
PNext(pc, done) ==
  p' = IF p.lane < NumLanes THEN [p EXCEPT !.pc = pc, !.lane = @ + 1]
                            ELSE [p EXCEPT !.pc = done, !.lane = 1]

\* Mutant of Room: one sample more than fits.
RoomOffByOne(l) == Capacity - (writeIndex[l] - seenRead'[l]) + 1 >= p.count

\* has_room on one lane, from an index loaded now.
Room(l) == Capacity - (writeIndex[l] - seenRead'[l]) >= p.count

LoadRead(l) == \E i \in seenRead[l]..readIndex[l] : seenRead' = [seenRead EXCEPT ![l] = i]

ProducerOthers == UNCHANGED <<consumer, pending, parked>>

BeginCallback(n) ==
  /\ PAt("idle")
  /\ offered + n <= MaxOffered
  /\ offered' = offered + n
  /\ p' = [pc |-> "room", count |-> n, lane |-> 1]
  /\ ProducerOthers /\ UNCHANGED <<seenRead, dropped, writeIndex, cells>>

\* LaneRings::reserve asks every lane before any is written; one without
\* room drops the block on all of them.
RoomOnLane ==
  /\ PAt("room")
  /\ LoadRead(p.lane)
  /\ \/ Room(p.lane) /\ PNext("room", "reserve") /\ UNCHANGED dropped
     \/ /\ ~Room(p.lane)
        /\ dropped' = [l \in Lanes |-> dropped[l] + p.count]
        /\ p' = [p EXCEPT !.pc = "idle", !.lane = 1]
  /\ ProducerOthers /\ UNCHANGED <<offered, writeIndex, cells>>

\* LaneRingBuffer::reserve asks again; without room the lane is left out.
ReserveLane ==
  /\ PAt("reserve")
  /\ LoadRead(p.lane)
  /\ \/ Room(p.lane) /\ PGoes("copy") /\ UNCHANGED dropped
     \/ /\ ~Room(p.lane)
        /\ dropped' = [dropped EXCEPT ![p.lane] = @ + p.count]
        /\ PNext("reserve", "signal")
  /\ ProducerOthers /\ UNCHANGED <<offered, writeIndex, cells>>

\* The frame a position of the block is for.
FrameAt(position) == (offered - p.count) + (position - writeIndex[p.lane]) + 1

CopyLane ==
  LET l == p.lane IN
  /\ PAt("copy")
  /\ cells' = [cells EXCEPT ![l] = [s \in Slots |->
       IF \E i \in 0..(p.count - 1) : Slot(writeIndex[l] + i) = s
       THEN FrameAt(CHOOSE q \in writeIndex[l]..(writeIndex[l] + p.count - 1) : Slot(q) = s)
       ELSE @[s]]]
  /\ PGoes("publish")
  /\ ProducerOthers /\ UNCHANGED <<offered, seenRead, dropped, writeIndex>>

PublishLane ==
  LET l == p.lane IN
  /\ PAt("publish")
  /\ writeIndex' = [writeIndex EXCEPT ![l] = @ + p.count]
  /\ PNext("reserve", "signal")
  /\ ProducerOthers /\ UNCHANGED <<offered, seenRead, dropped, cells>>

\* Wake::signal: the count first, then a look at `parked`.
Signal ==
  /\ PAt("signal")
  /\ pending' = pending + 1
  /\ PGoes("notify")
  /\ UNCHANGED <<consumer, parked, offered, seenRead, dropped, writeIndex, cells>>

Notify ==
  /\ PAt("notify")
  /\ c' = IF parked /\ c.pc = "sleep" THEN [c EXCEPT !.pc = "woken"] ELSE c
  /\ PGoes("idle")
  /\ UNCHANGED <<seenWrite, readIndex, got, pending, parked, offered, seenRead, dropped,
                 writeIndex, cells>>

Callback == RoomOnLane \/ ReserveLane \/ CopyLane \/ PublishLane \/ Signal \/ Notify

Producer == Callback \/ \E n \in 1..MaxBlock : BeginCallback(n)

-----------------------------------------------------------------------------
(* The consumer: Wake::wait, then `drain` by whole frames.                  *)

CAt(pc) == c.pc = pc
CGoes(pc) == c' = [c EXCEPT !.pc = pc]
CNext(pc, done) ==
  c' = IF c.lane < NumLanes THEN [c EXCEPT !.pc = pc, !.lane = @ + 1]
                            ELSE [c EXCEPT !.pc = done, !.lane = 1]

Rings == UNCHANGED <<producer, seenWrite, readIndex, got>>

\* try_take before parking.
TryTake ==
  /\ CAt("wait")
  /\ \/ pending > 0 /\ pending' = pending - 1 /\ CGoes("avail")
     \/ pending = 0 /\ UNCHANGED pending /\ CGoes("park")
  /\ Rings /\ UNCHANGED parked

Park ==
  /\ CAt("park")
  /\ parked' = TRUE
  /\ CGoes("recheck")
  /\ Rings /\ UNCHANGED pending

\* A signal between the first look and `parked` is not missed; one between
\* this look and the wait is, for one timeout.
Recheck ==
  /\ CAt("recheck")
  /\ \/ pending > 0 /\ pending' = pending - 1 /\ parked' = FALSE /\ CGoes("avail")
     \/ pending = 0 /\ UNCHANGED <<pending, parked>> /\ CGoes("sleep")
  /\ Rings

\* Mutant of WaitTimesOut: the wait starts over.
WaitStartsOver == CAt("sleep") /\ UNCHANGED vars

WaitTimesOut ==
  /\ CAt("sleep")
  /\ CGoes("woken")
  /\ Rings /\ UNCHANGED <<pending, parked>>

Unpark ==
  /\ CAt("woken")
  /\ parked' = FALSE
  /\ CGoes("take")
  /\ Rings /\ UNCHANGED pending

\* The rings are drained whether a wake was taken or the wait timed out.
TakeAfterWait ==
  /\ CAt("take")
  /\ pending' = IF pending > 0 THEN pending - 1 ELSE pending
  /\ CGoes("avail")
  /\ Rings /\ UNCHANGED parked

LoadWrite(l) == \E i \in seenWrite[l]..writeIndex[l] : seenWrite' = [seenWrite EXCEPT ![l] = i]

ConsumerOthers == UNCHANGED <<producer, pending, parked>>

\* available_to_read: the least over the lanes.
Available ==
  LET l == c.lane
      queued == seenWrite'[l] - readIndex[l]
      least == IF l = 1 \/ queued < c.least THEN queued ELSE c.least
  IN
  /\ CAt("avail")
  /\ LoadWrite(l)
  /\ c' = IF l < NumLanes THEN [c EXCEPT !.lane = l + 1, !.least = least]
          ELSE [pc |-> IF least >= FrameSize THEN "read" ELSE "wait", lane |-> 1, least |-> least]
  /\ ConsumerOthers /\ UNCHANGED <<readIndex, got>>

\* `read` asks again; refused, the lane's buffer keeps its last frame.
ReadLane ==
  /\ CAt("read")
  /\ LoadWrite(c.lane)
  /\ \/ seenWrite'[c.lane] - readIndex[c.lane] >= FrameSize /\ CGoes("copy")
     \/ seenWrite'[c.lane] - readIndex[c.lane] < FrameSize /\ CNext("read", "frame")
  /\ ConsumerOthers /\ UNCHANGED <<readIndex, got>>

TakeLane ==
  LET l == c.lane IN
  /\ CAt("copy")
  /\ got' = [got EXCEPT ![l] = [i \in 1..FrameSize |-> cells[l][Slot(readIndex[l] + i - 1)]]]
  /\ CGoes("advance")
  /\ ConsumerOthers /\ UNCHANGED <<seenWrite, readIndex>>

\* Mutant of AdvanceLane: past all that was found queued.
AdvanceLaneByQueued ==
  LET l == c.lane IN
  /\ CAt("advance")
  /\ readIndex' = [readIndex EXCEPT ![l] = @ + c.least]
  /\ CNext("read", "frame")
  /\ ConsumerOthers /\ UNCHANGED <<seenWrite, got>>

AdvanceLane ==
  LET l == c.lane IN
  /\ CAt("advance")
  /\ readIndex' = [readIndex EXCEPT ![l] = @ + FrameSize]
  /\ CNext("read", "frame")
  /\ ConsumerOthers /\ UNCHANGED <<seenWrite, got>>

\* process_frame works on the lane buffers.
FrameDone ==
  /\ CAt("frame")
  /\ c' = [pc |-> "avail", lane |-> 1, least |-> 0]
  /\ ConsumerOthers /\ UNCHANGED <<seenWrite, readIndex, got>>

Consumer ==
  \/ TryTake \/ Park \/ Recheck \/ WaitTimesOut \/ Unpark \/ TakeAfterWait
  \/ Available \/ ReadLane \/ TakeLane \/ AdvanceLane \/ FrameDone

Next == Producer \/ Consumer

Spec == Init /\ [][Next]_vars

\* A callback returns, the processing thread is scheduled, and a stored
\* index does not stay invisible to a thread that loads it again and again.
Fairness ==
  /\ WF_vars(Callback) /\ WF_vars(Consumer)
  /\ \A l \in Lanes : SF_vars(Available /\ c.lane = l /\ seenWrite'[l] = writeIndex[l])

FairSpec == Spec /\ Fairness

-----------------------------------------------------------------------------
(* Properties.                                                              *)

Producing(l) == p.pc \in {"copy", "publish"} /\ p.lane = l
Consuming(l) == c.pc \in {"copy", "advance"} /\ c.lane = l

\* The positions the producer writes and those the consumer reads never
\* meet in a slot, though each side may know only an old index of the other:
\* the safety model of ring.rs.
NoSampleIsShared ==
  \A l \in Lanes : Producing(l) /\ Consuming(l) =>
    \A i \in 0..(p.count - 1), k \in 0..(FrameSize - 1) :
      Slot(writeIndex[l] + i) # Slot(readIndex[l] + k)

\* A frame handed to processing has the same, consecutive audio on every
\* lane: no lane is ahead of another by a block refused on it alone
\* (LaneRings, "a block is reserved on every ring or refused on every ring").
FramesAreAligned ==
  c.pc = "frame" =>
    /\ \A l \in Lanes : got[l] = got[1]
    /\ \A i \in 1..(FrameSize - 1) : got[1][i] < got[1][i + 1]

\* Between callbacks every frame offered was written on every lane or
\* counted as dropped on every lane.
EveryFrameCounts ==
  p.pc = "idle" => \A l \in Lanes : writeIndex[l] + dropped[l] = offered

Last == NumLanes

\* The frames queued: those on the last lane, which is written and read
\* last.  They are taken when they are copied out of it.
Taken == readIndex[Last] + (IF c.pc = "advance" /\ c.lane = Last THEN FrameSize ELSE 0)
Queued == {cells[Last][Slot(i)] : i \in Taken..(writeIndex[Last] - 1)}

\* A block is offered, to the abstract queue, when it is decided.
Decided ==
  IF p.pc \in {"room", "reserve", "copy", "publish"} THEN offered - p.count ELSE offered

Queue == INSTANCE FrameQueue WITH
  BatchSize <- FrameSize, queue <- Queued, taken <- got[Last], offered <- Decided,
  dropped <- dropped[Last]

\* The rings are a FIFO of whole blocks that loses only what it counts.
IsFrameQueue == Queue!Spec

\* Whole frames do not stay in the rings, also when a wake was missed: the
\* wait's timeout is enough (wake.rs, "a wake that still slips past costs
\* one timeout, while the rings hold the frames").
FramesAreRead ==
  (\A l \in Lanes : writeIndex[l] - readIndex[l] >= FrameSize) ~>
    (\E l \in Lanes : writeIndex[l] - readIndex[l] < FrameSize)
=============================================================================
