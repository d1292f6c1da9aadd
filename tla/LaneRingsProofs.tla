--------------------------- MODULE LaneRingsProofs ---------------------------
(***************************************************************************)
(* Proofs about LaneRings, for every number of lanes, ring size, frame and *)
(* callback: types, the safety model of ring.rs, aligned frames, counted   *)
(* drops, and that the rings implement FrameQueue.                         *)
(***************************************************************************)
EXTENDS LaneRings, Integers, TLAPS

-----------------------------------------------------------------------------
(* The inductive invariant.                                                 *)

\* The lanes written in the callback under way.
Wrote(l) == p.pc \in {"reserve", "copy", "publish"} /\ l < p.lane

\* The lanes the block is still to be written on, once room was found there.
Granted(l) ==
  \/ p.pc = "room" /\ l < p.lane
  \/ p.pc \in {"reserve", "copy", "publish"} /\ l >= p.lane

\* Every frame offered is written or dropped; the lanes drop together.
Counts ==
  /\ p.pc # "idle" => 1 <= p.count /\ p.count <= offered
  /\ p.pc \in {"idle", "signal", "notify"} => p.lane = 1
  /\ \A l \in Lanes :
       /\ dropped[l] = dropped[Last]
       /\ writeIndex[l] + dropped[l] =
            IF p.pc \in {"room", "reserve", "copy", "publish"} /\ ~Wrote(l)
            THEN offered - p.count ELSE offered

\* Each index as the other side last saw it, and within the ring.
Ahead ==
  \A l \in Lanes :
    /\ seenRead[l] <= readIndex[l] /\ readIndex[l] <= seenWrite[l]
    /\ seenWrite[l] <= writeIndex[l] /\ writeIndex[l] <= seenRead[l] + Capacity
    /\ Granted(l) => writeIndex[l] + p.count <= seenRead[l] + Capacity

Reading == c.pc \in {"read", "copy", "advance"}

\* The consumer takes a frame from every lane, one after the other.
Together ==
  /\ ~Reading /\ c.pc # "avail" => c.lane = 1
  /\ \A l \in Lanes : readIndex[l] = IF Reading /\ l < c.lane THEN readIndex[Last] + FrameSize
                                                            ELSE readIndex[Last]

\* What was found queued is queued.
Found ==
  \A l \in Lanes :
    /\ c.pc = "avail" /\ l < c.lane => c.least <= seenWrite[l] - readIndex[l]
    /\ Reading /\ l >= c.lane => FrameSize <= seenWrite[l] - readIndex[l]

Indices == TypeOK /\ Counts /\ Ahead /\ Together /\ Found

-----------------------------------------------------------------------------
(* Arithmetic of the slots.                                                 *)

\* A position has one slot, and its turn of the ring.
LEMMA SlotIs ==
  \A q \in Nat : /\ Slot(q) \in Slots
                 /\ q = (Capacity * (q \div Capacity)) + Slot(q)
                 /\ q \div Capacity \in Nat
  BY RingAssumption DEF Slot, Slots

\* Two positions in one slot are a ring apart.
LEMMA Apart ==
  ASSUME NEW q \in Nat, NEW r \in Nat, q < r, Slot(q) = Slot(r)
  PROVE  r - q >= Capacity
<1>1. /\ q = (Capacity * (q \div Capacity)) + Slot(q)
      /\ r = (Capacity * (r \div Capacity)) + Slot(r)
      /\ q \div Capacity \in Nat /\ r \div Capacity \in Nat /\ Slot(q) \in Nat
  <2>1. Slot(q) \in Nat
    BY SlotIs, RingAssumption DEF Slots
  <2> QED
    BY <2>1, SlotIs
<1> DEFINE a == q \div Capacity
           b == r \div Capacity
<1>2. a \in Nat /\ b \in Nat /\ Capacity * a < Capacity * b
      /\ r - q = (Capacity * b) - (Capacity * a)
  BY <1>1, RingAssumption
<1> HIDE DEF a, b
<1>3. \A x, y \in Nat : x <= y => Capacity * x <= Capacity * y
  BY RingAssumption
<1>4. b >= a + 1
  BY <1>2, <1>3, RingAssumption
<1>5. Capacity * b >= Capacity * (a + 1)
  BY <1>4, <1>3, <1>2
<1>6. Capacity * (a + 1) = (Capacity * a) + Capacity
  BY <1>2, RingAssumption
<1> QED
  BY <1>2, <1>5, <1>6, RingAssumption

-----------------------------------------------------------------------------
(* The indices and the counts.                                              *)

\* The lane after one that is not the last is a lane.
LEMMA LaneSteps ==
  \A l \in Lanes : /\ l \in Nat /\ l <= Last /\ 1 \in Lanes /\ ~(l = Last /\ l < Last)
                   /\ l < Last => l + 1 \in Lanes
  BY RingAssumption DEF Last, Lanes

\* The lanes are those from the first to the last.
LEMMA LastIsLane == Last \in Lanes /\ 1 \in Lanes /\ \A l \in Lanes : 1 <= l /\ l <= Last
  BY RingAssumption DEF Last, Lanes

\* The indices are right at the start.
LEMMA IndicesInit == Init => Indices
<1> SUFFICES ASSUME Init PROVE Indices
  OBVIOUS
<1>1. TypeOK
  BY RingAssumption, LastIsLane DEF Init, TypeOK, PPcs, CPcs, Slots
<1>2. Counts /\ Ahead /\ Together /\ Found
  BY RingAssumption, LastIsLane
  DEF Init, Counts, Ahead, Together, Found, Wrote, Granted, Reading
<1> QED
  BY <1>1, <1>2 DEF Indices

\* Where the producer is after lane p.lane.
LEMMA PNextIs ==
  ASSUME TypeOK, NEW pc \in PPcs, NEW done \in PPcs, PNext(pc, done)
  PROVE  /\ p' \in [pc : PPcs, count : Nat, lane : Lanes] /\ p'.count = p.count
         /\ p.lane < Last => p'.pc = pc /\ p'.lane = p.lane + 1
         /\ p.lane = Last => p'.pc = done /\ p'.lane = 1
         /\ p.lane <= Last
<1>1. p \in [pc : PPcs, count : Nat, lane : Lanes] /\ 1 \in Lanes /\ p.lane <= Last
      /\ (p.lane < Last => p.lane + 1 \in Lanes) /\ ~(p.lane = Last /\ p.lane < Last)
  <2>1. p \in [pc : PPcs, count : Nat, lane : Lanes] /\ p.lane \in Lanes
    BY DEF TypeOK
  <2> QED
    BY <2>1, LaneSteps
<1>2. CASE p.lane < Last
  BY <1>1, <1>2 DEF PNext, Last
<1>3. CASE ~(p.lane < Last)
  BY <1>1, <1>3 DEF PNext, Last
<1> QED
  BY <1>2, <1>3

\* The consumer goes on to the next lane, or past the last one.
LEMMA CNextIs ==
  ASSUME TypeOK, NEW pc \in CPcs, NEW done \in CPcs, CNext(pc, done)
  PROVE  /\ c' \in [pc : CPcs, lane : Lanes, least : Nat] /\ c'.least = c.least
         /\ c.lane < Last => c'.pc = pc /\ c'.lane = c.lane + 1
         /\ c.lane = Last => c'.pc = done /\ c'.lane = 1
         /\ c.lane <= Last
<1>1. c \in [pc : CPcs, lane : Lanes, least : Nat] /\ 1 \in Lanes /\ c.lane <= Last
      /\ (c.lane < Last => c.lane + 1 \in Lanes) /\ ~(c.lane = Last /\ c.lane < Last)
  <2>1. c \in [pc : CPcs, lane : Lanes, least : Nat] /\ c.lane \in Lanes
    BY DEF TypeOK
  <2> QED
    BY <2>1, LaneSteps
<1>2. CASE c.lane < Last
  BY <1>1, <1>2 DEF CNext, Last
<1>3. CASE ~(c.lane < Last)
  BY <1>1, <1>3 DEF CNext, Last
<1> QED
  BY <1>2, <1>3

\* The producer goes on at its lane.
LEMMA PGoesIs ==
  ASSUME TypeOK, NEW pc \in PPcs, PGoes(pc)
  PROVE  /\ p' \in [pc : PPcs, count : Nat, lane : Lanes]
         /\ p'.count = p.count /\ p'.pc = pc /\ p'.lane = p.lane
  BY DEF TypeOK, PGoes

\* The consumer goes on at its lane.
LEMMA CGoesIs ==
  ASSUME TypeOK, NEW pc \in CPcs, CGoes(pc)
  PROVE  /\ c' \in [pc : CPcs, lane : Lanes, least : Nat]
         /\ c'.least = c.least /\ c'.pc = pc /\ c'.lane = c.lane
  BY DEF TypeOK, CGoes

\* A block's positions have slots of their own.
LEMMA CopyEffect ==
  ASSUME Indices, CopyLane
  PROVE  LET l == p.lane IN
         /\ \A q \in writeIndex[l]..(writeIndex[l] + p.count - 1) :
              cells'[l][Slot(q)] = (offered - p.count) + (q - writeIndex[l]) + 1
         /\ \A q \in readIndex[l]..(writeIndex[l] - 1) : cells'[l][Slot(q)] = cells[l][Slot(q)]
         /\ \A k \in Lanes \ {l} : cells'[k] = cells[k]
         /\ cells' \in [Lanes -> [Slots -> Nat]]
<1> DEFINE l == p.lane
           W == writeIndex[l]
           n == p.count
           Hit(s) == \E i \in 0..(n - 1) : Slot(W + i) = s
           Pos(s) == CHOOSE q \in W..(W + n - 1) : Slot(q) = s
<1>1. /\ l \in Lanes /\ W \in Nat /\ n \in Nat /\ offered \in Nat /\ 1 <= n /\ n <= offered
      /\ readIndex[l] \in Nat /\ readIndex[l] <= W /\ W + n <= readIndex[l] + Capacity
      /\ cells \in [Lanes -> [Slots -> Nat]]
  <2>1. p.pc = "copy"
    BY DEF CopyLane, PAt
  <2>2. l \in Lanes /\ W \in Nat /\ n \in Nat /\ offered \in Nat /\ 1 <= n /\ n <= offered
        /\ readIndex[l] \in Nat /\ cells \in [Lanes -> [Slots -> Nat]] /\ seenRead[l] \in Nat
        /\ seenWrite[l] \in Nat
    BY <2>1 DEF Indices, TypeOK, Counts
  <2>3. Granted(l)
    BY <2>1, <2>2 DEF Granted, Lanes
  <2> QED
    BY <2>2, <2>3, RingAssumption DEF Indices, Ahead
<1>2. cells' = [cells EXCEPT ![l] = [s \in Slots |-> IF Hit(s) THEN FrameAt(Pos(s)) ELSE cells[l][s]]]
  BY <1>1 DEF CopyLane
<1>3. \A s \in Slots : cells'[l][s] = IF Hit(s) THEN FrameAt(Pos(s)) ELSE cells[l][s]
  BY <1>1, <1>2
<1>4. \A s : Hit(s) => Pos(s) \in W..(W + n - 1) /\ Slot(Pos(s)) = s
  <2> SUFFICES ASSUME NEW s, Hit(s) PROVE Pos(s) \in W..(W + n - 1) /\ Slot(Pos(s)) = s
    OBVIOUS
  <2>1. PICK i \in 0..(n - 1) : Slot(W + i) = s
    OBVIOUS
  <2>2. W + i \in W..(W + n - 1)
    BY <1>1
  <2> QED
    BY <2>1, <2>2
<1>5. \A q \in W..(W + n - 1) : Hit(Slot(q)) /\ Pos(Slot(q)) = q
  <2> SUFFICES ASSUME NEW q \in W..(W + n - 1) PROVE Hit(Slot(q)) /\ Pos(Slot(q)) = q
    OBVIOUS
  <2>1. q - W \in 0..(n - 1) /\ W + (q - W) = q
    BY <1>1
  <2>2. Hit(Slot(q))
    BY <2>1
  <2>3. Pos(Slot(q)) \in W..(W + n - 1) /\ Slot(Pos(Slot(q))) = Slot(q)
    BY <2>2, <1>4
  <2> DEFINE r == Pos(Slot(q))
  <2>4. r \in Nat /\ q \in Nat /\ r <= W + n - 1 /\ W <= r /\ Slot(r) = Slot(q)
    BY <1>1, <2>3
  <2> HIDE DEF r
  <2>5. ~(r < q) /\ ~(q < r)
    BY <1>1, <2>4, Apart, RingAssumption
  <2>6. r = q
    BY <2>4, <2>5
  <2> QED
    BY <2>2, <2>6 DEF r
<1>6. \A q \in W..(W + n - 1) : cells'[l][Slot(q)] = (offered - n) + (q - W) + 1
  <2> SUFFICES ASSUME NEW q \in W..(W + n - 1)
               PROVE  cells'[l][Slot(q)] = (offered - n) + (q - W) + 1
    OBVIOUS
  <2>1. q \in Nat
    BY <1>1
  <2>2. Slot(q) \in Slots /\ Hit(Slot(q)) /\ Pos(Slot(q)) = q
    BY <2>1, <1>5, SlotIs
  <2> HIDE DEF Hit, Pos
  <2>3. cells'[l][Slot(q)] = FrameAt(q)
    BY <1>3, <2>2
  <2> QED
    BY <2>3 DEF FrameAt
<1>7. \A q \in readIndex[l]..(W - 1) : cells'[l][Slot(q)] = cells[l][Slot(q)]
  <2> SUFFICES ASSUME NEW q \in readIndex[l]..(W - 1) PROVE ~Hit(Slot(q))
    <3> SUFFICES ASSUME NEW q \in readIndex[l]..(W - 1)
                 PROVE  Slot(q) \in Slots
      BY <1>3
    <3>1. q \in Nat
      BY <1>1
    <3> QED
      BY <3>1, SlotIs
  <2> SUFFICES ASSUME NEW i \in 0..(n - 1), Slot(W + i) = Slot(q) PROVE FALSE
    OBVIOUS
  <2> QED
    BY <1>1, Apart, RingAssumption
<1>8. \A k \in Lanes \ {l} : cells'[k] = cells[k]
  BY <1>1, <1>2
<1>9. cells' \in [Lanes -> [Slots -> Nat]]
  <2>1. \A s \in Slots : (IF Hit(s) THEN FrameAt(Pos(s)) ELSE cells[l][s]) \in Nat
    BY <1>1, <1>4 DEF FrameAt
  <2> QED
    BY <1>1, <1>2, <2>1
<1> QED
  BY <1>6, <1>7, <1>8, <1>9

\* What the indices' definitions say of one lane, with the types.
LEMMA LaneTypes ==
  ASSUME TypeOK, NEW l \in Lanes
  PROVE  /\ writeIndex[l] \in Nat /\ readIndex[l] \in Nat /\ dropped[l] \in Nat
         /\ seenRead[l] \in Nat /\ seenWrite[l] \in Nat
         /\ p.count \in Nat /\ p.lane \in Lanes /\ p.lane \in Nat /\ p.pc \in PPcs
         /\ c.lane \in Lanes /\ c.lane \in Nat /\ c.least \in Nat /\ c.pc \in CPcs
         /\ offered \in Nat /\ l \in Nat
  BY LaneSteps DEF TypeOK

\* A load of a read index sees one between the last seen and the newest.
LEMMA LoadReadIs ==
  ASSUME Indices, NEW l \in Lanes, LoadRead(l)
  PROVE  /\ seenRead' \in [Lanes -> Nat]
         /\ seenRead[l] <= seenRead'[l] /\ seenRead'[l] <= readIndex[l]
         /\ \A k \in Lanes \ {l} : seenRead'[k] = seenRead[k]
<1>1. PICK i \in seenRead[l]..readIndex[l] : seenRead' = [seenRead EXCEPT ![l] = i]
  BY DEF LoadRead
<1>2. i \in Nat /\ seenRead[l] <= i /\ i <= readIndex[l] /\ seenRead \in [Lanes -> Nat]
  <2>1. seenRead[l] \in Nat /\ readIndex[l] \in Nat /\ seenRead \in [Lanes -> Nat]
    BY DEF Indices, TypeOK
  <2> QED
    BY <1>1, <2>1
<1> QED
  BY <1>1, <1>2

\* A load of a write index sees one between the last seen and the newest.
LEMMA LoadWriteIs ==
  ASSUME Indices, NEW l \in Lanes, LoadWrite(l)
  PROVE  /\ seenWrite' \in [Lanes -> Nat]
         /\ seenWrite[l] <= seenWrite'[l] /\ seenWrite'[l] <= writeIndex[l]
         /\ \A k \in Lanes \ {l} : seenWrite'[k] = seenWrite[k]
<1>1. PICK i \in seenWrite[l]..writeIndex[l] : seenWrite' = [seenWrite EXCEPT ![l] = i]
  BY DEF LoadWrite
<1>2. i \in Nat /\ seenWrite[l] <= i /\ i <= writeIndex[l] /\ seenWrite \in [Lanes -> Nat]
  <2>1. seenWrite[l] \in Nat /\ writeIndex[l] \in Nat /\ seenWrite \in [Lanes -> Nat]
    BY DEF Indices, TypeOK
  <2> QED
    BY <1>1, <2>1
<1> QED
  BY <1>1, <1>2

\* A callback that begins keeps the indices right.
LEMMA BeginIndices == ASSUME Indices, NEW n \in 1..MaxBlock, BeginCallback(n) PROVE Indices'
<1> USE DEF BeginCallback, ProducerOthers, consumer
<1>1. n \in Nat /\ 1 <= n /\ offered \in Nat /\ offered' = offered + n
      /\ p' = [pc |-> "room", count |-> n, lane |-> 1] /\ p.pc = "idle" /\ "room" \in PPcs
  BY RingAssumption DEF Indices, TypeOK, PAt, PPcs
<1>2. TypeOK'
  <2>1. p' \in [pc : PPcs, count : Nat, lane : Lanes]
    BY <1>1, LastIsLane
  <2>2. offered' \in Nat
    BY <1>1
  <2> QED
    BY <2>1, <2>2 DEF Indices, TypeOK
<1>3. Counts' /\ Ahead'
  BY <1>1, LastIsLane, LaneTypes, RingAssumption DEF Indices, Counts, Ahead, Wrote, Granted
<1>4. Together' /\ Found'
  BY DEF Indices, Together, Found, Reading
<1> QED
  BY <1>2, <1>3, <1>4 DEF Indices

\* The look for room keeps the indices right.
LEMMA RoomIndices == ASSUME Indices, RoomOnLane PROVE Indices'
<1> USE DEF ProducerOthers, consumer
<1>1. p.pc = "room" /\ LoadRead(p.lane) /\ p.lane \in Lanes /\ p.count \in Nat
      /\ {"idle", "room", "reserve"} \subseteq PPcs
  BY LaneTypes, LastIsLane DEF RoomOnLane, PAt, Indices, PPcs
<1>2. UNCHANGED <<consumer, pending, parked, offered, writeIndex, cells>>
  BY DEF RoomOnLane
<1>3. /\ seenRead' \in [Lanes -> Nat]
      /\ \A l \in Lanes : seenRead[l] <= seenRead'[l] /\ seenRead'[l] <= readIndex[l]
  BY <1>1, LoadReadIs, LaneTypes DEF Indices, Ahead
<1>4. Together' /\ Found'
  BY <1>2 DEF Indices, Together, Found, Reading
<1>5. CASE Room(p.lane) /\ PNext("room", "reserve") /\ UNCHANGED dropped
  <2>1. /\ p' \in [pc : PPcs, count : Nat, lane : Lanes] /\ p'.count = p.count
        /\ p.lane < Last => p'.pc = "room" /\ p'.lane = p.lane + 1
        /\ p.lane = Last => p'.pc = "reserve" /\ p'.lane = 1
        /\ p.lane <= Last
    BY <1>1, <1>5, PNextIs DEF Indices
  <2>2. TypeOK'
    BY <1>2, <1>3, <1>5, <2>1 DEF Indices, TypeOK
  <2>3. Counts'
    BY <1>1, <1>2, <1>5, <2>1, LastIsLane, LaneTypes DEF Indices, Counts, Wrote
  <2>4. Ahead'
    <3> SUFFICES ASSUME NEW l \in Lanes
                 PROVE  /\ writeIndex[l] <= seenRead'[l] + Capacity
                        /\ Granted(l)' => writeIndex[l] + p.count <= seenRead'[l] + Capacity
      BY <1>2, <1>3, <2>1 DEF Indices, Ahead
    <3>1. Granted(l)' => Granted(l) \/ l = p.lane
      BY <1>1, <2>1, LastIsLane, LaneTypes DEF Granted, Indices
    <3>2. writeIndex[p.lane] + p.count <= seenRead'[p.lane] + Capacity
      BY <1>1, <1>3, <1>5, LaneTypes, RingAssumption DEF Room, Indices
    <3> QED
      BY <1>1, <1>3, <3>1, <3>2, LaneTypes, RingAssumption DEF Indices, Ahead
  <2> QED
    BY <1>4, <2>2, <2>3, <2>4 DEF Indices
<1>6. CASE /\ ~Room(p.lane)
           /\ dropped' = [l \in Lanes |-> dropped[l] + p.count]
           /\ p' = [p EXCEPT !.pc = "idle", !.lane = 1]
  <2>1. TypeOK' /\ p'.count = p.count /\ p'.pc = "idle" /\ p'.lane = 1
    <3>1. p \in [pc : PPcs, count : Nat, lane : Lanes] /\ dropped \in [Lanes -> Nat]
      BY DEF Indices, TypeOK
    <3>2. p' \in [pc : PPcs, count : Nat, lane : Lanes] /\ p'.count = p.count
          /\ p'.pc = "idle" /\ p'.lane = 1
      BY <1>1, <1>6, <3>1, LastIsLane
    <3>3. dropped' \in [Lanes -> Nat]
      BY <1>1, <1>6, <3>1
    <3> QED
      BY <1>2, <1>3, <3>2, <3>3 DEF Indices, TypeOK
  <2>2. Counts'
    <3> SUFFICES ASSUME NEW l \in Lanes
                 PROVE  /\ dropped'[l] = dropped'[Last]
                        /\ writeIndex[l] + dropped'[l] = offered
      BY <1>2, <2>1 DEF Counts
    <3>1. dropped'[l] = dropped[l] + p.count /\ dropped'[Last] = dropped[Last] + p.count
      BY <1>6, LastIsLane
    <3>2. /\ dropped[l] = dropped[Last] /\ writeIndex[l] + dropped[l] = offered - p.count
          /\ p.count <= offered
      BY <1>1 DEF Indices, Counts, Wrote
    <3> QED
      BY <3>1, <3>2, LaneTypes, LastIsLane DEF Indices
  <2>3. Ahead'
    BY <1>2, <1>3, <2>1, LaneTypes, RingAssumption DEF Indices, Ahead, Granted
  <2> QED
    BY <1>4, <2>1, <2>2, <2>3 DEF Indices
<1> QED
  BY <1>5, <1>6 DEF RoomOnLane

\* The room found is still there when the lane is written: `reserve`, asking
\* again, never leaves a lane out.
LEMMA ReserveIs ==
  ASSUME Indices, ReserveLane
  PROVE  /\ p.pc = "reserve" /\ Granted(p.lane) /\ LoadRead(p.lane)
         /\ PGoes("copy") /\ UNCHANGED <<dropped, consumer, pending, parked, offered,
                                         writeIndex, cells>>
<1>1. p.pc = "reserve" /\ LoadRead(p.lane) /\ p.lane \in Lanes
      /\ UNCHANGED <<consumer, pending, parked, offered, writeIndex, cells>>
  BY LaneTypes, LastIsLane DEF ReserveLane, PAt, Indices, ProducerOthers
<1>2. Granted(p.lane)
  BY <1>1, LaneTypes DEF Granted, Indices
<1>3. Room(p.lane)
  <2>1. seenRead[p.lane] <= seenRead'[p.lane] /\ seenRead' \in [Lanes -> Nat]
    BY <1>1, LoadReadIs
  <2>2. writeIndex[p.lane] + p.count <= seenRead[p.lane] + Capacity
    BY <1>1, <1>2 DEF Indices, Ahead
  <2>3. seenRead[p.lane] \in Nat /\ seenRead'[p.lane] \in Nat /\ writeIndex[p.lane] \in Nat
        /\ p.count \in Nat
    BY <1>1, <2>1, LaneTypes DEF Indices
  <2> QED
    BY <2>1, <2>2, <2>3, RingAssumption DEF Room
<1> QED
  BY <1>1, <1>2, <1>3 DEF ReserveLane

\* A reservation keeps the indices right: the lane has the room.
LEMMA ReserveIndices == ASSUME Indices, ReserveLane PROVE Indices'
<1> USE DEF consumer
<1>1. p.pc = "reserve" /\ Granted(p.lane) /\ LoadRead(p.lane) /\ p.lane \in Lanes
      /\ p' \in [pc : PPcs, count : Nat, lane : Lanes]
      /\ p'.count = p.count /\ p'.pc = "copy" /\ p'.lane = p.lane
      /\ UNCHANGED <<dropped, consumer, pending, parked, offered, writeIndex, cells>>
  <2>1. "copy" \in PPcs /\ p.lane \in Lanes
    BY LaneTypes, LastIsLane DEF Indices, PPcs
  <2> QED
    BY <2>1, ReserveIs, PGoesIs DEF Indices
<1>2. /\ seenRead' \in [Lanes -> Nat]
      /\ \A l \in Lanes : seenRead[l] <= seenRead'[l] /\ seenRead'[l] <= readIndex[l]
  BY <1>1, LoadReadIs, LaneTypes DEF Indices, Ahead
<1>3. TypeOK' /\ Counts' /\ Together' /\ Found'
  BY <1>1, <1>2 DEF Indices, TypeOK, Counts, Wrote, Together, Found, Reading
<1>4. Ahead'
  <2> SUFFICES ASSUME NEW l \in Lanes
               PROVE  /\ writeIndex[l] <= seenRead'[l] + Capacity
                      /\ Granted(l)' => writeIndex[l] + p.count <= seenRead'[l] + Capacity
    BY <1>1, <1>2 DEF Indices, Ahead
  <2>1. Granted(l)' => Granted(l)
    BY <1>1 DEF Granted
  <2>2. seenRead'[l] \in Nat
    BY <1>2
  <2> QED
    BY <1>2, <2>1, <2>2, LaneTypes, RingAssumption DEF Indices, Ahead
<1> QED
  BY <1>3, <1>4 DEF Indices

\* A copy keeps the indices right.
LEMMA CopyIndices == ASSUME Indices, CopyLane PROVE Indices'
<1> USE DEF consumer
<1>1. p.pc = "copy" /\ p' \in [pc : PPcs, count : Nat, lane : Lanes]
      /\ p'.count = p.count /\ p'.pc = "publish" /\ p'.lane = p.lane
      /\ UNCHANGED <<consumer, pending, parked, offered, seenRead, dropped, writeIndex>>
  <2>1. "publish" \in PPcs
    BY DEF PPcs
  <2> QED
    BY <2>1, PGoesIs DEF Indices, CopyLane, PAt, ProducerOthers
<1>2. cells' \in [Lanes -> [Slots -> Nat]]
  BY CopyEffect
<1> QED
  BY <1>1, <1>2
  DEF Indices, TypeOK, Counts, Wrote, Granted, Ahead, Together, Found, Reading

\* What publishing a lane moves.
LEMMA PublishIs ==
  ASSUME Indices, PublishLane
  PROVE  /\ p.pc = "publish" /\ p.lane \in Lanes
         /\ p' \in [pc : PPcs, count : Nat, lane : Lanes] /\ p'.count = p.count
         /\ p.lane < Last => p'.pc = "reserve" /\ p'.lane = p.lane + 1
         /\ p.lane = Last => p'.pc = "signal" /\ p'.lane = 1
         /\ p.lane <= Last
         /\ writeIndex' \in [Lanes -> Nat]
         /\ writeIndex'[p.lane] = writeIndex[p.lane] + p.count
         /\ \A k \in Lanes \ {p.lane} : writeIndex'[k] = writeIndex[k]
         /\ UNCHANGED <<consumer, pending, parked, offered, seenRead, dropped, cells>>
<1>1. {"reserve", "signal"} \subseteq PPcs /\ p.lane \in Lanes /\ p.count \in Nat
      /\ writeIndex \in [Lanes -> Nat]
  BY LaneTypes, LastIsLane DEF PPcs, Indices, TypeOK
<1> QED
  BY <1>1, PNextIs DEF Indices, PublishLane, PAt, ProducerOthers

\* Publishing a lane keeps the indices right.
LEMMA PublishIndices == ASSUME Indices, PublishLane PROVE Indices'
<1> USE DEF consumer
<1>0. /\ p.lane \in Nat /\ p.lane \in Lanes /\ p.count \in Nat /\ offered \in Nat
      /\ (p.lane < Last \/ p.lane = Last) /\ p.pc = "publish"
      /\ p.lane < Last => p'.pc = "reserve" /\ p'.lane = p.lane + 1
      /\ p.lane = Last => p'.pc = "signal" /\ p'.lane = 1
      /\ p'.count = p.count /\ offered' = offered
  <2>1. p.lane \in Lanes /\ p.lane \in Nat /\ Last \in Nat /\ p.count \in Nat /\ offered \in Nat
    BY PublishIs, LaneTypes, LaneSteps, LastIsLane DEF Indices
  <2> QED
    BY <2>1, PublishIs
<1>1. TypeOK'
  BY PublishIs DEF Indices, TypeOK
<1>2. Together'
  BY PublishIs DEF Indices, Together, Reading
<1>3. Found'
  BY PublishIs DEF Indices, Found, Reading
<1>4. Counts'
  <2>1. /\ p'.pc # "idle" => 1 <= p'.count /\ p'.count <= offered'
        /\ p'.pc \in {"idle", "signal", "notify"} => p'.lane = 1
    BY <1>0 DEF Indices, Counts
  <2> SUFFICES ASSUME NEW l \in Lanes
               PROVE  writeIndex'[l] + dropped[l] =
                        IF p'.pc \in {"room", "reserve", "copy", "publish"} /\ ~Wrote(l)'
                        THEN offered - p.count ELSE offered
    BY <2>1, PublishIs DEF Counts, Indices
  <2>2. p.count <= offered /\ p.pc = "publish"
    BY PublishIs DEF Indices, Counts
  <2>3. CASE l = p.lane
    <3>1. writeIndex[l] + dropped[l] = offered - p.count
      BY <2>2, <2>3, LaneTypes DEF Indices, Counts, Wrote
    <3>2. writeIndex'[l] + dropped[l] = offered
      BY <2>2, <2>3, <3>1, PublishIs, LaneTypes DEF Indices
    <3>3. p'.pc = "reserve" => Wrote(l)'
      BY <2>3, <1>0 DEF Wrote
    <3> QED
      BY <1>0, <3>2, <3>3
  <2>4. CASE l # p.lane
    <3>1. writeIndex'[l] = writeIndex[l]
      BY <2>4, PublishIs
    <3>2. writeIndex[l] + dropped[l] = IF ~Wrote(l) THEN offered - p.count ELSE offered
      BY <2>2 DEF Indices, Counts
    <3>3. p.lane < Last => (Wrote(l)' <=> Wrote(l))
      BY <2>2, <2>4, PublishIs, LaneTypes, LaneSteps DEF Indices, Wrote
    <3>4. p.lane = Last => Wrote(l)
      BY <2>2, <2>4, LaneTypes, LaneSteps, LastIsLane DEF Indices, Wrote
    <3> QED
      BY <3>1, <3>2, <3>3, <3>4, PublishIs, LaneTypes, LastIsLane DEF Indices, Last
  <2> QED
    BY <2>3, <2>4
<1>5. Ahead'
  <2> SUFFICES ASSUME NEW l \in Lanes
               PROVE  /\ seenWrite[l] <= writeIndex'[l] /\ writeIndex'[l] <= seenRead[l] + Capacity
                      /\ Granted(l)' => writeIndex'[l] + p.count <= seenRead[l] + Capacity
    BY PublishIs DEF Indices, Ahead
  <2>1. Granted(l)' => Granted(l) /\ l # p.lane
    <3>1. l \in Nat /\ l <= Last /\ Last \in Nat
      BY LaneSteps, LastIsLane
    <3> QED
      BY <1>0, <3>1 DEF Granted
  <2>2. CASE l = p.lane
    <3>1. Granted(l)
      BY <2>2, PublishIs, LaneTypes DEF Indices, Granted
    <3> QED
      BY <2>1, <2>2, <3>1, PublishIs, LaneTypes DEF Indices, Ahead
  <2>3. CASE l # p.lane
    BY <2>1, <2>3, PublishIs DEF Indices, Ahead
  <2> QED
    BY <2>2, <2>3
<1> QED
  BY <1>1, <1>2, <1>3, <1>4, <1>5 DEF Indices

\* The signal keeps the indices right.
LEMMA SignalIndices == ASSUME Indices, Signal \/ Notify PROVE Indices'
<1> USE DEF consumer
<1>1. p.pc \in {"signal", "notify"} /\ p' \in [pc : PPcs, count : Nat, lane : Lanes]
      /\ p'.count = p.count /\ p'.pc \in {"notify", "idle"} /\ p'.lane = p.lane
      /\ UNCHANGED <<offered, seenRead, dropped, writeIndex, cells, seenWrite, readIndex, got, parked>>
  <2>1. {"notify", "idle"} \subseteq PPcs
    BY DEF PPcs
  <2> QED
    BY <2>1, PGoesIs DEF Indices, Signal, Notify, PAt
<1>2. c' \in [pc : CPcs, lane : Lanes, least : Nat] /\ pending' \in Nat
      /\ c'.lane = c.lane /\ (c'.pc = c.pc \/ (c.pc = "sleep" /\ c'.pc = "woken"))
      /\ c'.least = c.least
  <2>1. c \in [pc : CPcs, lane : Lanes, least : Nat] /\ pending \in Nat /\ "woken" \in CPcs
    BY DEF Indices, TypeOK, CPcs
  <2>2. CASE Signal
    BY <2>1, <2>2 DEF Signal
  <2>3. CASE Notify
    BY <2>1, <2>3 DEF Notify
  <2> QED
    BY <2>2, <2>3
<1>3. TypeOK' /\ Counts' /\ Ahead'
  BY <1>1, <1>2 DEF Indices, TypeOK, Counts, Wrote, Ahead, Granted
<1>4. Together' /\ Found'
  BY <1>1, <1>2 DEF Indices, Together, Found, Reading
<1> QED
  BY <1>3, <1>4 DEF Indices

\* The wait moves no index.
WakeStep ==
  TryTake \/ Park \/ Recheck \/ WaitTimesOut \/ Unpark \/ TakeAfterWait \/ FrameDone

\* What a step of the wait moves.
LEMMA WakeIs ==
  ASSUME Indices, WakeStep
  PROVE  /\ c.pc \in {"wait", "park", "recheck", "sleep", "woken", "take", "frame"}
         /\ c' \in [pc : CPcs, lane : Lanes, least : Nat] /\ c'.lane = 1
         /\ c'.pc \in {"park", "recheck", "sleep", "woken", "take", "avail"}
         /\ pending' \in Nat /\ parked' \in BOOLEAN
         /\ UNCHANGED <<producer, seenWrite, readIndex, got>>
<1>1. c.pc \in {"wait", "park", "recheck", "sleep", "woken", "take", "frame"}
      /\ UNCHANGED <<producer, seenWrite, readIndex, got>>
  BY DEF WakeStep, TryTake, Park, Recheck, WaitTimesOut, Unpark, TakeAfterWait, FrameDone, CAt,
         Rings, ConsumerOthers
<1>2. pending' \in Nat /\ parked' \in BOOLEAN
  <2>1. pending \in Nat /\ parked \in BOOLEAN
    BY DEF Indices, TypeOK
  <2>2. /\ pending' = pending \/ (pending > 0 /\ pending' = pending - 1)
        /\ parked' \in {parked, TRUE, FALSE}
    BY DEF WakeStep, TryTake, Park, Recheck, WaitTimesOut, Unpark, TakeAfterWait, FrameDone,
           Rings, ConsumerOthers
  <2>3. pending' \in Nat
    BY <2>1, <2>2
  <2>4. parked' \in BOOLEAN
    BY <2>1, <2>2, Zenon
  <2> QED
    BY <2>3, <2>4
<1>3. c.lane = 1
  BY <1>1 DEF Indices, Together, Reading
<1>4. CASE FrameDone
  BY <1>1, <1>2, <1>4, LastIsLane DEF FrameDone, CPcs
<1>5. CASE ~FrameDone
  <2>1. \E pc \in {"park", "recheck", "sleep", "woken", "take", "avail"} : CGoes(pc)
    BY <1>5 DEF WakeStep, TryTake, Park, Recheck, WaitTimesOut, Unpark, TakeAfterWait
  <2>2. {"park", "recheck", "sleep", "woken", "take", "avail"} \subseteq CPcs
    BY DEF CPcs
  <2> QED
    BY <1>1, <1>2, <1>3, <2>1, <2>2, CGoesIs DEF Indices
<1> QED
  BY <1>4, <1>5

\* A step of the wait keeps the indices right.
LEMMA WakeIndices == ASSUME Indices, WakeStep PROVE Indices'
<1> USE DEF producer
<1>1. TypeOK' /\ Counts' /\ Ahead'
  BY WakeIs DEF Indices, TypeOK, Counts, Wrote, Ahead, Granted
<1>2. Together' /\ Found'
  BY WakeIs, LaneSteps DEF Indices, Together, Found, Reading, Lanes
<1> QED
  BY <1>1, <1>2 DEF Indices

\* The look for a frame keeps the indices right.
LEMMA AvailableIndices == ASSUME Indices, Available PROVE Indices'
<1> USE DEF producer, ConsumerOthers
<1> DEFINE l == c.lane
           queued == seenWrite'[l] - readIndex[l]
           least == IF l = 1 \/ queued < c.least THEN queued ELSE c.least
<1>1. c.pc = "avail" /\ LoadWrite(l) /\ l \in Lanes /\ l \in Nat /\ l <= Last /\ Last \in Nat
      /\ UNCHANGED <<producer, readIndex, got, pending, parked>>
  BY LaneTypes, LastIsLane, LaneSteps DEF Available, CAt, Indices
<1>2. /\ seenWrite' \in [Lanes -> Nat]
      /\ \A k \in Lanes : /\ seenWrite[k] <= seenWrite'[k] /\ seenWrite'[k] <= writeIndex[k]
                          /\ readIndex[k] <= seenWrite'[k]
  <2>1. seenWrite' \in [Lanes -> Nat]
        /\ \A k \in Lanes : seenWrite[k] <= seenWrite'[k] /\ seenWrite'[k] <= writeIndex[k]
    BY <1>1, LoadWriteIs, LaneTypes DEF Indices, Ahead
  <2> QED
    BY <2>1, LaneTypes DEF Indices, Ahead
<1>3. queued \in Nat /\ least \in Nat /\ least <= queued /\ (l # 1 => least <= c.least)
  BY <1>1, <1>2, LaneTypes DEF Indices
<1>4. c' = IF l < NumLanes THEN [c EXCEPT !.lane = l + 1, !.least = least]
           ELSE [pc |-> IF least >= FrameSize THEN "read" ELSE "wait", lane |-> 1, least |-> least]
  BY DEF Available
<1> HIDE DEF least
<1>5. CASE l < Last
  <2>1. c' \in [pc : CPcs, lane : Lanes, least : Nat]
        /\ c'.pc = "avail" /\ c'.lane = l + 1 /\ c'.least = least
    <3>1. c \in [pc : CPcs, lane : Lanes, least : Nat] /\ l + 1 \in Lanes
      BY <1>1, <1>5, LaneSteps DEF Indices, TypeOK
    <3> QED
      BY <1>1, <1>3, <1>4, <1>5, <3>1 DEF Last
  <2>2. TypeOK' /\ Counts' /\ Ahead'
    BY <1>1, <1>2, <2>1 DEF Indices, TypeOK, Counts, Wrote, Ahead, Granted
  <2>3. Together'
    BY <1>1, <2>1 DEF Indices, Together, Reading
  <2>4. Found'
    <3> SUFFICES ASSUME NEW k \in Lanes, k < l + 1 PROVE least <= seenWrite'[k] - readIndex[k]
      BY <1>1, <2>1 DEF Found, Reading
    <3>1. k = l \/ (k < l /\ l # 1)
      BY <1>1, LaneSteps, LastIsLane
    <3>2. k < l => c.least <= seenWrite[k] - readIndex[k]
      BY <1>1 DEF Indices, Found
    <3> QED
      BY <1>1, <1>2, <1>3, <3>1, <3>2, LaneTypes DEF Indices
  <2> QED
    BY <2>2, <2>3, <2>4 DEF Indices
<1>6. CASE l = Last
  <2>1. c' \in [pc : CPcs, lane : Lanes, least : Nat]
        /\ c'.pc \in {"read", "wait"} /\ c'.lane = 1 /\ c'.least = least
        /\ (c'.pc = "read" => FrameSize <= least)
    <3>1. {"read", "wait"} \subseteq CPcs /\ ~(l < NumLanes) /\ 1 \in Lanes
      BY <1>1, <1>6, LastIsLane DEF CPcs, Last
    <3> QED
      BY <1>3, <1>4, <3>1, RingAssumption
  <2>2. TypeOK' /\ Counts' /\ Ahead'
    BY <1>1, <1>2, <2>1 DEF Indices, TypeOK, Counts, Wrote, Ahead, Granted
  <2>3. Together'
    BY <1>1, <2>1, LastIsLane DEF Indices, Together, Reading
  <2>4. Found'
    <3> SUFFICES ASSUME NEW k \in Lanes, FrameSize <= least
                 PROVE FrameSize <= seenWrite'[k] - readIndex[k]
      BY <1>1, <2>1 DEF Found, Reading
    <3>1. k = l \/ (k < l /\ l # 1)
      BY <1>1, <1>6, LaneSteps, LastIsLane
    <3>2. k < l => c.least <= seenWrite[k] - readIndex[k]
      BY <1>1 DEF Indices, Found
    <3> QED
      BY <1>1, <1>2, <1>3, <3>1, <3>2, LaneTypes, RingAssumption DEF Indices
  <2> QED
    BY <2>2, <2>3, <2>4 DEF Indices
<1> QED
  BY <1>1, <1>5, <1>6

\* What was found is still queued when the lane is read: no lane is refused.
LEMMA ReadIs ==
  ASSUME Indices, ReadLane
  PROVE  /\ c.pc = "read" /\ LoadWrite(c.lane) /\ c.lane \in Lanes
         /\ c' \in [pc : CPcs, lane : Lanes, least : Nat] /\ c'.pc = "copy"
         /\ c'.lane = c.lane /\ c'.least = c.least
         /\ UNCHANGED <<producer, readIndex, got, pending, parked>>
<1>1. c.pc = "read" /\ LoadWrite(c.lane) /\ c.lane \in Lanes /\ c.lane \in Nat /\ "copy" \in CPcs
      /\ UNCHANGED <<producer, readIndex, got, pending, parked>>
  BY LaneTypes, LastIsLane DEF ReadLane, CAt, Indices, ConsumerOthers, CPcs
<1>2. seenWrite'[c.lane] - readIndex[c.lane] >= FrameSize
  <2>1. seenWrite[c.lane] <= seenWrite'[c.lane] /\ seenWrite' \in [Lanes -> Nat]
    BY <1>1, LoadWriteIs
  <2>2. FrameSize <= seenWrite[c.lane] - readIndex[c.lane]
    BY <1>1 DEF Indices, Found, Reading
  <2>3. seenWrite'[c.lane] \in Nat
    BY <1>1, <2>1
  <2> QED
    BY <1>1, <2>1, <2>2, <2>3, LaneTypes, RingAssumption DEF Indices
<1>3. CGoes("copy")
  <2>1. ~(seenWrite'[c.lane] - readIndex[c.lane] < FrameSize)
    <3>1. seenWrite' \in [Lanes -> Nat]
      BY <1>1, LoadWriteIs
    <3> QED
      BY <1>1, <1>2, <3>1, LaneTypes, RingAssumption DEF Indices
  <2> QED
    BY <2>1 DEF ReadLane
<1> QED
  BY <1>1, <1>3, CGoesIs DEF Indices

\* Finding the frame's slots keeps the indices right.
LEMMA ReadIndices == ASSUME Indices, ReadLane PROVE Indices'
<1> USE DEF producer
<1>1. /\ seenWrite' \in [Lanes -> Nat]
      /\ \A k \in Lanes : seenWrite[k] <= seenWrite'[k] /\ seenWrite'[k] <= writeIndex[k]
  BY ReadIs, LoadWriteIs, LaneTypes DEF Indices, Ahead
<1>2. TypeOK' /\ Counts' /\ Together'
  BY ReadIs, <1>1 DEF Indices, TypeOK, Counts, Wrote, Together, Reading
<1>3. \A k \in Lanes : seenWrite'[k] \in Nat
  BY <1>1
<1>4. Ahead'
  <2> SUFFICES ASSUME NEW k \in Lanes
               PROVE readIndex[k] <= seenWrite'[k] /\ seenWrite'[k] <= writeIndex[k]
    BY ReadIs DEF Indices, Ahead, Granted
  <2> QED
    BY <1>1, <1>3, LaneTypes DEF Indices, Ahead
<1>5. Found'
  <2> SUFFICES ASSUME NEW k \in Lanes, k >= c.lane PROVE FrameSize <= seenWrite'[k] - readIndex[k]
    BY ReadIs DEF Found, Reading
  <2>1. FrameSize <= seenWrite[k] - readIndex[k]
    BY ReadIs DEF Indices, Found, Reading
  <2> QED
    BY <1>1, <1>3, <2>1, LaneTypes, RingAssumption DEF Indices
<1> QED
  BY <1>2, <1>4, <1>5 DEF Indices

\* What copying a lane out moves.
LEMMA TakeIs ==
  ASSUME Indices, TakeLane
  PROVE  /\ c.pc = "copy" /\ c.lane \in Lanes
         /\ c' \in [pc : CPcs, lane : Lanes, least : Nat] /\ c'.pc = "advance"
         /\ c'.lane = c.lane /\ c'.least = c.least
         /\ got' \in [Lanes -> [1..FrameSize -> Nat]]
         /\ \A k \in Lanes \ {c.lane} : got'[k] = got[k]
         /\ got'[c.lane] = [i \in 1..FrameSize |-> cells[c.lane][Slot(readIndex[c.lane] + i - 1)]]
         /\ UNCHANGED <<producer, seenWrite, readIndex, pending, parked>>
<1>1. c.pc = "copy" /\ c.lane \in Lanes /\ "advance" \in CPcs
      /\ UNCHANGED <<producer, seenWrite, readIndex, pending, parked>>
  BY LaneTypes, LastIsLane DEF TakeLane, CAt, Indices, ConsumerOthers, CPcs
<1>2. \A i \in 1..FrameSize : cells[c.lane][Slot(readIndex[c.lane] + i - 1)] \in Nat
  <2> SUFFICES ASSUME NEW i \in 1..FrameSize
               PROVE  cells[c.lane][Slot(readIndex[c.lane] + i - 1)] \in Nat
    OBVIOUS
  <2>1. readIndex[c.lane] + i - 1 \in Nat
    BY <1>1, LaneTypes, RingAssumption DEF Indices
  <2> QED
    BY <1>1, <2>1, SlotIs, SMTT(30) DEF Indices, TypeOK
<1>3. [i \in 1..FrameSize |-> cells[c.lane][Slot(readIndex[c.lane] + i - 1)]] \in [1..FrameSize -> Nat]
  BY <1>2
<1>4. got \in [Lanes -> [1..FrameSize -> Nat]]
  BY DEF Indices, TypeOK
<1> QED
  BY <1>1, <1>3, <1>4, CGoesIs DEF Indices, TakeLane

\* Copying a lane out keeps the indices right.
LEMMA TakeIndices == ASSUME Indices, TakeLane PROVE Indices'
<1> USE DEF producer
<1>1. TypeOK' /\ Counts' /\ Ahead'
  BY TakeIs DEF Indices, TypeOK, Counts, Wrote, Ahead, Granted
<1>2. Together' /\ Found'
  BY TakeIs DEF Indices, Together, Found, Reading
<1> QED
  BY <1>1, <1>2 DEF Indices

\* What advancing a lane moves.
LEMMA AdvanceIs ==
  ASSUME Indices, AdvanceLane
  PROVE  /\ c.pc = "advance" /\ c.lane \in Lanes /\ c.lane \in Nat
         /\ c' \in [pc : CPcs, lane : Lanes, least : Nat] /\ c'.least = c.least
         /\ c.lane < Last => c'.pc = "read" /\ c'.lane = c.lane + 1
         /\ c.lane = Last => c'.pc = "frame" /\ c'.lane = 1
         /\ (c.lane < Last \/ c.lane = Last) /\ Last \in Nat
         /\ readIndex' \in [Lanes -> Nat]
         /\ readIndex'[c.lane] = readIndex[c.lane] + FrameSize
         /\ \A k \in Lanes \ {c.lane} : readIndex'[k] = readIndex[k]
         /\ UNCHANGED <<producer, seenWrite, got, pending, parked>>
<1>1. c.pc = "advance" /\ c.lane \in Lanes /\ c.lane \in Nat /\ {"read", "frame"} \subseteq CPcs
      /\ (c.lane < Last \/ c.lane = Last) /\ Last \in Nat
      /\ UNCHANGED <<producer, seenWrite, got, pending, parked>>
  <2>1. c.lane \in Lanes /\ Last \in Nat /\ c.lane \in Nat /\ c.lane <= Last
    BY LaneTypes, LaneSteps, LastIsLane DEF Indices
  <2> QED
    BY <2>1 DEF AdvanceLane, CAt, ConsumerOthers, CPcs
<1>2. readIndex \in [Lanes -> Nat] /\ FrameSize \in Nat
  BY RingAssumption DEF Indices, TypeOK
<1>3. /\ c' \in [pc : CPcs, lane : Lanes, least : Nat] /\ c'.least = c.least
      /\ c.lane < Last => c'.pc = "read" /\ c'.lane = c.lane + 1
      /\ c.lane = Last => c'.pc = "frame" /\ c'.lane = 1
  BY <1>1, CNextIs DEF AdvanceLane, Indices
<1>4. readIndex' = [readIndex EXCEPT ![c.lane] = @ + FrameSize]
  BY DEF AdvanceLane
<1> QED
  BY <1>1, <1>2, <1>3, <1>4

\* Advancing a lane keeps the indices right: the frame was there.
LEMMA AdvanceIndices == ASSUME Indices, AdvanceLane PROVE Indices'
<1> USE DEF producer
<1>1. TypeOK' /\ Counts'
  BY AdvanceIs DEF Indices, TypeOK, Counts, Wrote
<1>2. FrameSize <= seenWrite[c.lane] - readIndex[c.lane]
  BY AdvanceIs DEF Indices, Found, Reading
<1>3. FrameSize \in Nat /\ Capacity \in Nat
  BY RingAssumption
<1>4. Ahead'
  <2> SUFFICES ASSUME NEW l \in Lanes
               PROVE  seenRead[l] <= readIndex'[l] /\ readIndex'[l] <= seenWrite[l]
    BY AdvanceIs DEF Indices, Ahead, Granted
  <2>1. seenRead[l] <= readIndex[l] /\ readIndex[l] <= seenWrite[l]
    BY DEF Indices, Ahead
  <2>2. CASE l = c.lane
    BY <1>2, <1>3, <2>1, <2>2, AdvanceIs, LaneTypes DEF Indices
  <2>3. CASE l # c.lane
    BY <2>1, <2>3, AdvanceIs
  <2> QED
    BY <2>2, <2>3
<1>5. Found'
  <2> SUFFICES ASSUME NEW k \in Lanes, Reading', k >= c'.lane
               PROVE  FrameSize <= seenWrite[k] - readIndex'[k]
    BY AdvanceIs DEF Found, Reading
  <2>1. c.lane < Last /\ k >= c.lane /\ k # c.lane
    BY AdvanceIs, LaneSteps DEF Reading
  <2> QED
    BY <2>1, AdvanceIs DEF Indices, Found, Reading
<1>6. Together'
  <2> DEFINE R == readIndex[Last]
  <2>1. \A l \in Lanes : readIndex[l] = IF l < c.lane THEN R + FrameSize ELSE R
    BY AdvanceIs DEF Indices, Together, Reading
  <2>2. ~Reading' /\ c'.pc # "avail" => c'.lane = 1
    BY AdvanceIs DEF Reading
  <2>3. R \in Nat /\ readIndex[c.lane] = R
    BY <2>1, AdvanceIs, LastIsLane, LaneTypes DEF Indices
  <2> SUFFICES ASSUME NEW l \in Lanes
               PROVE  readIndex'[l] = IF Reading' /\ l < c'.lane
                        THEN readIndex'[Last] + FrameSize ELSE readIndex'[Last]
    BY <2>2 DEF Together
  <2>4. l \in Nat /\ l <= Last /\ Last \in Lanes
    BY LaneSteps, LastIsLane
  <2>5. readIndex'[l] = IF l <= c.lane THEN R + FrameSize ELSE R
    <3>1. CASE l = c.lane
      BY <2>3, <2>4, <3>1, AdvanceIs
    <3>2. CASE l # c.lane
      BY <2>1, <2>4, <3>2, AdvanceIs
    <3> QED
      BY <3>1, <3>2
  <2>6. CASE c.lane < Last
    <3>1. readIndex'[Last] = R
      BY <2>1, <2>4, <2>6, AdvanceIs
    <3>2. Reading' /\ (l < c'.lane <=> l <= c.lane)
      BY <2>4, <2>6, AdvanceIs DEF Reading
    <3> QED
      BY <2>5, <3>1, <3>2
  <2>7. CASE c.lane = Last
    <3>1. readIndex'[Last] = R + FrameSize
      BY <2>3, <2>7, AdvanceIs
    <3>2. ~Reading' /\ l <= c.lane
      BY <2>4, <2>7, AdvanceIs DEF Reading
    <3> QED
      BY <2>5, <3>1, <3>2
  <2> QED
    BY <2>6, <2>7, AdvanceIs
<1> QED
  BY <1>1, <1>4, <1>5, <1>6 DEF Indices

\* Every step keeps the indices right.
LEMMA IndicesStep == ASSUME Indices, [Next]_vars PROVE Indices'
<1>1. CASE Next
  BY <1>1, BeginIndices, RoomIndices, ReserveIndices, CopyIndices, PublishIndices, SignalIndices,
     WakeIndices, AvailableIndices, ReadIndices, TakeIndices, AdvanceIndices
  DEF Next, Producer, Callback, Consumer, WakeStep
<1>2. CASE UNCHANGED vars
  BY <1>2 DEF vars, producer, consumer, Indices, TypeOK, Counts, Wrote, Ahead, Granted, Together,
              Found, Reading
<1> QED
  BY <1>1, <1>2

\* The rings keep their types: the counts of Wake and the indices do not go
\* below zero (ring.rs, wake.rs).
THEOREM TypeCorrect == Spec => []TypeOK
<1>1. Spec => []Indices
  BY IndicesInit, IndicesStep, PTL DEF Spec
<1>2. Indices => TypeOK
  BY DEF Indices
<1> QED
  BY <1>1, <1>2, PTL

\* The indices are always right.
LEMMA IndicesHold == Spec => []Indices
  BY IndicesInit, IndicesStep, PTL DEF Spec

\* Producer and consumer never touch one slot at a time, whatever old index
\* each still sees (the safety model of ring.rs).
THEOREM SamplesAreNotShared == Spec => []NoSampleIsShared
<1>1. Indices => NoSampleIsShared
  <2> SUFFICES ASSUME Indices, NEW l \in Lanes, Producing(l), Consuming(l),
                      NEW i \in 0..(p.count - 1), NEW k \in 0..(FrameSize - 1),
                      Slot(writeIndex[l] + i) = Slot(readIndex[l] + k)
               PROVE  FALSE
    BY DEF NoSampleIsShared
  <2>1. /\ writeIndex[l] \in Nat /\ readIndex[l] \in Nat /\ seenWrite[l] \in Nat
        /\ seenRead[l] \in Nat /\ p.count \in Nat /\ FrameSize \in Nat /\ Capacity \in Nat
    BY LaneTypes, RingAssumption DEF Indices
  <2>2. readIndex[l] + FrameSize <= writeIndex[l]
    <3>1. FrameSize <= seenWrite[l] - readIndex[l] /\ seenWrite[l] <= writeIndex[l]
      BY LaneSteps DEF Consuming, Indices, Found, Reading, Ahead
    <3> QED
      BY <2>1, <3>1
  <2>3. writeIndex[l] + p.count <= readIndex[l] + Capacity
    <3>1. Granted(l)
      BY LaneSteps DEF Producing, Granted
    <3>2. writeIndex[l] + p.count <= seenRead[l] + Capacity /\ seenRead[l] <= readIndex[l]
      BY <3>1 DEF Indices, Ahead
    <3> QED
      BY <2>1, <3>2
  <2> DEFINE r == writeIndex[l] + i
             q == readIndex[l] + k
  <2>4. r \in Nat /\ q \in Nat /\ q < r /\ r - q < Capacity /\ Slot(q) = Slot(r)
    BY <2>1, <2>2, <2>3
  <2> HIDE DEF r, q
  <2> QED
    BY <2>1, <2>4, Apart
<1> QED
  BY <1>1, IndicesHold, PTL

\* Every frame of a finished callback is queued on every lane or counted as
\* dropped on every lane (LaneRings::reserve).
THEOREM EveryFrameIsCounted == Spec => []EveryFrameCounts
<1>1. Indices => EveryFrameCounts
  BY DEF Indices, Counts, EveryFrameCounts
<1> QED
  BY <1>1, IndicesHold, PTL

-----------------------------------------------------------------------------
(* What the rings hold.                                                     *)

Window(l) == readIndex[l]..(writeIndex[l] - 1)

\* The first frame not yet decided for lane l.
Begun(l) ==
  IF p.pc \in {"room", "reserve", "copy", "publish"} /\ ~Wrote(l) THEN offered - p.count
  ELSE offered

\* A lane holds frames in the order offered.
Ordered ==
  \A l \in Lanes :
    /\ \A q, r \in Window(l) : q < r => cells[l][Slot(q)] < cells[l][Slot(r)]
    /\ \A q \in Window(l) : cells[l][Slot(q)] <= Begun(l)

\* A position holds the same frame on every lane.
Aligned ==
  \A l, k \in Lanes : \A q \in Window(l) \cap Window(k) : cells[l][Slot(q)] = cells[k][Slot(q)]

\* The block under way is in place on the lanes written so far.
Placed ==
  \A l \in Lanes :
    /\ Wrote(l) => \A q \in (writeIndex[l] - p.count)..(writeIndex[l] - 1) :
         q >= readIndex[l] => cells[l][Slot(q)] = offered - writeIndex[l] + q + 1
    /\ p.pc = "publish" /\ l = p.lane =>
         \A q \in writeIndex[l]..(writeIndex[l] + p.count - 1) :
           cells[l][Slot(q)] = (offered - p.count) - writeIndex[l] + q + 1

\* The lanes the frame under way was read from.
TookFrom(l) ==
  \/ Reading /\ l < c.lane
  \/ c.pc = "advance" /\ l = c.lane
  \/ c.pc = "frame"

\* The lane buffers hold one frame, which the other lanes still have.
Handed ==
  \A l \in Lanes : TookFrom(l) =>
    /\ \A i, j \in 1..FrameSize : i < j => got[l][i] < got[l][j]
    /\ \A k \in Lanes : TookFrom(k) => got[l] = got[k]
    /\ \A k \in Lanes : ~TookFrom(k) =>
         \A i \in 1..FrameSize : got[l][i] = cells[k][Slot(readIndex[k] + i - 1)]

Contents == Ordered /\ Aligned /\ Placed /\ Handed

IInv == Indices /\ Contents

\* The rings hold nothing at the start.
LEMMA ContentsInit == Init => Contents
<1> SUFFICES ASSUME Init PROVE Contents
  OBVIOUS
<1>1. \A l \in Lanes : Window(l) = {}
  BY DEF Init, Window
<1>2. \A l \in Lanes : ~Wrote(l) /\ ~TookFrom(l) /\ p.pc # "publish"
  BY DEF Init, Wrote, TookFrom, Reading
<1> QED
  BY <1>1, <1>2 DEF Contents, Ordered, Aligned, Placed, Handed

\* A step of the producer that writes no sample and no index.
LEMMA ProducerKeeps ==
  ASSUME Contents, UNCHANGED <<cells, writeIndex, readIndex, got, c>>,
         \A l \in Lanes : Begun(l) <= Begun(l)' /\ Begun(l) \in Int /\ Begun(l)' \in Int,
         \A l \in Lanes : \A q \in Window(l) : cells[l][Slot(q)] \in Nat,
         \A l \in Lanes : Wrote(l)' => Wrote(l) /\ p'.count = p.count /\ offered' = offered,
         p'.pc # "publish"
  PROVE  Contents'
<1>1. \A l \in Lanes : Window(l)' = Window(l)
  BY DEF Window
<1>2. Ordered'
  <2> SUFFICES ASSUME NEW l \in Lanes, NEW q \in Window(l) PROVE cells[l][Slot(q)] <= Begun(l)'
    BY <1>1 DEF Contents, Ordered
  <2>1. cells[l][Slot(q)] <= Begun(l) /\ cells[l][Slot(q)] \in Nat
    BY DEF Contents, Ordered
  <2> QED
    BY <2>1
<1>3. Aligned'
  BY <1>1 DEF Contents, Aligned
<1>4. Placed'
  BY DEF Contents, Placed
<1>5. Handed'
  BY DEF Contents, Handed, TookFrom, Reading
<1> QED
  BY <1>2, <1>3, <1>4, <1>5 DEF Contents

\* The samples of a window are frame numbers, and within what is begun.
LEMMA WindowTypes ==
  ASSUME Indices, NEW l \in Lanes, NEW q \in Window(l)
  PROVE  q \in Nat /\ readIndex[l] <= q /\ q < writeIndex[l] /\ Slot(q) \in Slots
         /\ cells[l][Slot(q)] \in Nat
<1>1. q \in Nat /\ readIndex[l] <= q /\ q < writeIndex[l]
  <2>1. readIndex[l] \in Nat /\ writeIndex[l] \in Nat
    BY LaneTypes DEF Indices
  <2> QED
    BY <2>1 DEF Window
<1>2. Slot(q) \in Slots
  BY <1>1, SlotIs
<1> QED
  BY <1>1, <1>2 DEF Indices, TypeOK

\* How far a lane has begun is a number, within what was offered.
LEMMA BegunTypes ==
  ASSUME Indices, NEW l \in Lanes
  PROVE  /\ Begun(l) \in Int /\ offered \in Nat /\ p.count \in Nat
         /\ Begun(l) <= offered /\ offered - p.count \in Int
         /\ p.pc # "idle" => 1 <= p.count /\ p.count <= offered
<1>1. offered \in Nat /\ p.count \in Nat /\ (p.pc # "idle" => 1 <= p.count /\ p.count <= offered)
  BY LaneTypes DEF Indices, Counts
<1> QED
  BY <1>1 DEF Begun

\* The producer's steps that write no cell keep the contents.
LEMMA QuietProducerContents ==
  ASSUME IInv, \/ \E n \in 1..MaxBlock : BeginCallback(n)
               \/ RoomOnLane \/ ReserveLane
  PROVE  Contents'
<1>1. Indices /\ Indices' /\ Contents
  BY BeginIndices, RoomIndices, ReserveIndices DEF IInv
<1>2. UNCHANGED <<cells, writeIndex, readIndex, got, c>>
  BY DEF BeginCallback, RoomOnLane, ReserveLane, ProducerOthers, consumer
<1>3. \A l \in Lanes : Begun(l) \in Int /\ Begun(l)' \in Int
  <2> SUFFICES ASSUME NEW l \in Lanes PROVE Begun(l) \in Int /\ Begun(l)' \in Int
    OBVIOUS
  <2>1. Begun(l) \in Int /\ offered \in Nat /\ p.count \in Nat
    BY <1>1, BegunTypes
  <2>2. offered' \in Nat /\ p'.count \in Nat
    BY <1>1 DEF Indices, TypeOK
  <2> QED
    BY <2>1, <2>2 DEF Begun
<1>4. \A l \in Lanes : \A q \in Window(l) : cells[l][Slot(q)] \in Nat
  BY <1>1, WindowTypes
<1>5. CASE \E n \in 1..MaxBlock : BeginCallback(n)
  <2>1. PICK n \in 1..MaxBlock : BeginCallback(n)
    BY <1>5
  <2>2. n \in Nat /\ offered \in Nat /\ offered' = offered + n /\ p'.count = n
        /\ p'.pc = "room" /\ p.pc = "idle" /\ offered' - p'.count = offered
    <3>1. n \in Nat /\ offered \in Nat /\ offered' = offered + n /\ p'.count = n
          /\ p'.pc = "room" /\ p.pc = "idle"
      BY <1>1, <2>1, RingAssumption DEF BeginCallback, PAt, Indices, TypeOK
    <3> QED
      BY <3>1
  <2>3. \A l \in Lanes : Begun(l) = offered /\ Begun(l)' = offered /\ ~Wrote(l)'
    BY <2>2 DEF Begun, Wrote
  <2> QED
    BY <1>1, <1>2, <1>3, <1>4, <2>2, <2>3, ProducerKeeps
<1>6. CASE RoomOnLane
  <2>1. p.pc = "room" /\ offered' = offered /\ p'.count = p.count
        /\ p'.pc \in {"room", "reserve", "idle"} /\ (p'.pc = "reserve" => p'.lane = 1)
    <3>1. p.lane \in Lanes /\ {"room", "reserve"} \subseteq PPcs /\ Last \in Nat /\ p.lane \in Nat
          /\ p \in [pc : PPcs, count : Nat, lane : Lanes]
      BY <1>1, LaneTypes, LastIsLane, LaneSteps DEF PPcs, Indices, TypeOK
    <3>2. p.pc = "room" /\ offered' = offered
          /\ (PNext("room", "reserve") \/ p' = [p EXCEPT !.pc = "idle", !.lane = 1])
      BY <1>6 DEF RoomOnLane, PAt
    <3>3. p.lane < Last \/ p.lane = Last
      BY <3>1, LaneSteps
    <3>4. CASE PNext("room", "reserve")
      BY <1>1, <3>1, <3>2, <3>3, <3>4, PNextIs DEF Indices
    <3>5. CASE p' = [p EXCEPT !.pc = "idle", !.lane = 1]
      BY <3>1, <3>2, <3>5
    <3> QED
      BY <3>2, <3>4, <3>5
  <2>2. \A l \in Lanes : ~Wrote(l) /\ ~Wrote(l)'
    BY <2>1, LaneSteps, LastIsLane DEF Wrote, Lanes
  <2>3. \A l \in Lanes : Begun(l) = offered - p.count /\ Begun(l)' \in {offered, offered - p.count}
    BY <2>1, <2>2 DEF Begun
  <2>4. offered - p.count <= offered /\ offered - p.count \in Int /\ offered \in Int
    BY <1>1, BegunTypes, LastIsLane
  <2> QED
    BY <1>1, <1>2, <1>3, <1>4, <2>1, <2>2, <2>3, <2>4, ProducerKeeps
<1>7. CASE ReserveLane
  <2>1. p.pc = "reserve" /\ offered' = offered /\ p'.count = p.count /\ p'.pc = "copy"
        /\ p'.lane = p.lane
    <3>1. p.lane \in Lanes /\ "copy" \in PPcs
      BY <1>1, LaneTypes, LastIsLane DEF PPcs, Indices
    <3> QED
      BY <1>1, <1>7, <3>1, ReserveIs, PGoesIs DEF Indices
  <2>2. \A l \in Lanes : (Wrote(l)' <=> Wrote(l)) /\ Begun(l)' = Begun(l)
    BY <2>1 DEF Wrote, Begun
  <2> QED
    BY <1>1, <1>2, <1>3, <1>4, <2>1, <2>2, ProducerKeeps
<1> QED
  BY <1>5, <1>6, <1>7

\* What the frame under way still needs is in the windows.
LEMMA StillQueued ==
  ASSUME Indices, NEW l \in Lanes, NEW k \in Lanes, TookFrom(l), ~TookFrom(k),
         NEW i \in 1..FrameSize
  PROVE  readIndex[k] + i - 1 \in Window(k)
<1>1. Reading /\ k >= c.lane
  BY LaneSteps, LaneTypes DEF TookFrom, Reading, Indices
<1>2. FrameSize <= seenWrite[k] - readIndex[k] /\ seenWrite[k] <= writeIndex[k]
  BY <1>1 DEF Indices, Found, Ahead
<1>3. readIndex[k] \in Nat /\ writeIndex[k] \in Nat /\ seenWrite[k] \in Nat /\ FrameSize \in Nat
  BY LaneTypes, RingAssumption DEF Indices
<1> QED
  BY <1>2, <1>3 DEF Window

\* A copy writes cells outside every window.
LEMMA CopyContents == ASSUME IInv, CopyLane PROVE Contents'
<1> USE DEF IInv
<1>1. p.pc = "copy" /\ p'.pc = "publish" /\ p'.lane = p.lane /\ p'.count = p.count
      /\ UNCHANGED <<c, readIndex, writeIndex, got, offered>>
  <2>1. "publish" \in PPcs
    BY DEF PPcs
  <2> QED
    BY <2>1, PGoesIs DEF Indices, CopyLane, PAt, ProducerOthers, consumer
<1>2. \A l \in Lanes : \A q \in Window(l) : cells'[l][Slot(q)] = cells[l][Slot(q)]
  BY CopyEffect DEF Window
<1>3. \A l \in Lanes : /\ Window(l)' = Window(l) /\ Begun(l)' = Begun(l)
                       /\ Wrote(l)' <=> Wrote(l)
                       /\ TookFrom(l)' <=> TookFrom(l)
  BY <1>1 DEF Window, Begun, Wrote, TookFrom, Reading
<1>4. Ordered' /\ Aligned'
  <2>1. Ordered'
    BY <1>2, <1>3 DEF Contents, Ordered
  <2>2. Aligned'
    BY <1>2, <1>3 DEF Contents, Aligned
  <2> QED
    BY <2>1, <2>2
<1>5. Placed'
  <2> SUFFICES ASSUME NEW l \in Lanes
               PROVE  /\ Wrote(l) => \A q \in (writeIndex[l] - p.count)..(writeIndex[l] - 1) :
                           q >= readIndex[l] =>
                             cells'[l][Slot(q)] = offered - writeIndex[l] + q + 1
                      /\ l = p.lane =>
                           \A q \in writeIndex[l]..(writeIndex[l] + p.count - 1) :
                             cells'[l][Slot(q)] = (offered - p.count) - writeIndex[l] + q + 1
    BY <1>1, <1>3 DEF Placed
  <2>1. l \in Nat /\ offered \in Nat /\ p.count \in Nat /\ writeIndex[l] \in Nat
    BY LaneTypes DEF Indices
  <2>2. ASSUME Wrote(l) PROVE cells'[l] = cells[l]
    BY <2>1, <2>2, CopyEffect DEF Wrote
  <2>3. ASSUME l = p.lane, NEW q \in writeIndex[l]..(writeIndex[l] + p.count - 1)
        PROVE  cells'[l][Slot(q)] = (offered - p.count) - writeIndex[l] + q + 1
    <3>1. cells'[l][Slot(q)] = (offered - p.count) + (q - writeIndex[l]) + 1
      BY <2>3, CopyEffect
    <3> QED
      BY <2>1, <2>3, <3>1
  <2> QED
    BY <2>2, <2>3 DEF Contents, Placed
<1>6. Handed'
  <2> SUFFICES ASSUME NEW l \in Lanes, TookFrom(l), NEW k \in Lanes, ~TookFrom(k),
                      NEW i \in 1..FrameSize
               PROVE  got[l][i] = cells'[k][Slot(readIndex[k] + i - 1)]
    BY <1>1, <1>3 DEF Contents, Handed
  <2>1. readIndex[k] + i - 1 \in Window(k)
    BY StillQueued
  <2> QED
    BY <1>2, <2>1 DEF Contents, Handed
<1> QED
  BY <1>4, <1>5, <1>6 DEF Contents

\* What publishing adds to the window was copied there.
LEMMA PublishContents == ASSUME IInv, PublishLane PROVE Contents'
<1> USE DEF IInv
<1>0. PICK m \in Lanes : m = p.lane
  BY PublishIs
<1> DEFINE W == writeIndex[m]
           n == p.count
<1>1. /\ p.pc = "publish" /\ m \in Lanes /\ m \in Nat /\ n \in Nat /\ W \in Nat /\ offered \in Nat
      /\ 1 <= n /\ n <= offered /\ readIndex[m] \in Nat /\ readIndex[m] <= W
      /\ (m < Last \/ m = Last) /\ Last \in Nat
      /\ p'.count = n /\ p'.pc \in {"reserve", "signal"}
      /\ (m < Last => p'.pc = "reserve" /\ p'.lane = m + 1)
      /\ (m = Last => p'.pc = "signal" /\ p'.lane = 1)
      /\ writeIndex'[m] = W + n
      /\ \A k \in Lanes \ {m} : writeIndex'[k] = writeIndex[k]
      /\ UNCHANGED <<c, readIndex, got, offered, cells>>
  <2>1. m \in Lanes /\ p.pc = "publish"
    BY <1>0, PublishIs
  <2>2. m \in Nat /\ n \in Nat /\ W \in Nat /\ offered \in Nat /\ readIndex[m] \in Nat
        /\ seenWrite[m] \in Nat
    BY <1>0, <2>1, LaneTypes DEF Indices
  <2>3. 1 <= n /\ n <= offered /\ readIndex[m] <= W
    BY <2>1, <2>2 DEF Indices, Counts, Ahead
  <2>4. (m < Last \/ m = Last) /\ Last \in Nat
    BY <2>1, LaneSteps, LastIsLane
  <2>5. /\ p'.count = n
        /\ m < Last => p'.pc = "reserve" /\ p'.lane = m + 1
        /\ m = Last => p'.pc = "signal" /\ p'.lane = 1
        /\ writeIndex'[m] = W + n
        /\ \A k \in Lanes \ {m} : writeIndex'[k] = writeIndex[k]
        /\ UNCHANGED <<c, readIndex, got, offered, cells>>
    BY <1>0, PublishIs DEF consumer
  <2> QED
    BY <2>1, <2>2, <2>3, <2>4, <2>5
<1>2. \A k \in Lanes \ {m} : Window(k)' = Window(k) /\ Window(k)' \subseteq Window(k)
  BY <1>1 DEF Window
<1>3. \A q \in Window(m)' : \/ q \in Window(m)
                            \/ q \in W..(W + n - 1)
  <2>1. Window(m)' = readIndex[m]..(W + n - 1) /\ Window(m) = readIndex[m]..(W - 1)
    BY <1>1 DEF Window
  <2> QED
    BY <1>1, <2>1
<1>4. \A q \in W..(W + n - 1) :
        /\ q \in Nat /\ W <= q /\ q <= W + n - 1
        /\ cells[m][Slot(q)] = (offered - n) - W + q + 1
  BY <1>0, <1>1 DEF Contents, Placed
<1>5. \A k \in Lanes : Wrote(k)' => Wrote(k) \/ k = m
  BY <1>0, <1>1, LaneSteps DEF Wrote
<1>6. \A k \in Lanes : Begun(k)' = IF k <= m \/ m = Last THEN offered ELSE offered - n
  <2> SUFFICES ASSUME NEW k \in Lanes
               PROVE  Begun(k)' = IF k <= m \/ m = Last THEN offered ELSE offered - n
    OBVIOUS
  <2>1. k \in Nat
    BY LaneSteps
  <2>2. CASE m < Last
    BY <1>1, <2>1, <2>2 DEF Begun, Wrote
  <2>3. CASE m = Last
    BY <1>1, <2>1, <2>3 DEF Begun, Wrote
  <2> QED
    BY <1>1, <2>2, <2>3
<1>7. \A k \in Lanes : Begun(k) = IF k < m THEN offered ELSE offered - n
  BY <1>0, <1>1 DEF Begun, Wrote
<1>8. Ordered'
  <2> SUFFICES ASSUME NEW l \in Lanes
               PROVE  /\ \A q, r \in Window(l)' : q < r => cells[l][Slot(q)] < cells[l][Slot(r)]
                      /\ \A q \in Window(l)' : cells[l][Slot(q)] <= Begun(l)'
    BY <1>1 DEF Ordered
  <2>1. CASE l # m
    <3>1. Begun(l) <= Begun(l)' /\ Begun(l) \in Int /\ Begun(l)' \in Int
      BY <1>1, <1>6, <1>7, <2>1, LaneSteps
    <3>2. \A q \in Window(l) : cells[l][Slot(q)] \in Nat
      BY WindowTypes
    <3>3. \A q \in Window(l) : cells[l][Slot(q)] <= Begun(l)
      BY DEF Contents, Ordered
    <3>4. \A q \in Window(l) : cells[l][Slot(q)] <= Begun(l)'
      BY <3>1, <3>2, <3>3
    <3> QED
      BY <1>2, <2>1, <3>4 DEF Contents, Ordered
  <2>2. CASE l = m
    <3>1. Begun(m) = offered - n /\ Begun(m)' = offered
      BY <1>1, <1>6, <1>7
    <3>2. \A q \in Window(m) : cells[m][Slot(q)] \in Nat /\ cells[m][Slot(q)] <= offered - n
                               /\ q \in Nat /\ q < W
      BY <1>1, <3>1, WindowTypes DEF Contents, Ordered
    <3>3. \A q, r \in Window(m) : q < r => cells[m][Slot(q)] < cells[m][Slot(r)]
      BY <1>1 DEF Contents, Ordered
    <3>4. \A q \in W..(W + n - 1) : cells[m][Slot(q)] \in Int /\ cells[m][Slot(q)] > offered - n
                                    /\ cells[m][Slot(q)] <= offered
      BY <1>1, <1>4
    <3>5. ASSUME NEW q \in Window(m)', NEW r \in Window(m)', q < r
          PROVE  cells[m][Slot(q)] < cells[m][Slot(r)]
      <4>1. CASE q \in Window(m) /\ r \in Window(m)
        BY <3>3, <3>5, <4>1
      <4>2. CASE q \in Window(m) /\ r \in W..(W + n - 1)
        BY <1>1, <3>2, <3>4, <4>2
      <4>3. CASE q \in W..(W + n - 1) /\ r \in W..(W + n - 1)
        BY <1>1, <1>4, <3>5, <4>3
      <4>4. CASE q \in W..(W + n - 1) /\ r \in Window(m)
        BY <1>1, <3>2, <3>5, <4>4
      <4> QED
        BY <1>3, <4>1, <4>2, <4>3, <4>4
    <3>6. \A q \in Window(m)' : cells[m][Slot(q)] <= offered
      BY <1>1, <1>3, <3>2, <3>4
    <3> QED
      BY <2>2, <3>1, <3>5, <3>6
  <2> QED
    BY <2>1, <2>2
<1>9. Aligned'
  <2>1. ASSUME NEW k \in Lanes, k # m, NEW q \in Window(m)' \cap Window(k)'
        PROVE  cells[m][Slot(q)] = cells[k][Slot(q)]
    <3>1. q \in Window(k)
      BY <1>2, <2>1
    <3>2. CASE q \in Window(m)
      BY <1>1, <3>1, <3>2 DEF Contents, Aligned
    <3>3. CASE q \in W..(W + n - 1)
      <4>1. q \in Nat /\ readIndex[k] <= q /\ q < writeIndex[k] /\ writeIndex[k] \in Nat
            /\ dropped[k] \in Nat /\ dropped[m] \in Nat /\ k \in Nat
        BY <3>1, WindowTypes, LaneTypes DEF Indices
      <4>2. dropped[k] = dropped[m] /\ W + dropped[m] = offered - n
            /\ writeIndex[k] + dropped[k] = IF k < m THEN offered ELSE offered - n
        BY <1>0, <1>1 DEF Indices, Counts, Wrote
      <4>3. k < m /\ writeIndex[k] = W + n
        BY <1>1, <1>4, <3>3, <4>1, <4>2
      <4>4. cells[k][Slot(q)] = offered - writeIndex[k] + q + 1
        <5>1. q \in (writeIndex[k] - n)..(writeIndex[k] - 1)
          BY <1>1, <3>3, <4>3
        <5> QED
          BY <1>0, <1>1, <4>1, <4>3, <5>1 DEF Contents, Placed, Wrote
      <4> QED
        BY <1>1, <1>4, <3>3, <4>3, <4>4
    <3> QED
      BY <1>3, <3>2, <3>3
  <2>2. ASSUME NEW l \in Lanes, NEW k \in Lanes, NEW q \in Window(l)' \cap Window(k)'
        PROVE  cells[l][Slot(q)] = cells[k][Slot(q)]
    <3>1. CASE l = m /\ k # m
      BY <2>1, <3>1
    <3>2. CASE l # m /\ k = m
      BY <2>1, <3>2
    <3>3. CASE l # m /\ k # m
      BY <1>2, <3>3 DEF Contents, Aligned
    <3> QED
      BY <3>1, <3>2, <3>3
  <2> QED
    BY <1>1, <2>2 DEF Aligned
<1>10. Placed'
  <2> SUFFICES ASSUME NEW l \in Lanes, Wrote(l)',
                      NEW q \in (writeIndex'[l] - n)..(writeIndex'[l] - 1), q >= readIndex[l]
               PROVE  cells[l][Slot(q)] = offered - writeIndex'[l] + q + 1
    BY <1>1 DEF Placed
  <2>1. CASE l = m
    <3>1. q \in W..(W + n - 1)
      BY <1>1, <2>1
    <3> QED
      BY <1>1, <1>4, <2>1, <3>1
  <2>2. CASE l # m
    BY <1>1, <1>5, <2>2 DEF Contents, Placed
  <2> QED
    BY <2>1, <2>2
<1>11. Handed'
  BY <1>1 DEF Contents, Handed, TookFrom, Reading
<1> QED
  BY <1>8, <1>9, <1>10, <1>11 DEF Contents

\* A step that leaves the samples and the producer, and takes from no lane.
LEMMA ConsumerKeeps ==
  ASSUME Contents, UNCHANGED <<cells, writeIndex, readIndex, got, offered>>,
         p'.count = p.count, \A l \in Lanes : Wrote(l)' <=> Wrote(l),
         p'.pc = "publish" => p.pc = "publish" /\ p'.lane = p.lane,
         \A l \in Lanes : Begun(l)' = Begun(l),
         \/ \A l \in Lanes : ~TookFrom(l)'
         \/ \A l \in Lanes : TookFrom(l)' <=> TookFrom(l)
  PROVE  Contents'
<1>1. \A l \in Lanes : Window(l)' = Window(l)
  BY DEF Window
<1>2. Ordered' /\ Aligned' /\ Placed'
  <2>1. Ordered'
    BY <1>1 DEF Contents, Ordered
  <2>2. Aligned'
    BY <1>1 DEF Contents, Aligned
  <2>3. Placed'
    BY DEF Contents, Placed
  <2> QED
    BY <2>1, <2>2, <2>3
<1>3. Handed'
  BY DEF Contents, Handed
<1> QED
  BY <1>2, <1>3 DEF Contents

\* The consumer's steps that take nothing keep the contents.
LEMMA QuietConsumerContents ==
  ASSUME IInv, Signal \/ Notify \/ WakeStep \/ Available \/ ReadLane
  PROVE  Contents'
<1> USE DEF IInv
<1>1. CASE Signal \/ Notify
  <2>1. /\ p.pc \in {"signal", "notify"} /\ p'.pc \in {"notify", "idle"} /\ p'.count = p.count
        /\ UNCHANGED <<offered, writeIndex, cells, readIndex, got>>
    <3>1. {"notify", "idle"} \subseteq PPcs
      BY DEF PPcs
    <3> QED
      BY <1>1, <3>1, PGoesIs DEF Indices, Signal, Notify, PAt, consumer
  <2>2. c' = c \/ (c.pc = "sleep" /\ c' = [c EXCEPT !.pc = "woken"])
    BY <1>1 DEF Signal, Notify, consumer
  <2>3. c \in [pc : CPcs, lane : Lanes, least : Nat]
    BY DEF Indices, TypeOK
  <2>4. c' = c \/ (c.pc = "sleep" /\ c'.pc = "woken")
    BY <2>2, <2>3
  <2>5. \A l \in Lanes : /\ ~Wrote(l) /\ ~Wrote(l)' /\ Begun(l)' = Begun(l)
                         /\ TookFrom(l)' <=> TookFrom(l)
    BY <2>1, <2>4 DEF Wrote, Begun, TookFrom, Reading
  <2> QED
    BY <2>1, <2>5, ConsumerKeeps
<1>2. CASE WakeStep \/ Available \/ ReadLane
  <2>1. UNCHANGED <<producer, readIndex, got>>
    BY <1>2, WakeIs, ReadIs DEF Available, ConsumerOthers
  <2>2. \A l \in Lanes : /\ Wrote(l)' <=> Wrote(l)
                         /\ Begun(l)' = Begun(l)
    BY <2>1 DEF Wrote, Begun, producer
  <2>3. CASE WakeStep
    <3>1. \A l \in Lanes : ~TookFrom(l)'
      BY <2>3, WakeIs DEF TookFrom, Reading
    <3> QED
      BY <2>1, <2>2, <3>1, ConsumerKeeps DEF producer
  <2>4. CASE Available
    <3>1. c \in [pc : CPcs, lane : Lanes, least : Nat] /\ c.pc = "avail"
      BY <2>4 DEF Indices, TypeOK, Available, CAt
    <3>2. c'.pc = "avail" \/ (c'.pc \in {"read", "wait"} /\ c'.lane = 1)
      BY <2>4, <3>1 DEF Available
    <3>3. \A l \in Lanes : ~TookFrom(l)'
      BY <3>2 DEF TookFrom, Reading, Lanes
    <3> QED
      BY <2>1, <2>2, <3>3, ConsumerKeeps DEF producer
  <2>5. CASE ReadLane
    <3>1. \A l \in Lanes : TookFrom(l)' <=> TookFrom(l)
      BY <2>5, ReadIs DEF TookFrom, Reading
    <3> QED
      BY <2>1, <2>2, <3>1, ConsumerKeeps DEF producer
  <2> QED
    BY <1>2, <2>3, <2>4, <2>5
<1> QED
  BY <1>1, <1>2

\* The frame taken from a lane: its oldest samples, in order.
LEMMA TakenFrame ==
  ASSUME IInv, TakeLane, NEW m \in Lanes, m = c.lane
  PROVE  /\ \A i \in 1..FrameSize : /\ readIndex[m] + i - 1 \in Window(m)
                                    /\ got'[m][i] = cells[m][Slot(readIndex[m] + i - 1)]
         /\ \A i, j \in 1..FrameSize : i < j => got'[m][i] < got'[m][j]
<1> USE DEF IInv
<1>1. FrameSize <= seenWrite[m] - readIndex[m] /\ seenWrite[m] <= writeIndex[m]
  <2>0. m \in Nat
    BY LaneSteps
  <2>1. c.pc = "copy" /\ m >= c.lane
    BY <2>0, TakeIs
  <2> QED
    BY <2>1 DEF Indices, Found, Reading, Ahead
<1>2. readIndex[m] \in Nat /\ writeIndex[m] \in Nat /\ seenWrite[m] \in Nat /\ FrameSize \in Nat
  BY LaneTypes, RingAssumption DEF Indices
<1>3. \A i \in 1..FrameSize : readIndex[m] + i - 1 \in Window(m)
  BY <1>1, <1>2 DEF Window
<1>4. \A i \in 1..FrameSize : got'[m][i] = cells[m][Slot(readIndex[m] + i - 1)]
  BY TakeIs
<1>5. \A i, j \in 1..FrameSize : i < j => readIndex[m] + i - 1 < readIndex[m] + j - 1
  BY <1>2
<1> QED
  BY <1>3, <1>4, <1>5 DEF Contents, Ordered

\* What is copied out is the front of the window.
LEMMA TakeContents == ASSUME IInv, TakeLane PROVE Contents'
<1> USE DEF IInv
<1>0. PICK m \in Lanes : m = c.lane
  BY TakeIs
<1>1. /\ c.pc = "copy" /\ c'.pc = "advance" /\ c'.lane = m
      /\ \A k \in Lanes \ {m} : got'[k] = got[k]
      /\ got' \in [Lanes -> [1..FrameSize -> Nat]] /\ got \in [Lanes -> [1..FrameSize -> Nat]]
      /\ UNCHANGED <<producer, readIndex>>
  BY <1>0, TakeIs DEF Indices, TypeOK
<1>2. \A l \in Lanes : /\ Window(l)' = Window(l) /\ Begun(l)' = Begun(l)
                       /\ Wrote(l)' <=> Wrote(l)
                       /\ TookFrom(l)' <=> (TookFrom(l) \/ l = m)
                       /\ TookFrom(l) => l # m
  <2> SUFFICES ASSUME NEW l \in Lanes
               PROVE  /\ Window(l)' = Window(l) /\ Begun(l)' = Begun(l)
                      /\ Wrote(l)' <=> Wrote(l)
                      /\ TookFrom(l)' <=> (TookFrom(l) \/ l = m)
                      /\ TookFrom(l) => l # m
    OBVIOUS
  <2>1. Window(l)' = Window(l) /\ Begun(l)' = Begun(l) /\ (Wrote(l)' <=> Wrote(l))
    BY <1>1 DEF Window, Begun, Wrote, producer
  <2>2. l \in Nat /\ m \in Nat
    BY LaneSteps
  <2>3. (TookFrom(l) <=> l < m) /\ (TookFrom(l)' <=> (l < m \/ l = m))
    BY <1>0, <1>1 DEF TookFrom, Reading
  <2> QED
    BY <2>1, <2>2, <2>3
<1>3. Ordered' /\ Aligned' /\ Placed'
  <2>1. Ordered'
    BY <1>1, <1>2 DEF Contents, Ordered, producer
  <2>2. Aligned'
    BY <1>1, <1>2 DEF Contents, Aligned, producer
  <2>3. Placed'
    BY <1>1, <1>2 DEF Contents, Placed, producer
  <2> QED
    BY <2>1, <2>2, <2>3
<1>4. \A l \in Lanes : TookFrom(l) => got'[l] = got'[m]
  <2> SUFFICES ASSUME NEW l \in Lanes, TookFrom(l) PROVE got'[l] = got'[m]
    OBVIOUS
  <2>1. ~TookFrom(m) /\ l # m
    BY <1>2
  <2>2. \A i \in 1..FrameSize : got[l][i] = got'[m][i]
    BY <1>0, <2>1, TakenFrame DEF Contents, Handed
  <2>3. got'[l] = got[l] /\ got[l] \in [1..FrameSize -> Nat] /\ got'[m] \in [1..FrameSize -> Nat]
    BY <1>1, <2>1
  <2>4. /\ got[l] = [i \in 1..FrameSize |-> got[l][i]]
        /\ got'[m] = [i \in 1..FrameSize |-> got'[m][i]]
    BY <2>3
  <2> QED
    BY <2>2, <2>3, <2>4
<1>5. \A k \in Lanes : k > m => \A i \in 1..FrameSize :
        got'[m][i] = cells[k][Slot(readIndex[k] + i - 1)]
  <2> SUFFICES ASSUME NEW k \in Lanes, k > m, NEW i \in 1..FrameSize
               PROVE  got'[m][i] = cells[k][Slot(readIndex[k] + i - 1)]
    OBVIOUS
  <2>1. readIndex[k] = readIndex[m]
    <3>0. k \in Nat /\ m \in Nat
      BY LaneSteps
    <3>1. ~(k < c.lane) /\ ~(m < c.lane)
      BY <1>0, <3>0
    <3> QED
      BY <1>1, <3>1 DEF Indices, Together
  <2>2. readIndex[m] + i - 1 \in Window(m)
    BY <1>0, TakenFrame
  <2>3. readIndex[k] + i - 1 \in Window(k)
    <3>1. FrameSize <= seenWrite[k] - readIndex[k] /\ seenWrite[k] <= writeIndex[k]
      <4>1. k \in Nat /\ m \in Nat /\ k >= c.lane
        BY <1>0, LaneSteps
      <4> QED
        BY <1>1, <4>1 DEF Indices, Found, Reading, Ahead
    <3>2. readIndex[k] \in Nat /\ writeIndex[k] \in Nat /\ seenWrite[k] \in Nat
          /\ FrameSize \in Nat
      BY LaneTypes, RingAssumption DEF Indices
    <3> QED
      BY <3>1, <3>2 DEF Window
  <2>4. got'[m][i] = cells[m][Slot(readIndex[m] + i - 1)]
    BY <1>0, TakenFrame
  <2> QED
    BY <2>1, <2>2, <2>3, <2>4 DEF Contents, Aligned
<1>6. \A k \in Lanes : ~TookFrom(k)' => k > m
  <2> SUFFICES ASSUME NEW k \in Lanes, ~TookFrom(k)' PROVE k > m
    OBVIOUS
  <2>1. k \in Nat /\ m \in Nat
    BY LaneSteps
  <2> QED
    BY <1>1, <2>1 DEF TookFrom, Reading
<1>7. Handed'
  <2> SUFFICES ASSUME NEW l \in Lanes, TookFrom(l) \/ l = m
               PROVE  /\ \A i, j \in 1..FrameSize : i < j => got'[l][i] < got'[l][j]
                      /\ \A k \in Lanes : TookFrom(k)' => got'[l] = got'[k]
                      /\ \A k \in Lanes : ~TookFrom(k)' =>
                           \A i \in 1..FrameSize :
                             got'[l][i] = cells[k][Slot(readIndex[k] + i - 1)]
    BY <1>1, <1>2 DEF Handed, producer
  <2>1. got'[l] = got'[m]
    BY <1>4
  <2>2. \A k \in Lanes : TookFrom(k)' => got'[k] = got'[m]
    BY <1>2, <1>4
  <2> QED
    BY <1>0, <1>5, <1>6, <2>1, <2>2, TakenFrame
<1> QED
  BY <1>3, <1>7 DEF Contents

\* Advancing takes the frame handed out off the window.
LEMMA AdvanceContents == ASSUME IInv, AdvanceLane PROVE Contents'
<1> USE DEF IInv
<1>0. PICK m \in Lanes : m = c.lane
  BY AdvanceIs
<1>1. /\ c.pc = "advance" /\ m \in Nat /\ FrameSize \in Nat
      /\ (m < Last /\ c'.pc = "read" /\ c'.lane = m + 1) \/ (m = Last /\ c'.pc = "frame")
      /\ readIndex'[m] = readIndex[m] + FrameSize
      /\ \A k \in Lanes \ {m} : readIndex'[k] = readIndex[k]
      /\ UNCHANGED <<producer, got>>
  BY <1>0, AdvanceIs, RingAssumption
<1>2. \A l \in Lanes : /\ readIndex[l] \in Nat /\ readIndex'[l] \in Nat
                       /\ writeIndex[l] \in Nat /\ readIndex[l] <= readIndex'[l]
  BY <1>1, LaneTypes DEF Indices
<1>3. \A l \in Lanes : Window(l)' \subseteq Window(l)
  BY <1>1, <1>2 DEF Window, producer
<1>4. \A l \in Lanes : /\ Begun(l)' = Begun(l)
                       /\ Wrote(l)' <=> Wrote(l)
  BY <1>1 DEF Begun, Wrote, producer
<1>5. \A l \in Lanes : TookFrom(l)' <=> TookFrom(l)
  <2> SUFFICES ASSUME NEW l \in Lanes PROVE TookFrom(l)' <=> l <= m
    BY <1>0, <1>1, LaneSteps DEF TookFrom, Reading
  <2>1. l \in Nat /\ l <= Last
    BY LaneSteps
  <2> QED
    BY <1>1, <2>1 DEF TookFrom, Reading
<1>6. Ordered' /\ Aligned' /\ Placed'
  <2>1. Ordered'
    BY <1>1, <1>3, <1>4 DEF Contents, Ordered, producer
  <2>2. Aligned'
    BY <1>1, <1>3 DEF Contents, Aligned, producer
  <2>3. Placed'
    <3> SUFFICES ASSUME NEW l \in Lanes, Wrote(l),
                        NEW q \in (writeIndex[l] - p.count)..(writeIndex[l] - 1),
                        q >= readIndex'[l]
                 PROVE  q >= readIndex[l]
      BY <1>1, <1>4 DEF Contents, Placed, producer
    <3>1. writeIndex[l] \in Nat /\ p.count \in Nat
      BY LaneTypes DEF Indices
    <3> QED
      BY <1>2, <3>1
  <2> QED
    BY <2>1, <2>2, <2>3
<1>7. Handed'
  <2>1. \A k \in Lanes : ~TookFrom(k) => readIndex'[k] = readIndex[k]
    BY <1>0, <1>1 DEF TookFrom
  <2> QED
    BY <1>1, <1>5, <2>1 DEF Contents, Handed, producer
<1> QED
  BY <1>6, <1>7 DEF Contents

\* The invariant holds at the start.
LEMMA IInvInit == Init => IInv
  BY IndicesInit, ContentsInit DEF IInv

\* Every step keeps the invariant.
LEMMA IInvStep == ASSUME IInv, [Next]_vars PROVE IInv'
<1>1. Indices'
  BY IndicesStep DEF IInv
<1>2. Contents'
  <2>1. CASE Next
    BY <2>1, QuietProducerContents, CopyContents, PublishContents, QuietConsumerContents,
       TakeContents, AdvanceContents DEF Next, Producer, Callback, Consumer, WakeStep
  <2>2. CASE UNCHANGED vars
    BY <2>2 DEF vars, producer, consumer, IInv, Contents, Ordered, Aligned, Placed, Handed, Window,
                Begun, Wrote, TookFrom, Reading
  <2> QED
    BY <2>1, <2>2
<1> QED
  BY <1>1, <1>2 DEF IInv

\* The invariant always holds.
LEMMA IInvHolds == Spec => []IInv
  BY IInvInit, IInvStep, PTL DEF Spec

\* The frame handed to processing is the same audio on every lane, in order
\* (LaneRings keeps the rings aligned; `drain` reads them one by one).
THEOREM FramesStayAligned == Spec => []FramesAreAligned
<1>1. IInv => FramesAreAligned
  <2> SUFFICES ASSUME IInv, c.pc = "frame" PROVE FramesAreAligned!2
    BY DEF FramesAreAligned
  <2>1. \A l \in Lanes : TookFrom(l)
    BY DEF TookFrom
  <2>2. \A l \in Lanes : got[l] = got[1]
    BY <2>1, LastIsLane DEF IInv, Contents, Handed
  <2>3. \A i \in 1..(FrameSize - 1) : got[1][i] < got[1][i + 1]
    <3> SUFFICES ASSUME NEW i \in 1..(FrameSize - 1) PROVE got[1][i] < got[1][i + 1]
      OBVIOUS
    <3>1. i \in 1..FrameSize /\ i + 1 \in 1..FrameSize /\ i < i + 1
      BY RingAssumption
    <3> QED
      BY <2>1, <3>1, LastIsLane DEF IInv, Contents, Handed
  <2> QED
    BY <2>2, <2>3
<1> QED
  BY <1>1, IInvHolds, PTL

-----------------------------------------------------------------------------
(* The rings implement FrameQueue.                                          *)

\* Steps that the abstract queue does not see.
LEMMA Unseen ==
  ASSUME UNCHANGED <<Queued, got[Last], Decided, dropped[Last]>>
  PROVE  UNCHANGED Queue!vars
  BY DEF Queue!vars

\* The queue's positions are in the window.
LEMMA TakenIs ==
  ASSUME Indices
  PROVE  /\ Taken \in Nat /\ writeIndex[Last] \in Nat /\ readIndex[Last] <= Taken
         /\ Taken..(writeIndex[Last] - 1) \subseteq Window(Last)
         /\ TookFrom(Last) => Taken = readIndex[Last] + (IF c.pc = "frame" THEN 0 ELSE FrameSize)
         /\ ~TookFrom(Last) => Taken = readIndex[Last]
<1>1. readIndex[Last] \in Nat /\ writeIndex[Last] \in Nat /\ FrameSize \in Nat /\ Last \in Lanes
      /\ Last \in Nat /\ c.lane \in Nat /\ c.lane <= Last
  BY LaneTypes, LaneSteps, LastIsLane, RingAssumption DEF Indices
<1>2. Taken \in Nat /\ readIndex[Last] <= Taken
  BY <1>1 DEF Taken
<1>3. Taken..(writeIndex[Last] - 1) \subseteq Window(Last)
  BY <1>1, <1>2 DEF Window
<1>4. TookFrom(Last) <=> (c.pc = "advance" /\ c.lane = Last) \/ c.pc = "frame"
  BY <1>1 DEF TookFrom, Reading
<1> QED
  BY <1>1, <1>2, <1>3, <1>4 DEF Taken

\* A copy is nothing the queue sees.
LEMMA CopyUnseen == ASSUME IInv, CopyLane PROVE UNCHANGED <<Queued, got[Last], Decided, dropped[Last]>>
<1> USE DEF IInv
<1>1. p.pc = "copy" /\ p'.pc = "publish" /\ p'.lane = p.lane /\ p'.count = p.count
      /\ UNCHANGED <<c, readIndex, writeIndex, got, offered, dropped>>
  <2>1. "publish" \in PPcs
    BY DEF PPcs
  <2> QED
    BY <2>1, PGoesIs DEF Indices, CopyLane, PAt, ProducerOthers, consumer
<1>2. \A q \in Taken..(writeIndex[Last] - 1) : cells'[Last][Slot(q)] = cells[Last][Slot(q)]
  BY TakenIs, LastIsLane, CopyEffect DEF Window
<1>3. Queued' = Queued
  <2>1. Taken' = Taken
    BY <1>1 DEF Taken
  <2> QED
    BY <1>1, <1>2, <2>1 DEF Queued
<1> QED
  BY <1>1, <1>3 DEF Decided

\* Publishing the last lane is what the queue sees of a callback.
LEMMA PublishSeen == ASSUME IInv, PublishLane PROVE Queue!Accept \/ UNCHANGED Queue!vars
<1> USE DEF IInv
<1>1. /\ p.pc = "publish" /\ p'.count = p.count /\ (p.lane < Last \/ p.lane = Last)
      /\ p.lane < Last => p'.pc = "reserve"
      /\ p.lane = Last => p'.pc = "signal"
      /\ writeIndex'[p.lane] = writeIndex[p.lane] + p.count
      /\ \A k \in Lanes \ {p.lane} : writeIndex'[k] = writeIndex[k]
      /\ UNCHANGED <<c, readIndex, got, offered, dropped, cells>>
      /\ p.lane \in Nat /\ Last \in Lanes /\ Last \in Nat
  <2>1. p.lane \in Lanes
    BY PublishIs
  <2>2. p.lane \in Nat /\ p.lane <= Last /\ Last \in Lanes /\ Last \in Nat
    BY <2>1, LaneSteps, LastIsLane
  <2> QED
    BY <2>2, PublishIs DEF consumer
<1>2. Taken' = Taken
  BY <1>1 DEF Taken
<1>3. CASE p.lane < Last
  <2>1. writeIndex'[Last] = writeIndex[Last]
    BY <1>1, <1>3
  <2>2. Queued' = Queued
    BY <1>1, <1>2, <2>1 DEF Queued
  <2>3. Decided' = Decided
    BY <1>1, <1>3 DEF Decided
  <2> QED
    BY <1>1, <2>2, <2>3, Unseen
<1>4. CASE p.lane = Last
  <2> DEFINE W == writeIndex[Last]
             n == p.count
  <2>1. W \in Nat /\ n \in Nat /\ offered \in Nat /\ 1 <= n /\ n <= offered /\ Taken \in Nat
        /\ Taken <= W
    <3>1. W \in Nat /\ n \in Nat /\ offered \in Nat /\ 1 <= n /\ n <= offered /\ Taken \in Nat
      BY <1>1, LaneTypes, TakenIs DEF Indices, Counts
    <3>2. readIndex[Last] \in Nat /\ seenWrite[Last] \in Nat /\ FrameSize \in Nat
      BY <1>1, LaneTypes, RingAssumption DEF Indices
    <3>3. readIndex[Last] <= seenWrite[Last] /\ seenWrite[Last] <= W
      BY <1>1 DEF Indices, Ahead
    <3>4. (c.pc = "advance" /\ c.lane = Last) => FrameSize <= seenWrite[Last] - readIndex[Last]
      BY <1>1 DEF Indices, Found, Reading
    <3> QED
      BY <3>1, <3>2, <3>3, <3>4 DEF Taken
  <2>2. Decided = offered - n /\ Decided' = offered
    BY <1>1, <1>4 DEF Decided
  <2>3. writeIndex'[Last] = W + n
    BY <1>1, <1>4
  <2>4. \A q \in W..(W + n - 1) : cells[Last][Slot(q)] = (offered - n) - W + q + 1
    BY <1>1, <1>4 DEF Contents, Placed
  <2>5. Queued' = Queued \cup (((offered - n) + 1)..offered)
    <3>1. Queued' = {cells[Last][Slot(q)] : q \in Taken..(W + n - 1)}
      <4>1. Queued' = {cells[Last][Slot(q)] : q \in Taken'..(writeIndex'[Last] - 1)}
        BY <1>1 DEF Queued
      <4>2. Taken' = Taken /\ writeIndex'[Last] - 1 = W + n - 1
        BY <1>2, <2>1, <2>3
      <4> QED
        BY <4>1, <4>2
    <3>2. Taken..(W + n - 1) = (Taken..(W - 1)) \cup (W..(W + n - 1))
      BY <2>1
    <3>3. {cells[Last][Slot(q)] : q \in W..(W + n - 1)} = ((offered - n) + 1)..offered
      <4>1. {cells[Last][Slot(q)] : q \in W..(W + n - 1)} =
              {(offered - n) - W + q + 1 : q \in W..(W + n - 1)}
        BY <2>4
      <4>2. \A q \in W..(W + n - 1) : (offered - n) - W + q + 1 \in ((offered - n) + 1)..offered
        BY <2>1
      <4>3. ASSUME NEW f \in ((offered - n) + 1)..offered
            PROVE  \E q \in W..(W + n - 1) : f = (offered - n) - W + q + 1
        <5>1. /\ (W + f) - ((offered - n) + 1) \in W..(W + n - 1)
              /\ f = (offered - n) - W + ((W + f) - ((offered - n) + 1)) + 1
          BY <2>1
        <5> QED
          BY <5>1
      <4> QED
        BY <4>1, <4>2, <4>3
    <3> QED
      BY <3>1, <3>2, <3>3 DEF Queued
  <2> QED
    BY <1>1, <2>1, <2>2, <2>5 DEF Queue!Accept
<1> QED
  BY <1>1, <1>3, <1>4

\* The oldest frames leave the queue when the last lane is copied out.
LEMMA TakeSeen == ASSUME IInv, TakeLane PROVE Queue!Take \/ UNCHANGED Queue!vars
<1> USE DEF IInv
<1>1. /\ c.pc = "copy" /\ c'.pc = "advance" /\ c'.lane = c.lane /\ c.lane \in Lanes
      /\ \A k \in Lanes \ {c.lane} : got'[k] = got[k]
      /\ got' \in [Lanes -> [1..FrameSize -> Nat]]
      /\ UNCHANGED <<producer, readIndex>> /\ Last \in Lanes
  BY TakeIs, LastIsLane
<1>2. Decided' = Decided /\ dropped'[Last] = dropped[Last]
  BY <1>1 DEF Decided, producer
<1>3. CASE c.lane # Last
  <2>1. Taken' = Taken /\ got'[Last] = got[Last]
    BY <1>1, <1>3 DEF Taken
  <2>2. Queued' = Queued
    BY <1>1, <2>1 DEF Queued, producer
  <2> QED
    BY <1>2, <2>1, <2>2, Unseen
<1>4. CASE c.lane = Last
  <2> DEFINE R == readIndex[Last]
             W == writeIndex[Last]
             cell(q) == cells[Last][Slot(q)]
             F == FrameSize
  <2>1. R \in Nat /\ W \in Nat /\ F \in Nat /\ R + F <= W
    <3>1. R \in Nat /\ W \in Nat /\ F \in Nat /\ seenWrite[Last] \in Nat /\ c.lane \in Nat
      BY <1>1, LaneTypes, RingAssumption DEF Indices
    <3>2. F <= seenWrite[Last] - R /\ seenWrite[Last] <= W
      <4>1. Last >= c.lane
        BY <1>4, <3>1
      <4> QED
        BY <1>1, <4>1 DEF Indices, Found, Reading, Ahead
    <3> QED
      BY <3>1, <3>2
  <2>2. Taken = R /\ Taken' = R + F
    BY <1>1, <1>4, <2>1 DEF Taken
  <2>3. /\ \A i \in 1..F : R + i - 1 \in Window(Last) /\ got'[Last][i] = cell(R + i - 1)
        /\ \A i, j \in 1..F : i < j => got'[Last][i] < got'[Last][j]
    BY <1>1, <1>4, TakenFrame
  <2>4. Queued = {cell(q) : q \in R..(W - 1)} /\ Queued' = {cell(q) : q \in (R + F)..(W - 1)}
    BY <1>1, <2>2 DEF Queued, producer
  <2>5. \A q, r \in R..(W - 1) : q < r => cell(q) < cell(r)
    BY <1>1 DEF Contents, Ordered, Window
  <2>6. \A q \in R..(W - 1) : cell(q) \in Nat
    BY <1>1, WindowTypes DEF Window
  <2> HIDE DEF cell
  <2>7. \A i \in 1..F : R + i - 1 \in R..(W - 1) /\ R + i - 1 < R + F
    BY <2>1
  <2>8. \A i \in 1..F : got'[Last][i] \in Queued
    BY <2>3, <2>4, <2>7
  <2>9. got'[Last] \in [1..F -> Queued]
    <3>1. got'[Last] \in [1..F -> Nat]
      BY <1>1
    <3> QED
      BY <2>8, <3>1
  <2>10. \A i \in 1..F, f \in Queued' : got'[Last][i] < f
    <3> SUFFICES ASSUME NEW i \in 1..F, NEW q \in (R + F)..(W - 1) PROVE got'[Last][i] < cell(q)
      BY <2>4
    <3>1. q \in R..(W - 1) /\ R + i - 1 < q /\ R + i - 1 \in R..(W - 1)
      BY <2>1
    <3> QED
      BY <2>3, <2>5, <3>1
  <2>11. Queued' = Queued \ {got'[Last][i] : i \in 1..F}
    <3>1. ASSUME NEW f \in Queued' PROVE f \in Queued /\ \A i \in 1..F : f # got'[Last][i]
      <4>1. PICK q \in (R + F)..(W - 1) : f = cell(q)
        BY <2>4, <3>1
      <4>2. q \in R..(W - 1) /\ f \in Nat
        BY <2>1, <2>6, <4>1
      <4>3. \A i \in 1..F : got'[Last][i] < f /\ got'[Last][i] \in Nat
        BY <2>3, <2>6, <2>7, <2>10, <3>1
      <4> QED
        BY <2>4, <4>1, <4>2, <4>3
    <3>2. ASSUME NEW f \in Queued, \A i \in 1..F : f # got'[Last][i] PROVE f \in Queued'
      <4>1. PICK q \in R..(W - 1) : f = cell(q)
        BY <2>4, <3>2
      <4>2. ASSUME q < R + F PROVE FALSE
        <5>1. (q - R) + 1 \in 1..F /\ R + ((q - R) + 1) - 1 = q
          BY <2>1, <4>2
        <5> QED
          BY <2>3, <3>2, <4>1, <5>1
      <4>3. q \in (R + F)..(W - 1)
        BY <2>1, <4>2
      <4> QED
        BY <2>4, <4>1, <4>3
    <3> QED
      BY <3>1, <3>2
  <2>12. \A i, j \in 1..F : i < j => got'[Last][i] < got'[Last][j]
    BY <2>3
  <2> QED
    BY <1>2, <2>9, <2>10, <2>11, <2>12 DEF Queue!Take, Queue!Batch
<1> QED
  BY <1>3, <1>4

\* Advancing takes nothing off the queue: the frame was taken already.
LEMMA AdvanceUnseen ==
  ASSUME IInv, AdvanceLane PROVE UNCHANGED <<Queued, got[Last], Decided, dropped[Last]>>
<1>1. /\ c.pc = "advance" /\ c'.pc \in {"read", "frame"} /\ c.lane \in Nat /\ Last \in Lanes
      /\ c.lane # Last => readIndex'[Last] = readIndex[Last]
      /\ c.lane = Last => readIndex'[Last] = readIndex[Last] + FrameSize
      /\ UNCHANGED <<producer, got>>
  BY AdvanceIs, LastIsLane DEF IInv
<1>2. Taken' = Taken
  <2>1. readIndex[Last] \in Nat /\ FrameSize \in Nat
    BY <1>1, LaneTypes, RingAssumption DEF IInv, Indices
  <2> QED
    BY <1>1, <2>1 DEF Taken
<1>3. Queued' = Queued
  BY <1>1, <1>2 DEF Queued, producer
<1> QED
  BY <1>1, <1>3 DEF Decided, producer

\* A refused block is refused by the queue; nothing else of a callback's
\* start is seen.
LEMMA RoomSeen == ASSUME IInv, RoomOnLane PROVE Queue!Refuse \/ UNCHANGED Queue!vars
<1> USE DEF IInv
<1>1. /\ p.pc = "room" /\ UNCHANGED <<c, readIndex, got, offered, writeIndex, cells>>
      /\ p.count \in Nat /\ offered \in Nat /\ 1 <= p.count /\ p.count <= offered
      /\ Last \in Lanes /\ dropped[Last] \in Nat /\ p \in [pc : PPcs, count : Nat, lane : Lanes]
  <2>1. p.pc = "room" /\ UNCHANGED <<c, readIndex, got, offered, writeIndex, cells>>
    BY DEF RoomOnLane, PAt, ProducerOthers, consumer
  <2>2. p.count \in Nat /\ offered \in Nat /\ Last \in Lanes /\ dropped[Last] \in Nat
        /\ p \in [pc : PPcs, count : Nat, lane : Lanes]
    BY LaneTypes, LastIsLane DEF Indices, TypeOK
  <2> QED
    BY <2>1, <2>2 DEF Indices, Counts
<1>2. Queued' = Queued
  <2>1. Taken' = Taken
    BY <1>1 DEF Taken
  <2> QED
    BY <1>1, <2>1 DEF Queued
<1>3. CASE PNext("room", "reserve") /\ UNCHANGED dropped
  <2>1. p'.pc \in {"room", "reserve"} /\ p'.count = p.count
    BY <1>1, <1>3 DEF PNext
  <2>2. Decided' = Decided
    BY <1>1, <2>1 DEF Decided
  <2> QED
    BY <1>1, <1>2, <1>3, <2>2, Unseen
<1>4. CASE /\ dropped' = [l \in Lanes |-> dropped[l] + p.count]
           /\ p' = [p EXCEPT !.pc = "idle", !.lane = 1]
  <2>1. dropped'[Last] = dropped[Last] + p.count /\ p'.pc = "idle"
    BY <1>1, <1>4
  <2>2. Decided = offered - p.count /\ Decided' = offered
    BY <1>1, <2>1 DEF Decided
  <2>3. offered > offered - p.count /\ offered - (offered - p.count) = p.count
    BY <1>1
  <2> QED
    BY <1>1, <1>2, <2>1, <2>2, <2>3 DEF Queue!Refuse
<1> QED
  BY <1>3, <1>4 DEF RoomOnLane

\* A callback that begins is nothing the queue sees yet.
LEMMA BeginUnseen ==
  ASSUME IInv, NEW n \in 1..MaxBlock, BeginCallback(n)
  PROVE  UNCHANGED <<Queued, got[Last], Decided, dropped[Last]>>
<1>1. /\ p.pc = "idle" /\ UNCHANGED <<c, readIndex, got, dropped, writeIndex, cells>>
      /\ p'.pc = "room" /\ p'.count = n /\ offered' = offered + n /\ offered \in Nat /\ n \in Nat
  BY RingAssumption DEF BeginCallback, PAt, ProducerOthers, consumer, IInv, Indices, TypeOK
<1>2. Queued' = Queued
  <2>1. Taken' = Taken
    BY <1>1 DEF Taken
  <2> QED
    BY <1>1, <2>1 DEF Queued
<1>3. Decided' = Decided
  BY <1>1 DEF Decided
<1> QED
  BY <1>1, <1>2, <1>3

\* The other steps move no sample, frame or count.
LEMMA OthersUnseen ==
  ASSUME IInv, ReserveLane \/ Signal \/ Notify \/ WakeStep \/ Available \/ ReadLane
  PROVE  UNCHANGED <<Queued, got[Last], Decided, dropped[Last]>>
<1> USE DEF IInv
<1>1. UNCHANGED <<offered, writeIndex, cells, readIndex, got, dropped>>
  BY ReserveIs, WakeIs, ReadIs
  DEF Signal, Notify, Available, ConsumerOthers, producer, consumer
<1>2. Decided' = Decided
  <2>1. CASE ReserveLane
    <3>1. p.pc = "reserve" /\ p'.pc = "copy" /\ p'.count = p.count
      <4>1. "copy" \in PPcs
        BY DEF PPcs
      <4> QED
        BY <2>1, <4>1, ReserveIs, PGoesIs DEF Indices
    <3> QED
      BY <1>1, <3>1 DEF Decided
  <2>2. CASE Signal \/ Notify
    <3>1. p.pc \in {"signal", "notify"} /\ p'.pc \in {"notify", "idle"}
      <4>1. {"notify", "idle"} \subseteq PPcs
        BY DEF PPcs
      <4> QED
        BY <2>2, <4>1, PGoesIs DEF Indices, Signal, Notify, PAt
    <3> QED
      BY <1>1, <3>1 DEF Decided
  <2>3. CASE WakeStep \/ Available \/ ReadLane
    <3>1. p' = p
      BY <2>3, WakeIs, ReadIs DEF Available, ConsumerOthers, producer
    <3> QED
      BY <1>1, <3>1 DEF Decided
  <2> QED
    BY <2>1, <2>2, <2>3
<1>3. (c.pc = "advance" /\ c.lane = Last)' <=> (c.pc = "advance" /\ c.lane = Last)
  <2>1. CASE ReserveLane
    BY <2>1, ReserveIs DEF consumer
  <2>2. CASE Signal \/ Notify
    <3>1. c' = c \/ (c.pc = "sleep" /\ c' = [c EXCEPT !.pc = "woken"])
      BY <2>2 DEF Signal, Notify, consumer
    <3>2. c \in [pc : CPcs, lane : Lanes, least : Nat]
      BY DEF Indices, TypeOK
    <3> QED
      BY <3>1, <3>2
  <2>3. CASE WakeStep
    BY <2>3, WakeIs
  <2>4. CASE Available
    <3>1. c \in [pc : CPcs, lane : Lanes, least : Nat] /\ c.pc = "avail"
      BY <2>4 DEF Indices, TypeOK, Available, CAt
    <3>2. c'.pc \in {"avail", "read", "wait"}
      BY <2>4, <3>1 DEF Available
    <3> QED
      BY <3>1, <3>2
  <2>5. CASE ReadLane
    BY <2>5, ReadIs
  <2> QED
    BY <2>1, <2>2, <2>3, <2>4, <2>5
<1>4. Taken' = Taken
  BY <1>1, <1>3 DEF Taken
<1> QED
  BY <1>1, <1>2, <1>4 DEF Queued

\* The rings start as the queue does.
LEMMA QueueInit == Init => Queue!Init
<1> SUFFICES ASSUME Init PROVE Queue!Init
  OBVIOUS
<1>1. Last \in Lanes /\ Taken = 0 /\ writeIndex[Last] = 0
  BY LastIsLane DEF Init, Taken
<1>2. Queued = {}
  BY <1>1 DEF Queued
<1>3. got[Last] = [i \in 1..FrameSize |-> 0] /\ Decided = 0 /\ dropped[Last] = 0
  BY <1>1 DEF Init, Decided
<1> QED
  BY <1>2, <1>3 DEF Queue!Init, Queue!Batch

\* Every step of the rings is a step of the queue, or none.
LEMMA QueueStep == ASSUME IInv, [Next]_vars PROVE [Queue!Next]_Queue!vars
<1>1. CASE UNCHANGED vars
  <2>1. UNCHANGED <<Queued, got[Last], Decided, dropped[Last]>>
    BY <1>1 DEF vars, producer, consumer, Queued, Taken, Decided
  <2> QED
    BY <2>1, Unseen
<1>2. CASE Next
  BY <1>2, BeginUnseen, RoomSeen, CopyUnseen, PublishSeen, TakeSeen, AdvanceUnseen, OthersUnseen,
     Unseen
  DEF Next, Producer, Callback, Consumer, WakeStep, Queue!Next
<1> QED
  BY <1>1, <1>2

\* The rings implement the queue: whole blocks in, whole frames out, in
\* order, each once, and what is lost is counted (ring.rs, rings.rs).
THEOREM RingsAreAFrameQueue == Spec => IsFrameQueue
<1>1. Spec => Queue!Init /\ [][Queue!Next]_Queue!vars
  BY QueueInit, QueueStep, IInvHolds, PTL DEF Spec
<1> QED
  BY <1>1, PTL DEF IsFrameQueue, Queue!Spec
=============================================================================
