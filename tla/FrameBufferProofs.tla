-------------------------- MODULE FrameBufferProofs --------------------------
(***************************************************************************)
(* Proofs about FrameBuffer, for every capacity, any set of readers and    *)
(* any number of frames.                                                   *)
(***************************************************************************)
EXTENDS FrameBuffer, SequenceTheorems, TLAPS

-----------------------------------------------------------------------------
(* The slots, addressed by an ever-growing index modulo the capacity.       *)

\* A remainder is below the divisor.
LEMMA RemainderInRange ==
    ASSUME NEW C \in Nat \ {0}, NEW i \in Nat
    PROVE  i % C \in 0..(C - 1)
  OBVIOUS

\* Numbers less than the divisor apart have different remainders.
LEMMA RemainderDistinct ==
    ASSUME NEW C \in Nat \ {0}, NEW a \in Nat, NEW b \in Nat, a < b, b - a < C
    PROVE  a % C # b % C
<1>1. \A qa, qb \in Int, r \in Nat :
          a = C * qa + r /\ b = C * qb + r => b - a >= C
  <2>1. SUFFICES ASSUME NEW qa \in Int, NEW qb \in Int, NEW r \in Nat,
                        a = C * qa + r, b = C * qb + r
                 PROVE  b - a >= C
    OBVIOUS
  <2>2. b - a = C * (qb - qa)
    BY <2>1
  <2>3. qb - qa >= 1
    BY <2>2
  <2>4. C * (qb - qa) >= C
    BY <2>3
  <2>5. QED
    BY <2>2, <2>4
<1>2. \A i \in Nat : \E q \in Int : i = C * q + (i % C)
  <2>1. \A i \in Nat : i = C * (i \div C) + (i % C)
    OBVIOUS
  <2>2. \A i \in Nat : i \div C \in Int
    OBVIOUS
  <2>3. QED
    BY <2>1, <2>2
<1>3. SUFFICES ASSUME a % C = b % C
               PROVE  FALSE
  OBVIOUS
<1>4. PICK qa \in Int : a = C * qa + (a % C)
  BY <1>2
<1>5. PICK qb \in Int : b = C * qb + (a % C)
  BY <1>2, <1>3
<1>6. QED
  BY <1>1, <1>4, <1>5

\* A sequence number names a slot of the ring.
LEMMA FrameSlotInRange == \A i \in Nat : Slot(i) \in 0..(Capacity - 1)
  BY RemainderInRange, CapacityAssumption DEF Slot

\* Entries less than a lap apart lie in different slots.
LEMMA FrameSlotDistinct ==
    \A a, b \in Nat : a < b /\ b - a < Capacity => Slot(a) # Slot(b)
  BY RemainderDistinct, CapacityAssumption DEF Slot

ReaderType == [pc : ReaderPc, first : Nat, end : Nat, next : Nat,
               attempt : 0..2, got : Seq(Entries)]

\* The record of a call has the type of a reader.
LEMMA CallType ==
    ASSUME NEW pc \in ReaderPc, NEW count \in Nat, NEW next \in Nat, NEW attempt \in 0..2
    PROVE  Call(pc, count, next, attempt) \in ReaderType
  BY DEF Call, ReaderType

\* So has that of a reader that has not called yet.
LEMMA IdleType == Idle \in ReaderType
  BY CallType DEF Idle, ReaderPc

\* Updating the local variables of a call keeps their types.
LEMMA UpdateGot ==
    ASSUME NEW m \in ReaderType, NEW pc \in ReaderPc, NEW g \in Seq(Entries)
    PROVE  [m EXCEPT !.got = g, !.pc = pc] \in ReaderType
  BY DEF ReaderType

\* latest() begins another attempt: the record keeps its type.
LEMMA UpdateAttempt ==
    ASSUME NEW m \in ReaderType, NEW pc \in ReaderPc, NEW a \in 0..2
    PROVE  [m EXCEPT !.attempt = a, !.pc = pc] \in ReaderType
  BY DEF ReaderType

\* A step of snapshot() collects an entry and goes on.
LEMMA UpdateGotNext ==
    ASSUME NEW m \in ReaderType, NEW pc \in ReaderPc, NEW g \in Seq(Entries),
           NEW k \in Nat
    PROVE  [m EXCEPT !.got = g, !.next = k, !.pc = pc] \in ReaderType
  BY DEF ReaderType

\* A new attempt loads the count again.
LEMMA UpdateEndNext ==
    ASSUME NEW m \in ReaderType, NEW pc \in ReaderPc, NEW e \in Nat, NEW k \in Nat
    PROVE  [m EXCEPT !.pc = pc, !.end = e, !.next = k] \in ReaderType
  BY DEF ReaderType

\* An idle reader has collected nothing and remembers nothing.
LEMMA IdleInv ==
    ASSUME NEW r \in Readers, reader[r] = Idle, published \in Nat
    PROVE  ReaderInv(r)
  BY DEF ReaderInv, CallInv, GotOrdered, NotOverlooked, LatestResult, Idle,
         Call, Window, Collected

\* The invariant holds initially.
LEMMA IInvInit == Init => IInv
<1> SUFFICES ASSUME Init PROVE IInv
  OBVIOUS
<1>1. TypeOK
  BY IdleType, CapacityAssumption DEF Init, TypeOK, ReaderType
<1>2. \A r \in Readers : ReaderInv(r)
  BY IdleInv DEF Init
<1>3. QED
  BY <1>1, <1>2, CapacityAssumption, NoEntryAssumption
     DEF Init, IInv, WriterInv, SlotsSound, RingHoldsNewest, OverwrittenCounted,
         Window, Stored
-----------------------------------------------------------------------------
(* The producer keeps the invariant.                                        *)

\* The steps of push keep the types and the local variables of the producer.
LEMMA PushType ==
    ASSUME TypeOK, PushStep
    PROVE  TypeOK'
<1>1. CASE PushLoadCount
  BY <1>1 DEF PushLoadCount, TypeOK
<1>2. CASE PushStoreSlot
  <2>1. slots' \in [0..(Capacity - 1) -> Entries \cup {NoEntry}]
    BY <1>2, FrameSlotInRange DEF PushStoreSlot, TypeOK, Entries, Entry
  <2>2. QED
    BY <1>2, <2>1 DEF PushStoreSlot, TypeOK
<1>3. CASE PushStoreCount
  BY <1>3 DEF PushStoreCount, TypeOK
<1>4. CASE PushCountOverwrite
  BY <1>4 DEF PushCountOverwrite, TypeOK
<1>5. QED
  BY <1>1, <1>2, <1>3, <1>4 DEF PushStep

\* Counters only grow while the producer runs, so what a reader has learned
\* stays true.
LEMMA PushKeepsReaders ==
    ASSUME TypeOK, WriterInv, PushStep,
           NEW r \in Readers, ReaderInv(r)
    PROVE  ReaderInv(r)'
<1>1. /\ published' \in Nat /\ published' >= published
      /\ Stored \in Nat /\ Stored' \in Nat /\ Stored' >= Stored
      /\ reader' = reader
  BY DEF TypeOK, WriterInv, PushStep, PushLoadCount, PushStoreSlot, PushStoreCount,
         PushCountOverwrite, Stored
<1>2. reader[r] \in ReaderType
  BY DEF TypeOK, ReaderType
<1>3. CallInv(r)'
  BY <1>1, <1>2, CapacityAssumption DEF ReaderInv, CallInv, TypeOK, ReaderType, Window
<1>4. GotOrdered(r)'
  BY <1>1 DEF ReaderInv, GotOrdered, Window
<1>5. NotOverlooked(r)'
  <2>1. ASSUME NEW s \in Nat, s + Capacity < Stored
        PROVE  s + Capacity < Stored'
    BY <1>1, <2>1, CapacityAssumption
  <2>2. reader[r].end \in Nat
    BY <1>2 DEF ReaderType
  <2>3. QED
    BY <1>1, <2>1, <2>2 DEF ReaderInv, NotOverlooked, Window, Collected
<1>6. LatestResult(r)'
  BY <1>1, <1>2, CapacityAssumption DEF ReaderInv, LatestResult, TypeOK, ReaderType
<1>7. QED
  BY <1>3, <1>4, <1>5, <1>6 DEF ReaderInv

\* The steps of push keep the newest entries in the ring.
LEMMA PushKeepsRing ==
    ASSUME IInv, PushStep
    PROVE  WriterInv' /\ SlotsSound' /\ RingHoldsNewest' /\ OverwrittenCounted'
<1>1. CASE PushLoadCount
  BY <1>1
     DEF PushLoadCount, IInv, WriterInv, SlotsSound, RingHoldsNewest,
         OverwrittenCounted, Stored, Window
<1>2. CASE PushStoreSlot
  <2>1. /\ Stored = published /\ Stored' = published + 1
        /\ sequence = published /\ frame = published + 1
        /\ wpc' = "store_count" /\ UNCHANGED <<published, overwritten, sequence, frame>>
    BY <1>2 DEF PushStoreSlot, IInv, WriterInv, Stored
  <2>2. slots' = [slots EXCEPT ![Slot(published)] = Entry(published, published + 1)]
    BY <1>2, <2>1 DEF PushStoreSlot
  <2>3. WriterInv' /\ OverwrittenCounted'
    BY <1>2, <2>1 DEF IInv, WriterInv, OverwrittenCounted, PushStoreSlot
  <2>4. SlotsSound'
    BY <2>2, CapacityAssumption DEF IInv, TypeOK, SlotsSound, Entry
  <2>5. ASSUME NEW s \in Window(Stored)'
        PROVE  slots'[Slot(s)] = Entry(s, s + 1)
    <3>1. s \in Nat /\ s <= published /\ s + Capacity > published
      BY <2>1, CapacityAssumption DEF IInv, TypeOK, Window
    <3>2. CASE s = published
      BY <2>2, <3>2, FrameSlotInRange DEF IInv, TypeOK
    <3>3. CASE s < published
      <4>1. Slot(s) # Slot(published)
        BY <3>1, <3>3, FrameSlotDistinct, CapacityAssumption DEF IInv, TypeOK
      <4>2. s \in Window(Stored)
        BY <2>1, <3>1, <3>3, CapacityAssumption DEF IInv, TypeOK, Window
      <4>3. slots'[Slot(s)] = slots[Slot(s)]
        BY <2>2, <3>1, <4>1, FrameSlotInRange DEF IInv, TypeOK
      <4>4. QED
        BY <4>2, <4>3 DEF IInv, RingHoldsNewest
    <3>4. QED
      BY <3>1, <3>2, <3>3 DEF IInv, TypeOK
  <2>6. RingHoldsNewest'
    BY <2>5 DEF RingHoldsNewest, Entry, Slot
  <2>7. QED
    BY <2>3, <2>4, <2>6
<1>3. CASE PushStoreCount
  <2>1. Stored' = Stored
    BY <1>3 DEF PushStoreCount, IInv, WriterInv, Stored
  <2>2. SlotsSound' /\ RingHoldsNewest'
    BY <1>3, <2>1 DEF PushStoreCount, IInv, SlotsSound, RingHoldsNewest, Window
  <2>3. WriterInv' /\ OverwrittenCounted'
    BY <1>3, CapacityAssumption
       DEF PushStoreCount, IInv, TypeOK, WriterInv, OverwrittenCounted
  <2>4. QED
    BY <2>2, <2>3
<1>4. CASE PushCountOverwrite
  BY <1>4
     DEF PushCountOverwrite, IInv, TypeOK, WriterInv, SlotsSound, RingHoldsNewest,
         OverwrittenCounted, Stored, Window
<1>5. QED
  BY <1>1, <1>2, <1>3, <1>4 DEF PushStep

\* The steps of push keep the invariant.
LEMMA IInvPush == IInv /\ PushStep => IInv'
  BY PushType, PushKeepsReaders, PushKeepsRing DEF IInv

\* clear starts again from the initial state.
LEMMA IInvClear == IInv /\ Clear => IInv'
<1> SUFFICES ASSUME IInv, Clear PROVE IInv'
  OBVIOUS
<1>1. TypeOK'
  BY IdleType DEF Clear, IInv, TypeOK, ReaderType
<1>2. \A r \in Readers : ReaderInv(r)'
  BY DEF Clear, ReaderInv, CallInv, GotOrdered, NotOverlooked, LatestResult, Idle,
         Call, Window, Collected
<1>3. QED
  BY <1>1, <1>2, CapacityAssumption, NoEntryAssumption
     DEF Clear, IInv, WriterInv, SlotsSound, RingHoldsNewest, OverwrittenCounted,
         Window, Stored
-----------------------------------------------------------------------------
(* A reader keeps the invariant.  It writes nothing the others see.         *)

\* What a reader's load of the slot it looks for tells it.
LEMMA SlotLoad ==
    ASSUME IInv, NEW s \in Nat, s < published
    PROVE  LET entry == slots[Slot(s)] IN
           /\ Matches(entry, s) => entry \in Entries /\ entry.packet = s + 1
           /\ ~Matches(entry, s) => s + Capacity < Stored
<1>1. s \in Nat /\ s < published /\ Stored \in Nat /\ s < Stored
  BY CapacityAssumption DEF IInv, TypeOK, Window, Stored
<1>2. slots[Slot(s)] \in Entries \cup {NoEntry}
  BY <1>1, FrameSlotInRange DEF IInv, TypeOK
<1>3. Matches(slots[Slot(s)], s) => slots[Slot(s)].packet = s + 1
  BY <1>1, <1>2, FrameSlotInRange DEF IInv, SlotsSound, Matches, Entries
<1>4. ASSUME ~Matches(slots[Slot(s)], s)
      PROVE  s + Capacity < Stored
  <2>1. Entry(s, s + 1) # NoEntry /\ Entry(s, s + 1).sequence = s
    BY <1>1, NoEntryAssumption DEF Entry
  <2>2. s \notin Window(Stored)
    BY <1>4, <2>1 DEF IInv, RingHoldsNewest, Matches
  <2>3. QED
    BY <1>1, <2>2, CapacityAssumption DEF Window
<1>5. QED
  BY <1>2, <1>3, <1>4 DEF Matches
\* A step of one reader that leaves the producer alone: what remains to be
\* shown is the invariant of that reader.
LEMMA ReaderStep ==
    ASSUME IInv, NEW r \in Readers, NEW R, R \in ReaderType,
           UNCHANGED writer, reader' = [reader EXCEPT ![r] = R], ReaderInv(r)'
    PROVE  IInv'
<1>1. TypeOK'
  BY DEF IInv, TypeOK, writer, ReaderType
<1>2. ASSUME NEW q \in Readers
      PROVE  ReaderInv(q)'
  <2>1. CASE q = r
    BY <2>1
  <2>2. CASE q # r
    <3>1. reader'[q] = reader[q]
      BY <2>2 DEF IInv, TypeOK
    <3>2. QED
      BY <3>1 DEF IInv, ReaderInv, CallInv, GotOrdered, NotOverlooked, LatestResult,
                  Collected, Window, Stored, writer
  <2>3. QED
    BY <2>1, <2>2
<1>3. QED
  BY <1>1, <1>2
     DEF IInv, WriterInv, SlotsSound, RingHoldsNewest, OverwrittenCounted,
         Window, Stored, writer

\* A call that has just loaded the count, and collected nothing yet.
LEMMA IInvCallBegins ==
    ASSUME IInv, NEW r \in Readers, SnapshotLoadCount(r) \/ LatestLoadCount(r)
    PROVE  IInv'
<1>1. published \in Nat /\ Capacity \in Nat /\ Capacity > 0 /\ reader \in [Readers -> ReaderType]
  BY CapacityAssumption DEF IInv, TypeOK, ReaderType
<1>2. CASE SnapshotLoadCount(r)
  <2> DEFINE pc == IF published = 0 THEN "snapped" ELSE "snap_slot"
             R == Call(pc, published, Begin(published), 0)
  <2>1. R \in ReaderType
    BY <1>1, CallType DEF ReaderPc, Begin
  <2>2. reader' = [reader EXCEPT ![r] = R] /\ UNCHANGED writer
    BY <1>2 DEF SnapshotLoadCount
  <2>3. /\ reader'[r].pc = IF published = 0 THEN "snapped" ELSE "snap_slot"
        /\ reader'[r].first = published /\ reader'[r].end = published
        /\ reader'[r].next = Begin(published) /\ reader'[r].got = <<>>
    BY <1>1, <2>2 DEF Call
  <2>4. published' = published
    BY <2>2 DEF writer
  <2>5. CallInv(r)'
    BY <1>1, <2>3, <2>4 DEF CallInv, Window, Begin
  <2>6. NotOverlooked(r)'
    BY <1>1, <2>3, <2>4 DEF NotOverlooked, Window, Begin
  <2>7. ReaderInv(r)'
    BY <2>3, <2>5, <2>6 DEF ReaderInv, GotOrdered, LatestResult
  <2>8. QED
    BY <2>1, <2>2, <2>7, ReaderStep
<1>3. CASE LatestLoadCount(r)
  <2> DEFINE R == IF published = 0 THEN Call("none", 0, 0, 1)
                  ELSE Call("latest_slot", published, published - 1, 1)
  <2>1. R \in ReaderType
    BY <1>1, CallType DEF ReaderPc
  <2>2. reader' = [reader EXCEPT ![r] = R] /\ UNCHANGED writer
    BY <1>3 DEF LatestLoadCount
  <2>3. /\ reader'[r].pc = IF published = 0 THEN "none" ELSE "latest_slot"
        /\ reader'[r].first = published /\ reader'[r].end = published
        /\ reader'[r].next = (IF published = 0 THEN 0 ELSE published - 1)
        /\ reader'[r].attempt = 1 /\ reader'[r].got = <<>>
    BY <1>1, <2>2 DEF Call
  <2>4. published' = published
    BY <2>2 DEF writer
  <2>5. CallInv(r)'
    BY <1>1, <2>3, <2>4 DEF CallInv
  <2>6. ReaderInv(r)'
    BY <1>1, <2>3, <2>4, <2>5 DEF ReaderInv, GotOrdered, NotOverlooked, LatestResult
  <2>7. QED
    BY <2>1, <2>2, <2>6, ReaderStep
<1>4. QED
  BY <1>2, <1>3
\* snapshot() reads one slot: it takes the entry only under its number.
LEMMA IInvSnapshotLoadSlot ==
    ASSUME IInv, NEW r \in Readers, SnapshotLoadSlot(r)
    PROVE  IInv'
<1> DEFINE me == reader[r]
           n == me.next
           entry == slots[Slot(n)]
           hit == Matches(entry, n)
           got == IF hit THEN Append(me.got, entry) ELSE me.got
           pc == IF n + 1 = me.end THEN "snapped" ELSE "snap_slot"
           R == [me EXCEPT !.got = got, !.next = n + 1, !.pc = pc]
<1>1. /\ me \in ReaderType /\ published \in Nat /\ Stored \in Nat
      /\ Capacity \in Nat /\ Capacity > 0 /\ reader \in [Readers -> ReaderType]
  BY CapacityAssumption DEF IInv, TypeOK, ReaderType, Stored
<1>2. /\ n \in Nat /\ n < me.end /\ n + Capacity >= me.end /\ n < published
      /\ me.end \in Nat /\ me.got \in Seq(Entries)
  BY <1>1 DEF IInv, ReaderInv, CallInv, SnapshotLoadSlot, ReaderType, Window
<1>3. /\ hit => entry \in Entries /\ entry.packet = n + 1 /\ entry.sequence = n
      /\ ~hit => n + Capacity < Stored
  BY <1>2, SlotLoad DEF Matches
<1>4. R \in ReaderType
  <2>1. got \in Seq(Entries)
    BY <1>2, <1>3
  <2>2. pc \in ReaderPc
    BY DEF ReaderPc
  <2>3. n + 1 \in Nat
    BY <1>2
  <2> HIDE DEF got, pc, n, me
  <2>4. QED
    BY <1>1, <2>1, <2>2, <2>3, UpdateGotNext
<1>5. UNCHANGED writer /\ reader' = [reader EXCEPT ![r] = R]
  BY DEF SnapshotLoadSlot
<1>6. /\ reader'[r].pc = pc /\ reader'[r].next = n + 1 /\ reader'[r].got = got
      /\ reader'[r].first = me.first /\ reader'[r].end = me.end
      /\ reader'[r].attempt = me.attempt /\ me.pc = "snap_slot"
      /\ published' = published /\ Stored' = Stored
  BY <1>1, <1>5 DEF ReaderType, writer, Stored, SnapshotLoadSlot
<1>7. CallInv(r)'
  <2>1. pc = "snap_slot" => n + 1 \in Window(me.end)
    BY <1>1, <1>2 DEF Window
  <2>2. me.first <= me.end /\ me.end <= published
    BY DEF IInv, ReaderInv, CallInv
  <2>3. QED
    BY <1>6, <2>1, <2>2 DEF CallInv, Window
<1> DEFINE len == Len(me.got)
<1>8. /\ len \in Nat
      /\ \A i \in 1..len : /\ got[i] = me.got[i] /\ me.got[i] \in Entries
                            /\ me.got[i].sequence \in Nat
                            /\ me.got[i].sequence < n
      /\ hit => Len(got) = len + 1 /\ got[len + 1] = entry
      /\ ~hit => Len(got) = len
  <2>1. \A i \in 1..len : me.got[i].sequence < n
    BY <1>6 DEF IInv, ReaderInv, GotOrdered
  <2>2. \A i \in 1..len : me.got[i] \in Entries
    BY <1>2
  <2>3. \A i \in 1..len : me.got[i].sequence \in Nat
    BY <2>2 DEF Entries
  <2>4. ASSUME hit
        PROVE  /\ Len(got) = len + 1 /\ got[len + 1] = entry
               /\ \A i \in 1..len : got[i] = me.got[i]
    BY <1>2, <1>3, <2>4, AppendProperties
  <2>5. QED
    BY <1>2, <2>1, <2>2, <2>3, <2>4
<1>9. GotOrdered(r)'
  <2>1. ASSUME NEW i \in 1..Len(got)
        PROVE  /\ got[i].packet = got[i].sequence + 1
               /\ got[i].sequence \in Window(me.end)
               /\ got[i].sequence < n + 1
    <3>1. CASE i \in 1..len
      BY <1>2, <1>8, <3>1 DEF IInv, ReaderInv, GotOrdered
    <3>2. CASE i \notin 1..len
      <4>1. hit /\ got[i] = entry
        BY <1>8, <3>2
      <4>2. n \in Window(me.end)
        BY <1>2, <1>1 DEF Window
      <4>3. QED
        BY <1>2, <1>3, <4>1, <4>2
    <3>3. QED
      BY <3>1, <3>2
  <2>2. ASSUME NEW i \in 1..Len(got), NEW j \in 1..Len(got), i < j
        PROVE  got[i].sequence < got[j].sequence
    <3>1. i \in 1..len
      BY <1>8, <2>2
    <3>2. CASE j \in 1..len
      BY <1>8, <2>2, <3>1, <3>2 DEF IInv, ReaderInv, GotOrdered
    <3>3. CASE j \notin 1..len
      BY <1>3, <1>8, <2>2, <3>1, <3>3
    <3>4. QED
      BY <3>2, <3>3
  <2>3. QED
    BY <1>6, <2>1, <2>2 DEF GotOrdered, Window
<1>10. NotOverlooked(r)'
  <2>1. ASSUME NEW s \in Window(me.end), s \in Collected(r)
        PROVE  s \in Collected(r)'
    <3>1. PICK i \in 1..len : s = me.got[i].sequence
      BY <2>1 DEF Collected
    <3>2. i \in 1..Len(got) /\ got[i].sequence = s
      BY <1>8, <3>1
    <3>3. QED
      BY <1>6, <3>2 DEF Collected
  <2>2. hit => n \in Collected(r)'
    BY <1>3, <1>6, <1>8 DEF Collected
  <2>3. ASSUME NEW s \in Window(me.end)
        PROVE  \/ s \in Collected(r)'
               \/ s + Capacity < Stored
               \/ pc = "snap_slot" /\ s >= n + 1
    <3>1. s \in Nat /\ s < me.end
      BY <1>2 DEF Window
    <3>2. s \in Collected(r) \/ s + Capacity < Stored \/ s >= n
      BY <1>6 DEF IInv, ReaderInv, NotOverlooked
    <3>3. CASE s = n
      BY <1>3, <2>2, <3>3
    <3>4. CASE s > n
      BY <1>2, <3>1, <3>4
    <3>5. QED
      BY <1>2, <2>1, <3>1, <3>2, <3>3, <3>4
  <2>4. QED
    BY <1>6, <2>3 DEF NotOverlooked, Window
<1>11. LatestResult(r)'
  BY <1>6 DEF LatestResult
<1>12. ReaderInv(r)'
  BY <1>7, <1>9, <1>10, <1>11 DEF ReaderInv
<1>13. QED
  BY <1>4, <1>5, <1>12, ReaderStep
\* latest() loads the count for its second attempt.
LEMMA IInvLatestReloadCount ==
    ASSUME IInv, NEW r \in Readers, LatestReloadCount(r)
    PROVE  IInv'
<1> DEFINE me == reader[r]
           pc == IF published = 0 THEN "none" ELSE "latest_slot"
           R == [me EXCEPT !.pc = pc, !.end = published, !.next = published - 1]
<1>1. /\ me \in ReaderType /\ published \in Nat /\ Stored \in Nat
      /\ Capacity \in Nat /\ Capacity > 0 /\ reader \in [Readers -> ReaderType]
  BY CapacityAssumption DEF IInv, TypeOK, ReaderType, Stored
<1>2. /\ me.pc = "latest_count" /\ me.attempt = 2 /\ me.got = <<>>
      /\ published >= me.first + Capacity - 1 /\ published > 0
      /\ me.first <= published
  BY <1>1 DEF IInv, ReaderInv, CallInv, LatestReloadCount, ReaderType
<1>3. pc = "latest_slot" /\ pc \in ReaderPc /\ published - 1 \in Nat
  BY <1>1, <1>2 DEF ReaderPc
<1>4. R \in ReaderType
  <2> HIDE DEF pc, me
  <2>1. QED
    BY <1>1, <1>3, UpdateEndNext
<1>5. UNCHANGED writer /\ reader' = [reader EXCEPT ![r] = R]
  BY DEF LatestReloadCount
<1>6. /\ reader'[r].pc = "latest_slot" /\ reader'[r].next = published - 1
      /\ reader'[r].got = <<>> /\ reader'[r].first = me.first
      /\ reader'[r].end = published /\ reader'[r].attempt = 2
      /\ published' = published /\ Stored' = Stored
  BY <1>1, <1>2, <1>3, <1>5 DEF ReaderType, writer, Stored
<1>7. ReaderInv(r)'
  BY <1>1, <1>2, <1>6
     DEF ReaderInv, CallInv, GotOrdered, NotOverlooked, LatestResult, ReaderType
<1>8. QED
  BY <1>4, <1>5, <1>7, ReaderStep

\* latest() reads the slot: a mismatch means the producer gained a lap.
LEMMA IInvLatestLoadSlot ==
    ASSUME IInv, NEW r \in Readers, LatestLoadSlot(r)
    PROVE  IInv'
<1> DEFINE me == reader[r]
           n == me.next
           entry == slots[Slot(n)]
<1>1. /\ me \in ReaderType /\ published \in Nat /\ Stored \in Nat
      /\ Capacity \in Nat /\ Capacity > 0 /\ reader \in [Readers -> ReaderType]
      /\ Stored <= published + 1
  BY CapacityAssumption DEF IInv, TypeOK, ReaderType, Stored
<1>2. /\ me.pc = "latest_slot" /\ me.got = <<>> /\ me.attempt \in 1..2
      /\ me.end > 0 /\ me.end <= published /\ me.first <= me.end
      /\ me.attempt = 2 => me.end >= me.first + Capacity - 1
      /\ n = me.end - 1 /\ n \in Nat /\ n < published
      /\ me.end \in Nat /\ me.first \in Nat
  BY <1>1 DEF IInv, ReaderInv, CallInv, LatestLoadSlot, ReaderType
<1>3. /\ Matches(entry, n) => entry \in Entries /\ entry.packet = n + 1 /\ entry.sequence = n
      /\ ~Matches(entry, n) => published >= me.end + Capacity - 1
  BY <1>1, <1>2, SlotLoad DEF Matches
<1>4. UNCHANGED writer /\ published' = published /\ Stored' = Stored
  BY DEF LatestLoadSlot, writer, Stored
<1>5. CASE /\ Matches(entry, n)
           /\ reader' = [reader EXCEPT ![r].got = <<entry>>, ![r].pc = "found"]
  <2> DEFINE R == [me EXCEPT !.got = <<entry>>, !.pc = "found"]
  <2>1. R \in ReaderType
    <3>1. <<entry>> \in Seq(Entries)
      BY <1>3, <1>5
    <3>2. "found" \in ReaderPc
      BY DEF ReaderPc
    <3> HIDE DEF entry, me
    <3>3. QED
      BY <1>1, <3>1, <3>2, UpdateGot
  <2>2. reader' = [reader EXCEPT ![r] = R]
    BY <1>5
  <2>3. /\ reader'[r].pc = "found" /\ reader'[r].got = <<entry>>
        /\ reader'[r].first = me.first /\ reader'[r].end = me.end
    BY <1>1, <2>2 DEF ReaderType
  <2>4. GotOrdered(r)'
    BY <1>1, <1>2, <1>3, <1>5, <2>3, SMTT(30) DEF GotOrdered, Window
  <2>5. ReaderInv(r)'
    BY <1>1, <1>2, <1>3, <1>4, <1>5, <2>3, <2>4
       DEF ReaderInv, CallInv, NotOverlooked, LatestResult
  <2>6. QED
    BY <1>4, <2>1, <2>2, <2>5, ReaderStep
<1>6. CASE /\ ~Matches(entry, n) /\ me.attempt < 2
           /\ reader' = [reader EXCEPT ![r].attempt = @ + 1, ![r].pc = "latest_count"]
  <2> DEFINE R == [me EXCEPT !.attempt = me.attempt + 1, !.pc = "latest_count"]
  <2> me.attempt + 1 = 2
    BY <1>2, <1>6
  <2>1. R \in ReaderType
    <3>1. "latest_count" \in ReaderPc /\ me.attempt + 1 \in 0..2
      BY DEF ReaderPc
    <3> HIDE DEF me
    <3>2. QED
      BY <1>1, <3>1, UpdateAttempt
  <2>2. reader' = [reader EXCEPT ![r] = R]
    BY <1>6
  <2>3. /\ reader'[r].pc = "latest_count" /\ reader'[r].got = <<>>
        /\ reader'[r].first = me.first /\ reader'[r].end = me.end
        /\ reader'[r].attempt = 2 /\ reader'[r].next = n
    BY <1>1, <1>2, <2>2 DEF ReaderType
  <2>4. ReaderInv(r)'
    BY <1>1, <1>2, <1>3, <1>4, <1>6, <2>3, SMTT(30)
       DEF ReaderInv, CallInv, GotOrdered, NotOverlooked, LatestResult
  <2>5. QED
    BY <1>4, <2>1, <2>2, <2>4, ReaderStep
<1>7. CASE /\ ~Matches(entry, n) /\ me.attempt = 2
           /\ reader' = [reader EXCEPT ![r].pc = "none"]
  <2> DEFINE R == [me EXCEPT !.pc = "none"]
  <2>1. R \in ReaderType
    BY <1>1 DEF ReaderType, ReaderPc
  <2>2. reader' = [reader EXCEPT ![r] = R]
    BY <1>7
  <2>3. /\ reader'[r].pc = "none" /\ reader'[r].got = <<>>
        /\ reader'[r].first = me.first /\ reader'[r].end = me.end
    BY <1>1, <1>2, <2>2 DEF ReaderType
  <2>4. published >= me.first + 2 * (Capacity - 1)
    BY <1>1, <1>2, <1>3, <1>7
  <2>5. ReaderInv(r)'
    BY <1>1, <1>2, <1>4, <2>3, <2>4
       DEF ReaderInv, CallInv, GotOrdered, NotOverlooked, LatestResult
  <2>6. QED
    BY <1>4, <2>1, <2>2, <2>5, ReaderStep
<1>8. QED
  BY <1>2, <1>5, <1>6, <1>7 DEF LatestLoadSlot
-----------------------------------------------------------------------------
\* IInv is an invariant.
LEMMA IInvAlways == Spec => []IInv
<1>1. IInv /\ UNCHANGED vars => IInv'
  BY DEF vars, IInv, TypeOK, WriterInv, SlotsSound, RingHoldsNewest,
         OverwrittenCounted, ReaderInv, CallInv, GotOrdered, NotOverlooked,
         LatestResult, Collected, Window, Stored
<1>2. IInv /\ [Next]_vars => IInv'
  BY <1>1, IInvPush, IInvClear, IInvCallBegins, IInvSnapshotLoadSlot,
     IInvLatestReloadCount, IInvLatestLoadSlot DEF Next, ReadStep
<1>3. QED
  BY <1>2, IInvInit, PTL DEF Spec

\* The state has its type in every reachable state.
THEOREM TypeCorrect == Spec => []TypeOK
<1>1. IInv => TypeOK
  BY DEF IInv
<1>2. QED
  BY <1>1, IInvAlways, PTL

\* The ring always holds the newest frames, and the overwrite counter counts
\* the others.
THEOREM RingCorrect == Spec => [](RingHoldsNewest /\ OverwrittenCounted)
<1>1. IInv => RingHoldsNewest /\ OverwrittenCounted
  BY DEF IInv
<1>2. QED
  BY <1>1, IInvAlways, PTL

\* However the producer and the readers interleave, a reader gets only frames
\* that were published, in order (snapshot, latest).
THEOREM ReadsPublished == Spec => []ReadsArePublished
<1>1. IInv => ReadsArePublished
  BY DEF IInv, ReaderInv, GotOrdered, ReadsArePublished
<1>2. QED
  BY <1>1, IInvAlways, PTL

\* A snapshot misses only frames of its window that were replaced meanwhile.
THEOREM SnapshotsComplete == Spec => []SnapshotMissesOnlyReplaced
<1>1. IInv => SnapshotMissesOnlyReplaced
  BY DEF IInv, ReaderInv, NotOverlooked, SnapshotMissesOnlyReplaced
<1>2. QED
  BY <1>1, IInvAlways, PTL

\* latest() returns nothing older than what was newest when it was called, and
\* gives up only after the producer has lapped it twice.
THEOREM LatestFresh == Spec => []LatestIsFresh
<1>1. IInv => LatestIsFresh
  BY DEF IInv, ReaderInv, LatestResult, LatestIsFresh
<1>2. QED
  BY <1>1, IInvAlways, PTL
=============================================================================
