----------------------------- MODULE FrameBuffer -----------------------------
(***************************************************************************)
(* The lock-free latest-frame ring of one camera (FrameBuffer): one        *)
(* producer, the capture thread, that never waits, and any number of       *)
(* readers, the main loop (snapshot, latest) and the preview (latest).     *)
(*                                                                         *)
(* One action is one access to an atomic: a slot holding a shared_ptr or   *)
(* published_count_.  A reader that is overtaken finds an entry with a     *)
(* later sequence number in its slot and discards it.                      *)
(*                                                                         *)
(* An operator named X_Y is a faulty version of the operator X; it is not  *)
(* part of the specification.                                              *)
(***************************************************************************)
EXTENDS Integers, Sequences

CONSTANTS Capacity,     \* kCapacity
          Readers,      \* threads that call snapshot and latest
          NoEntry,      \* the null shared_ptr of an unused slot
          MaxPushes     \* bound: frames pushed between two calls of clear

ASSUME CapacityAssumption == Capacity \in Nat \ {0}
ASSUME NoEntryAssumption == NoEntry \notin [sequence : Nat, packet : Nat]
ASSUME MaxPushesAssumption == MaxPushes \in Nat

VARIABLES slots,              \* slots_
          published,          \* published_count_
          overwritten,        \* overwritten_count_
          wpc,                \* where the producer is in push
          sequence,           \* its local sequence number
          frame,              \* the packet of its current or last push
          reader              \* reader[r]: local variables of r's last call

writer == <<slots, published, overwritten, wpc, sequence, frame>>
vars == <<slots, published, overwritten, wpc, sequence, frame, reader>>

Slot(seq) == seq % Capacity
Entry(seq, packet) == [sequence |-> seq, packet |-> packet]

\* pc      where the reader is; a finished call says how it ended
\* first   published_count_ as the call first loaded it (history)
\* end     published_count_ as the call last loaded it
\* next    the sequence number whose slot is read next
\* attempt attempts of latest() begun
\* got     entries collected so far
Call(pc, count, next, attempt) ==
    [pc |-> pc, first |-> count, end |-> count, next |-> next,
     attempt |-> attempt, got |-> <<>>]
Idle == Call("idle", 0, 0, 0)
Resting(r) == reader[r].pc \in {"idle", "snapped", "found", "none"}

Init ==
    /\ slots = [s \in 0..(Capacity - 1) |-> NoEntry]
    /\ published = 0 /\ overwritten = 0
    /\ wpc = "idle" /\ sequence = 0 /\ frame = 0
    /\ reader = [r \in Readers |-> Idle]
-----------------------------------------------------------------------------
(* push.  Frames are numbered in the order in which they are pushed.        *)

PushLoadCount ==
    /\ wpc = "idle" /\ frame < MaxPushes
    /\ sequence' = published
    /\ frame' = frame + 1
    /\ wpc' = "store_slot"
    /\ UNCHANGED <<slots, published, overwritten, reader>>

PushStoreSlot_AtFrame ==
    /\ wpc = "store_slot"
    /\ slots' = [slots EXCEPT ![Slot(frame)] = Entry(sequence, frame)]
    /\ wpc' = "store_count"
    /\ UNCHANGED <<published, overwritten, sequence, frame, reader>>

PushStoreSlot ==
    /\ wpc = "store_slot"
    /\ slots' = [slots EXCEPT ![Slot(sequence)] = Entry(sequence, frame)]
    /\ wpc' = "store_count"
    /\ UNCHANGED <<published, overwritten, sequence, frame, reader>>

PushStoreCount ==
    /\ wpc = "store_count"
    /\ published' = sequence + 1
    /\ wpc' = IF sequence >= Capacity THEN "count_overwrite" ELSE "idle"
    /\ UNCHANGED <<slots, overwritten, sequence, frame, reader>>

PushCountOverwrite ==
    /\ wpc = "count_overwrite"
    /\ overwritten' = overwritten + 1
    /\ wpc' = "idle"
    /\ UNCHANGED <<slots, published, sequence, frame, reader>>

\* Only called when the producer is joined (openAll, after stop); the calling
\* thread is the main loop and the preview does not run yet.
Clear ==
    /\ wpc = "idle" /\ \A r \in Readers : Resting(r)
    /\ slots' = [s \in 0..(Capacity - 1) |-> NoEntry]
    /\ published' = 0 /\ overwritten' = 0
    /\ sequence' = 0 /\ frame' = 0
    /\ reader' = [r \in Readers |-> Idle]
    /\ UNCHANGED wpc
-----------------------------------------------------------------------------
(* snapshot.                                                                *)

Begin(end) == IF end > Capacity THEN end - Capacity ELSE 0

SnapshotLoadCount(r) ==
    /\ Resting(r)
    /\ LET pc == IF published = 0 THEN "snapped" ELSE "snap_slot"
       IN  reader' = [reader EXCEPT ![r] = Call(pc, published, Begin(published), 0)]
    /\ UNCHANGED writer

Matches_NonNull(entry, seq) == entry # NoEntry

\* The entry is the one looked for.
Matches(entry, seq) == entry # NoEntry /\ entry.sequence = seq

SnapshotLoadSlot_StopsEarly(r) ==
    /\ reader[r].pc = "snap_slot"
    /\ LET next == reader[r].next
           entry == slots[Slot(next)]
       IN  reader' = [reader EXCEPT
              ![r].got = IF Matches(entry, next) THEN Append(@, entry) ELSE @,
              ![r].next = next + 1,
              ![r].pc = IF next + 1 = reader[r].end \/ ~Matches(entry, next)
                        THEN "snapped" ELSE "snap_slot"]
    /\ UNCHANGED writer

SnapshotLoadSlot(r) ==
    /\ reader[r].pc = "snap_slot"
    /\ LET next == reader[r].next
           entry == slots[Slot(next)]
       IN  reader' = [reader EXCEPT
              ![r].got = IF Matches(entry, next) THEN Append(@, entry) ELSE @,
              ![r].next = next + 1,
              ![r].pc = IF next + 1 = reader[r].end THEN "snapped" ELSE "snap_slot"]
    /\ UNCHANGED writer
-----------------------------------------------------------------------------
(* latest: two attempts to read the newest entry.                           *)

LatestLoadCount(r) ==
    /\ Resting(r)
    /\ reader' = [reader EXCEPT ![r] =
          IF published = 0 THEN Call("none", 0, 0, 1)
                           ELSE Call("latest_slot", published, published - 1, 1)]
    /\ UNCHANGED writer

LatestReloadCount_Stale(r) ==
    /\ reader[r].pc = "latest_count"
    /\ reader' = [reader EXCEPT ![r].pc = "latest_slot"]
    /\ UNCHANGED writer

LatestReloadCount(r) ==
    /\ reader[r].pc = "latest_count"
    /\ reader' = [reader EXCEPT ![r].pc = IF published = 0 THEN "none" ELSE "latest_slot",
                                ![r].end = published,
                                ![r].next = published - 1]
    /\ UNCHANGED writer

LatestLoadSlot(r) ==
    /\ reader[r].pc = "latest_slot"
    /\ LET entry == slots[Slot(reader[r].next)] IN
       \/ /\ Matches(entry, reader[r].next)
          /\ reader' = [reader EXCEPT ![r].got = <<entry>>, ![r].pc = "found"]
       \/ /\ ~Matches(entry, reader[r].next) /\ reader[r].attempt < 2
          /\ reader' = [reader EXCEPT ![r].attempt = @ + 1, ![r].pc = "latest_count"]
       \/ /\ ~Matches(entry, reader[r].next) /\ reader[r].attempt = 2
          /\ reader' = [reader EXCEPT ![r].pc = "none"]
    /\ UNCHANGED writer
-----------------------------------------------------------------------------
PushStep == PushLoadCount \/ PushStoreSlot \/ PushStoreCount \/ PushCountOverwrite
ReadStep(r) ==
    \/ SnapshotLoadCount(r) \/ SnapshotLoadSlot(r)
    \/ LatestLoadCount(r) \/ LatestReloadCount(r) \/ LatestLoadSlot(r)

Next == PushStep \/ Clear \/ \E r \in Readers : ReadStep(r)

Spec == Init /\ [][Next]_vars
-----------------------------------------------------------------------------
ReaderPc == {"idle", "snap_slot", "snapped", "latest_slot", "latest_count",
             "found", "none"}
Entries == [sequence : Nat, packet : Nat]

\* Every variable has its type.
TypeOK ==
    /\ slots \in [0..(Capacity - 1) -> Entries \cup {NoEntry}]
    /\ published \in Nat /\ overwritten \in Nat
    /\ wpc \in {"idle", "store_slot", "store_count", "count_overwrite"}
    /\ sequence \in Nat /\ frame \in Nat
    /\ reader \in [Readers -> [pc : ReaderPc, first : Nat, end : Nat, next : Nat,
                               attempt : 0..2, got : Seq(Entries)]]

\* The newest sequence number whose entry has been stored, plus one: while push
\* is between its two stores the ring is one entry ahead of published_count_.
Stored == IF wpc = "store_count" THEN published + 1 ELSE published

\* The sequence numbers of the newest Capacity entries out of end.
Window(end) == {s \in 0..(end - 1) : s + Capacity >= end}

\* The last Capacity entries stored are in the ring, each in its slot with the
\* frame pushed under that number: push overwrites exactly the oldest one.
RingHoldsNewest ==
    \A s \in Window(Stored) : slots[Slot(s)] = Entry(s, s + 1)

\* What a reader returns was published, in publication order without repetition,
\* and lies in the window its call observed: an entry replaced under its hands
\* is never taken for the one it looked for (snapshot, latest).
ReadsArePublished ==
    \A r \in Readers : LET got == reader[r].got IN
        /\ \A i \in 1..Len(got) :
              /\ got[i].packet = got[i].sequence + 1
              /\ got[i].sequence \in Window(reader[r].end)
        /\ \A i, j \in 1..Len(got) : i < j => got[i].sequence < got[j].sequence

\* A snapshot misses an entry of its window only if the producer has replaced
\* it since the call began: nothing that stayed in the ring is overlooked.
Collected(r) == {reader[r].got[i].sequence : i \in 1..Len(reader[r].got)}
SnapshotMissesOnlyReplaced ==
    \A r \in Readers : \A s \in Window(reader[r].end) :
        \/ s \in Collected(r)
        \/ s + Capacity < Stored
        \/ reader[r].pc = "snap_slot" /\ s >= reader[r].next
        \/ reader[r].pc \notin {"snap_slot", "snapped"}

\* latest() returns a frame at least as new as the newest one when it was
\* called, and nothing only if the ring was empty or the producer gained a lap
\* on the reader in both attempts.
LatestIsFresh ==
    \A r \in Readers :
        /\ reader[r].pc = "found" => reader[r].got[1].sequence >= reader[r].first - 1
        /\ reader[r].pc = "none" /\ reader[r].first > 0 =>
              published >= reader[r].first + 2 * (Capacity - 1)

\* overwritten_count_ lags by at most the push in progress.
OverwrittenCounted ==
    LET counted == overwritten + (IF wpc = "count_overwrite" THEN 1 ELSE 0)
    IN  counted = IF published > Capacity THEN published - Capacity ELSE 0
-----------------------------------------------------------------------------
(* The inductive invariant behind the properties above.                     *)

\* The producer's local variables against the counters.
WriterInv ==
    /\ wpc \in {"store_slot", "store_count"} => sequence = published /\ frame = published + 1
    /\ wpc = "count_overwrite" => sequence + 1 = published /\ sequence >= Capacity
    /\ wpc \in {"idle", "count_overwrite"} => frame = published

SlotsSound ==
    \A i \in 0..(Capacity - 1) :
        slots[i] # NoEntry => slots[i].packet = slots[i].sequence + 1

\* A call in progress: what it loaded and how far it got.
CallInv(r) ==
    /\ reader[r].first <= reader[r].end /\ reader[r].end <= published
    /\ reader[r].pc = "snap_slot" =>
          reader[r].next \in Window(reader[r].end)
    /\ reader[r].pc \in {"latest_slot", "latest_count"} =>
          /\ reader[r].end > 0 /\ reader[r].got = <<>>
          /\ reader[r].next = reader[r].end - 1
          /\ reader[r].attempt \in 1..2
    /\ reader[r].pc = "latest_slot" /\ reader[r].attempt = 2 =>
          reader[r].end >= reader[r].first + Capacity - 1
    /\ reader[r].pc = "latest_count" =>
          reader[r].attempt = 2 /\ published >= reader[r].first + Capacity - 1

\* What a call has collected.
GotOrdered(r) ==
    /\ \A i \in 1..Len(reader[r].got) :
          /\ reader[r].got[i].packet = reader[r].got[i].sequence + 1
          /\ reader[r].got[i].sequence \in Window(reader[r].end)
          /\ reader[r].pc = "snap_slot" => reader[r].got[i].sequence < reader[r].next
    /\ \A i, j \in 1..Len(reader[r].got) :
          i < j => reader[r].got[i].sequence < reader[r].got[j].sequence

\* What a snapshot can only have missed by being lapped.
NotOverlooked(r) ==
    \A s \in Window(reader[r].end) :
        \/ s \in Collected(r)
        \/ s + Capacity < Stored
        \/ reader[r].pc = "snap_slot" /\ s >= reader[r].next
        \/ reader[r].pc \notin {"snap_slot", "snapped"}

LatestResult(r) ==
    /\ reader[r].pc = "found" =>
          Len(reader[r].got) = 1 /\ reader[r].got[1].sequence >= reader[r].first - 1
    /\ reader[r].pc = "none" /\ reader[r].first > 0 =>
          published >= reader[r].first + 2 * (Capacity - 1)

ReaderInv(r) ==
    CallInv(r) /\ GotOrdered(r) /\ NotOverlooked(r) /\ LatestResult(r)

IInv ==
    /\ TypeOK /\ WriterInv /\ SlotsSound /\ RingHoldsNewest /\ OverwrittenCounted
    /\ \A r \in Readers : ReaderInv(r)
=============================================================================
