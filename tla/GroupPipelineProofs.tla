------------------------- MODULE GroupPipelineProofs -------------------------
(***************************************************************************)
(* Proofs about GroupPipeline, for any cameras, ring, queue and period:    *)
(* the variables keep their types, a cycle that is passed over is gone,    *)
(* groups reach the ISP in order, and the image pool is large enough.      *)
(***************************************************************************)
EXTENDS GroupPipeline, TLAPS, SequenceTheorems, FiniteSetTheorems, WellFoundedInduction
-----------------------------------------------------------------------------
(* The selector.                                                            *)

\* What the loop of advanceOutputTimestamp achieves: the first output time
\* after ts, a whole number of periods on.
LEMMA AdvanceCorrect ==
    ASSUME NEW n \in Nat, NEW ts \in Nat, ts >= n
    PROVE  \E k \in Nat \ {0} :
              /\ Advance(n, ts) = n + Period * k
              /\ Advance(n, ts) > ts
              /\ Advance(n, ts) - Period <= ts
<1> DEFINE d == ts - n
           q == d \div Period
<1>1. d \in Nat /\ ts = n + d
  OBVIOUS
<1> HIDE DEF d
<1>2. /\ q \in Nat /\ d = Period * q + (d % Period) /\ d % Period \in Nat
      /\ d % Period < Period
  BY <1>1, PeriodAssumption
<1>3. Advance(n, ts) = n + Period * (q + 1)
  BY DEF Advance, d
<1> HIDE DEF q
<1>4. PICK k \in Nat \ {0} : k = q + 1
  BY <1>2
<1>5. Advance(n, ts) = n + Period * k
  BY <1>3, <1>4
<1>6. Period * k = Period * q + Period
  BY <1>2, <1>4, PeriodAssumption
<1>7. PICK p \in Nat : p = Period * k
  BY <1>4, PeriodAssumption
<1>8. PICK r \in Nat : r = Period * q
  BY <1>2, PeriodAssumption
<1>9. Advance(n, ts) = n + p /\ p = r + Period
  BY <1>5, <1>6, <1>7, <1>8
<1>10. d = r + (d % Period)
  BY <1>2, <1>8
<1>11. n + p > ts /\ n + p - Period <= ts
  BY <1>1, <1>2, <1>9, <1>10, PeriodAssumption
<1>12. Advance(n, ts) > ts
  BY <1>9, <1>11
<1>13. Advance(n, ts) - Period <= ts
  BY <1>9, <1>11, PeriodAssumption
<1>14. QED
  BY <1>4, <1>5, <1>12, <1>13

\* A whole number of periods keeps the clock on its grid.
LEMMA GridStep ==
    ASSUME NEW a \in Nat, a % Period = 0, NEW k \in Nat
    PROVE  (a + Period * k) % Period = 0
<1>1. \A i \in Nat : i = Period * (i \div Period) + (i % Period)
  BY PeriodAssumption
<1>2. \A i \in Nat : i \div Period \in Nat /\ i % Period \in Nat /\ i % Period < Period
  BY PeriodAssumption
<1>3. Period * k \in Nat /\ a + Period * k \in Nat
  BY PeriodAssumption
<1>4. PICK q \in Nat : a = Period * q
  <2>1. a = Period * (a \div Period) + 0
    BY <1>1
  <2>2. a \div Period \in Nat
    BY <1>2
  <2>3. a = Period * (a \div Period)
    BY <2>1, <2>2, PeriodAssumption
  <2>4. QED
    BY <2>2, <2>3
<1>5. PICK p \in Nat, r \in Nat :
        a + Period * k = Period * p + r /\ r < Period /\ r = (a + Period * k) % Period
  BY <1>1, <1>2, <1>3
<1>6. r = Period * (q + k - p)
  BY <1>4, <1>5, PeriodAssumption
<1>7. CASE q + k - p >= 1
  <2>1. Period * (q + k - p) >= Period
    BY <1>7, PeriodAssumption
  <2>2. QED
    BY <1>5, <1>6, <2>1, PeriodAssumption
<1>8. CASE q + k - p <= -1
  <2>1. Period * (q + k - p) <= -Period
    BY <1>8, PeriodAssumption
  <2>2. QED
    BY <1>5, <1>6, <2>1, PeriodAssumption
<1>9. CASE q + k - p = 0
  BY <1>5, <1>6, <1>9, PeriodAssumption
<1>10. QED
  BY <1>7, <1>8, <1>9
-----------------------------------------------------------------------------
(* The inductive invariant.  Beside the properties themselves it says that  *)
(* a held group lies between the last output and the next output time, and  *)
(* that the clock has advanced at least one period for every output.        *)

BeforeFirst == next = 0 => output = 0 /\ last = 0 /\ pending = NoGroup /\ out = 0

Held ==
    /\ HasPending => next # 0 /\ pending = last /\ pending > out
    /\ next # 0 => 0 < first /\ first <= out /\ out <= last

ClockInv == next # 0 =>
    /\ output > 0
    /\ next >= first + output * Period
    /\ next - Period <= last /\ last < next
    /\ next - first \in Nat /\ (next - first) % Period = 0

RateInv == SelectorTypeOK /\ BeforeFirst /\ Held /\ ClockInv /\ EveryGroupAccounted

\* The invariant holds initially.
LEMMA RateInvInit == SelectorInit => RateInv
  BY DEF SelectorInit, RateInv, SelectorTypeOK, BeforeFirst, Held, ClockInv, EveryGroupAccounted,
         HasPending, NoGroup

\* reset returns to the initial state.
LEMMA RateInvReset == Reset => RateInv'
  BY DEF Reset, RateInv, SelectorTypeOK, BeforeFirst, Held, ClockInv, EveryGroupAccounted,
         HasPending, NoGroup

\* A rejected group is counted and changes nothing else.
LEMMA RateInvReject ==
    ASSUME RateInv, NEW complete \in BOOLEAN, NEW ts \in Int, Reject(complete, ts)
    PROVE  RateInv'
  BY DEF Reject, RateInv, SelectorTypeOK, BeforeFirst, Held, ClockInv, EveryGroupAccounted,
         HasPending, NoGroup

\* The first group starts the output clock.
LEMMA RateInvSelectFirst ==
    ASSUME RateInv, NEW ts \in Int, SelectFirst(ts)
    PROVE  RateInv'
<1>1. /\ ts \in Nat /\ ts > 0 /\ next' = ts + Period /\ first' = ts /\ last' = ts
      /\ out' = ts /\ output' = 1 /\ pending' = NoGroup /\ pending = NoGroup
      /\ input' = input + 1 /\ dropped' = dropped /\ output = 0
      /\ next' - first' = Period
  BY PeriodAssumption DEF SelectFirst, Valid, RateInv, BeforeFirst
<1>2. SelectorTypeOK'
  BY <1>1, PeriodAssumption DEF SelectFirst, RateInv, SelectorTypeOK, NoGroup
<1>3. Period % Period = 0
  BY PeriodAssumption
<1>4. ClockInv'
  BY <1>1, <1>3, PeriodAssumption DEF ClockInv
<1>5. QED
  BY <1>1, <1>2, <1>4, PeriodAssumption
     DEF RateInv, SelectorTypeOK, BeforeFirst, Held, EveryGroupAccounted, HasPending, NoGroup

\* Holding a group replaces the one held before.
LEMMA RateInvHold ==
    ASSUME RateInv, NEW ts \in Int, Hold(ts)
    PROVE  RateInv'
<1>1. /\ ts \in Nat /\ ts > 0 /\ ts > last /\ next # 0 /\ ts < next /\ last # 0
      /\ UNCHANGED <<next, output, invalid, first, out>>
      /\ last' = ts /\ pending' = ts
  BY DEF Hold, Valid, RateInv, SelectorTypeOK, Held
<1>2. SelectorTypeOK'
  BY <1>1 DEF Hold, RateInv, SelectorTypeOK
<1>3. ClockInv'
  BY <1>1, PeriodAssumption DEF RateInv, SelectorTypeOK, ClockInv
<1>4. Held' /\ BeforeFirst'
  BY <1>1 DEF RateInv, SelectorTypeOK, Held, BeforeFirst, HasPending, NoGroup
<1>5. EveryGroupAccounted'
  BY <1>1 DEF Hold, RateInv, SelectorTypeOK, EveryGroupAccounted, HasPending, NoGroup
<1>6. QED
  BY <1>2, <1>3, <1>4, <1>5 DEF RateInv

\* Whichever group is returned, the clock moves past the input.
LEMMA ClockMoves ==
    ASSUME RateInv, NEW ts \in Nat, next # 0, ts >= next,
           next' = Advance(next, ts), last' = ts, first' = first, output' = output + 1
    PROVE  ClockInv' /\ next' \in Nat /\ next' # 0
<1>1. /\ next \in Nat /\ first \in Nat /\ output \in Nat
      /\ next >= first + output * Period /\ next - first \in Nat
      /\ (next - first) % Period = 0
  BY DEF RateInv, SelectorTypeOK, ClockInv
<1>2. PICK k \in Nat \ {0} : /\ next' = next + Period * k
                             /\ next' > ts /\ next' - Period <= ts
  BY <1>1, AdvanceCorrect
<1>3. Period * k \in Nat /\ Period * k >= Period
  BY PeriodAssumption
<1>4. (output + 1) * Period = output * Period + Period /\ output * Period \in Nat
  BY <1>1, PeriodAssumption
<1>5. next' >= first + (output + 1) * Period
  BY <1>1, <1>2, <1>3, <1>4, PeriodAssumption
<1>6. next' - first = (next - first) + Period * k
  BY <1>1, <1>2, <1>3
<1>7. (next' - first) % Period = 0
  BY <1>1, <1>6, GridStep
<1>8. next' \in Nat /\ next' - first \in Nat /\ next' > ts
  BY <1>1, <1>2, <1>3
<1>9. QED
  BY <1>1, <1>2, <1>5, <1>7, <1>8 DEF ClockInv

\* The new group is returned.
LEMMA RateInvSelectNew ==
    ASSUME RateInv, NEW ts \in Int, SelectNew(ts)
    PROVE  RateInv'
<1>1. /\ ts \in Nat /\ ts > last /\ next # 0 /\ ts >= next
      /\ next' = Advance(next, ts) /\ last' = ts /\ first' = first
      /\ output' = output + 1 /\ out' = ts /\ pending' = NoGroup
  BY DEF SelectNew, Valid, RateInv, SelectorTypeOK, Held
<1>2. ClockInv' /\ next' \in Nat /\ next' # 0
  BY <1>1, ClockMoves
<1>3. SelectorTypeOK'
  BY <1>1, <1>2 DEF SelectNew, RateInv, SelectorTypeOK, NoGroup
<1>4. Held' /\ BeforeFirst'
  BY <1>1, <1>2 DEF RateInv, SelectorTypeOK, Held, BeforeFirst, HasPending
<1>5. EveryGroupAccounted'
  BY <1>1 DEF SelectNew, RateInv, SelectorTypeOK, EveryGroupAccounted, HasPending
<1>6. QED
  BY <1>2, <1>3, <1>4, <1>5 DEF RateInv

\* The held group is returned and the new one held in its place.
LEMMA RateInvSelectPending ==
    ASSUME RateInv, NEW ts \in Int, SelectPending(ts)
    PROVE  RateInv'
<1>1. /\ ts \in Nat /\ ts > last /\ next # 0 /\ ts >= next /\ HasPending
      /\ next' = Advance(next, ts) /\ last' = ts /\ first' = first
      /\ output' = output + 1 /\ out' = pending /\ pending' = ts
  BY DEF SelectPending, TakesNew, Valid, RateInv, SelectorTypeOK, Held
<1>2. ClockInv' /\ next' \in Nat /\ next' # 0
  BY <1>1, ClockMoves
<1>3. SelectorTypeOK'
  BY <1>1, <1>2 DEF SelectPending, RateInv, SelectorTypeOK
<1>4. Held' /\ BeforeFirst'
  BY <1>1, <1>2 DEF RateInv, SelectorTypeOK, Held, BeforeFirst, HasPending
<1>5. EveryGroupAccounted'
  BY <1>1 DEF SelectPending, RateInv, SelectorTypeOK, EveryGroupAccounted, HasPending, NoGroup
<1>6. QED
  BY <1>2, <1>3, <1>4, <1>5 DEF RateInv

\* Every step keeps the invariant.
LEMMA RateInvStep == RateInv /\ [SelectorNext]_selectorVars => RateInv'
<1>1. RateInv /\ UNCHANGED selectorVars => RateInv'
  BY DEF selectorVars, RateInv, SelectorTypeOK, BeforeFirst, Held, ClockInv, EveryGroupAccounted, HasPending
<1>2. -1..MaxTime \subseteq Int
  OBVIOUS
<1>3. QED
  BY <1>1, <1>2, RateInvReset, RateInvReject, RateInvSelectFirst, RateInvHold, RateInvSelectNew,
     RateInvSelectPending DEF SelectorNext, Select

\* RateInv is an invariant.
LEMMA RateInvAlways == SelectorSpec => []RateInv
  BY RateInvInit, RateInvStep, PTL DEF SelectorSpec

\* The state has its type in every reachable state.
THEOREM SelectorTypeCorrect == SelectorSpec => []SelectorTypeOK
<1>1. RateInv => SelectorTypeOK
  BY DEF RateInv
<1>2. QED
  BY <1>1, RateInvAlways, PTL

\* No group is lost or counted twice, and a held group is never stale.
THEOREM GroupsAccounted == SelectorSpec => [](EveryGroupAccounted /\ HeldIsNewer)
<1>1. RateInv => EveryGroupAccounted /\ HeldIsNewer
  BY DEF RateInv, Held, HeldIsNewer
<1>2. QED
  BY <1>1, RateInvAlways, PTL

\* The output clock stays within a period of the input, and the output rate is
\* never above one group per period.
THEOREM RateCorrect == SelectorSpec => [](ClockAhead /\ RateBounded)
<1>1. RateInv => ClockAhead
  BY DEF RateInv, Held, ClockInv, ClockAhead
<1>2. ASSUME RateInv
      PROVE  RateBounded
  <2>1. SUFFICES ASSUME output > 0
                 PROVE  (output - 1) * Period <= last - first
    BY DEF RateBounded
  <2>2. next # 0 /\ output \in Nat /\ {next, last, first} \subseteq Nat
    BY <1>2, <2>1 DEF RateInv, BeforeFirst, SelectorTypeOK
  <2>3. next >= first + output * Period /\ next - Period <= last
    BY <1>2, <2>2 DEF RateInv, ClockInv
  <2>4. (output - 1) * Period = output * Period - Period /\ output * Period \in Nat
    BY <2>2, PeriodAssumption
  <2>5. QED
    BY <2>2, <2>3, <2>4, PeriodAssumption
<1>3. QED
  BY <1>1, <1>2, RateInvAlways, PTL

\* Groups leave in strictly increasing time order.
THEOREM OutputsInOrder == SelectorSpec => OutputsIncrease
<1> DEFINE Ordered == out # 0 /\ out' # out => out' > out \/ out' = 0
<1>1. ASSUME RateInv, [SelectorNext]_selectorVars
      PROVE  [Ordered]_selectorVars
  <2>1. ASSUME NEW complete \in BOOLEAN, NEW ts \in Int, Select(complete, ts), out # 0
        PROVE  out' = out \/ out' > out
    BY <1>1, <2>1
       DEF Select, Reject, SelectFirst, Hold, SelectNew, SelectPending, TakesNew,
           RateInv, SelectorTypeOK, BeforeFirst, Held, Valid
  <2>2. QED
    BY <1>1, <2>1 DEF SelectorNext, Reset
<1>2. QED
  BY <1>1, RateInvAlways, PTL DEF SelectorSpec, OutputsIncrease
-----------------------------------------------------------------------------
(* Which group is returned.                                                 *)

\* The two branches of select that return a group after the first: the clock
\* passes the input, and the group held before and the new one compete.
LEMMA ReturnStep ==
    ASSUME RateInv, SelectorNext, output' = output + 1, next # 0
    PROVE  \E ts, chosen \in Nat :
              /\ last' = ts /\ out' = chosen /\ next' = Advance(next, ts)
              /\ ts >= next /\ last < next
              /\ ~HasPending => chosen = ts
              /\ HasPending => \/ chosen = ts /\ ts - next <= next - last
                               \/ chosen = last /\ ts - next > next - last
<1>1. ~Reset
  BY DEF Reset, RateInv, SelectorTypeOK
<1>2. PICK complete \in BOOLEAN, ts \in -1..MaxTime : Select(complete, ts)
  BY <1>1 DEF SelectorNext
<1>3. SelectNew(ts) \/ SelectPending(ts)
  <2>1. output \in Nat /\ output' # output
    BY DEF RateInv, SelectorTypeOK
  <2>2. ~Reject(complete, ts) /\ ~Hold(ts)
    BY <2>1 DEF Reject, Hold
  <2>3. ~SelectFirst(ts)
    BY DEF SelectFirst
  <2>4. QED
    BY <1>2, <2>2, <2>3 DEF Select
<1>4. ts \in Nat /\ last' = ts /\ ts >= next /\ next' = Advance(next, ts)
  BY <1>3 DEF SelectNew, SelectPending, Valid, RateInv, SelectorTypeOK
<1>5. next \in Nat /\ last \in Nat /\ last < next
  BY DEF RateInv, SelectorTypeOK, ClockInv
<1>6. CASE ~HasPending
  BY <1>3, <1>4, <1>5, <1>6 DEF SelectNew, SelectPending, TakesNew
<1>7. CASE HasPending
  <2>1. pending = last
    BY <1>7 DEF RateInv, Held
  <2>2. \/ out' = ts /\ ts - next <= next - last
        \/ out' = last /\ ~(ts - next <= next - last)
    BY <1>3, <1>7, <2>1 DEF SelectNew, SelectPending, TakesNew
  <2>3. QED
    BY <1>4, <1>5, <1>7, <2>2
<1>8. QED
  BY <1>6, <1>7

\* Everything accepted since the last output is no newer than the held group.
NewerInv == \A t \in newer : HasPending /\ t <= last

\* A group enters the history as it is held, and leaves it with the next output.
LEMMA NewerInvStep == RateInv /\ NewerInv /\ [SelectorNext]_selectorVars => NewerInv'
<1> SUFFICES ASSUME RateInv, NewerInv, [SelectorNext]_selectorVars
             PROVE  NewerInv'
  OBVIOUS
<1>1. CASE Reset
  BY <1>1 DEF Reset, NewerInv
<1>2. ASSUME NEW complete \in BOOLEAN, NEW ts \in Int, Select(complete, ts)
      PROVE  NewerInv'
  <2>1. CASE Reject(complete, ts)
    BY <2>1 DEF Reject, NewerInv, HasPending
  <2>2. CASE SelectFirst(ts)
    BY <2>2 DEF SelectFirst, NewerInv
  <2>3. CASE Hold(ts)
    <3>1. /\ ts \in Nat /\ ts > 0 /\ pending' = ts /\ last' = ts
          /\ newer' = newer \cup {ts}
      BY <2>3 DEF Hold, Valid
    <3>2. \A t \in newer : t \in Nat /\ t <= ts
      BY <2>3, <3>1 DEF Hold, Valid, NewerInv, RateInv, SelectorTypeOK, Held
    <3>3. QED
      BY <3>1, <3>2 DEF NewerInv, HasPending, NoGroup
  <2>4. CASE SelectNew(ts)
    BY <2>4 DEF SelectNew, NewerInv
  <2>5. CASE SelectPending(ts)
    BY <2>5 DEF SelectPending, Valid, NewerInv, HasPending, NoGroup
  <2>6. QED
    BY <1>2, <2>1, <2>2, <2>3, <2>4, <2>5 DEF Select
<1>3. CASE UNCHANGED selectorVars
  BY <1>3 DEF selectorVars, NewerInv, HasPending
<1>4. QED
  BY <1>1, <1>2, <1>3 DEF SelectorNext

\* The group returned is the nearest to the output time of all that came since
\* the previous output (the class comment of FrameRateSelector).
THEOREM NearestReturned == SelectorSpec => NearestChosen
<1> DEFINE Nearest == output' = output + 1 /\ next # 0 =>
              \A ts \in newer \cup {last'} : Distance(out', next) <= Distance(ts, next)
<1>1. ASSUME RateInv, NewerInv, [SelectorNext]_selectorVars
      PROVE  [Nearest]_selectorVars
  <2>1. SUFFICES ASSUME SelectorNext, output' = output + 1, next # 0,
                        NEW t \in newer \cup {last'}
                 PROVE  Distance(out', next) <= Distance(t, next)
    BY <1>1
  <2>2. PICK ts \in Nat, chosen \in Nat :
              /\ last' = ts /\ out' = chosen
              /\ ts >= next /\ last < next
              /\ ~HasPending => chosen = ts
              /\ HasPending => \/ chosen = ts /\ ts - next <= next - last
                               \/ chosen = last /\ ts - next > next - last
    BY <1>1, <2>1, ReturnStep
  <2>3. next \in Nat /\ last \in Nat
    BY <1>1 DEF RateInv, SelectorTypeOK
  <2>4. CASE t = ts
    BY <2>2, <2>3, <2>4 DEF Distance
  <2>5. CASE t \in newer
    <3>1. HasPending /\ t \in Nat /\ t <= last
      BY <1>1, <2>5 DEF NewerInv, RateInv, SelectorTypeOK
    <3>2. QED
      BY <2>2, <2>3, <3>1 DEF Distance
  <2>6. QED
    BY <2>1, <2>2, <2>4, <2>5
<1>2. SelectorInit => NewerInv
  BY DEF SelectorInit, NewerInv
<1>3. QED
  BY <1>1, <1>2, NewerInvStep, RateInvAlways, PTL DEF SelectorSpec, NearestChosen

\* While inputs come at least once a period no output time is skipped, and a
\* group returned although another was held is at most half a gap off.
THEOREM NoTimeSkipped == SelectorSpec => ServedOnTime
<1> DEFINE OnTime == output' = output + 1 /\ next # 0 =>
                       /\ last' - last <= Period => next' = next + Period
                       /\ HasPending => 2 * Distance(out', next) <= last' - last
<1>1. ASSUME RateInv, [SelectorNext]_selectorVars
      PROVE  [OnTime]_selectorVars
  <2>1. SUFFICES ASSUME SelectorNext, output' = output + 1, next # 0
                 PROVE  OnTime
    BY <1>1
  <2>2. PICK ts \in Nat, chosen \in Nat :
              /\ last' = ts /\ out' = chosen /\ next' = Advance(next, ts)
              /\ ts >= next /\ last < next
              /\ HasPending => \/ chosen = ts /\ ts - next <= next - last
                               \/ chosen = last /\ ts - next > next - last
    BY <1>1, <2>1, ReturnStep
  <2>3. next \in Nat /\ last \in Nat
    BY <1>1 DEF RateInv, SelectorTypeOK
  <2>4. ASSUME ts - last <= Period
        PROVE  next' = next + Period
    <3>1. PICK k \in Nat \ {0} : /\ Advance(next, ts) = next + Period * k
                                 /\ Advance(next, ts) - Period <= ts
      BY <2>2, <2>3, AdvanceCorrect
    <3>2. PICK p \in Nat : p = Period * k
      BY PeriodAssumption
    <3>3. k >= 2 => p >= Period + Period
      BY <3>2, PeriodAssumption
    <3>4. Advance(next, ts) = next + p
      BY <3>1, <3>2
    <3>5. Advance(next, ts) - Period <= ts
      BY <3>1
    <3>6. k < 2
      BY <2>2, <2>3, <2>4, <3>3, <3>4, <3>5, PeriodAssumption
    <3>7. QED
      BY <2>2, <3>1, <3>6, PeriodAssumption
  <2>5. ASSUME HasPending
        PROVE  2 * Distance(chosen, next) <= ts - last
    BY <2>2, <2>3, <2>5 DEF Distance
  <2>6. QED
    BY <2>2, <2>4, <2>5
<1>2. QED
  BY <1>1, RateInvAlways, PTL DEF SelectorSpec, ServedOnTime
-----------------------------------------------------------------------------
(* The pipeline.                                                            *)

-----------------------------------------------------------------------------
(* Numbers.                                                                 *)

\* A set of numbers that is not empty has a least one.
LEMMA LeastNumber ==
    ASSUME NEW S, S \subseteq Nat, S # {}
    PROVE  \E x \in S : \A y \in S : x <= y
<1> DEFINE Less == OpToRel(<, Nat)
<1>1. IsWellFoundedOn(Less, Nat)
  BY NatLessThanWellFounded
<1>2. \A x, y \in Nat : y < x => <<y, x>> \in Less
  BY DEF OpToRel
<1> HIDE DEF Less
<1>3. PICK x \in S : \A y \in S : ~ (<<y, x>> \in Less)
  BY <1>1, WFMin
<1>4. \A y \in S : ~ (y < x)
  BY <1>2, <1>3
<1>5. \A y \in S : x <= y
  BY <1>4
<1>6. QED
  BY <1>5

\* Timestamps are ordered as their cycles are.
LEMMA SpacingGrows ==
    ASSUME NEW a \in Nat, NEW b \in Nat
    PROVE  /\ Spacing * a \in Nat
           /\ a < b <=> Spacing * a < Spacing * b
           /\ a > 0 <=> Spacing * a > 0
<1>1. Spacing \in Nat /\ Spacing >= 1
  BY SizesAssumption
<1>2. Spacing * a \in Nat /\ Spacing * b \in Nat
  BY <1>1
<1>3. ASSUME NEW x \in Nat, NEW y \in Nat, x < y PROVE Spacing * x < Spacing * y
  <2>1. Spacing * (y - x) = Spacing * y - Spacing * x
    BY <1>1
  <2>2. Spacing * (y - x) >= 1
    <3>1. y - x \in Nat /\ y - x >= 1
      BY <1>3
    <3>2. QED
      BY <1>1, <3>1
  <2>3. Spacing * x \in Nat /\ Spacing * y \in Nat
    BY <1>1
  <2>4. QED
    BY <2>1, <2>2, <2>3
<1>4. a < b => Spacing * a < Spacing * b
  BY <1>3
<1>5. b < a => Spacing * b < Spacing * a
  BY <1>3
<1>6. a > 0 => Spacing * a > 0
  <2>1. a > 0 => Spacing * 0 < Spacing * a
    BY <1>3
  <2>2. QED
    BY <1>1, <2>1
<1>7. a = 0 => Spacing * a = 0
  BY <1>1
<1>8. QED
  BY <1>2, <1>4, <1>5, <1>6, <1>7

\* The group of a timestamp.
LEMMA GroupOfTime ==
    ASSUME NEW k \in Nat
    PROVE  (Spacing * k) \div Spacing = k
<1>1. Spacing \in Nat /\ Spacing >= 1
  BY SizesAssumption
<1> DEFINE t == Spacing * k
           q == t \div Spacing
<1>2. t \in Nat
  BY <1>1
<1> HIDE DEF t
<1>3. q \in Nat /\ t % Spacing \in 0..(Spacing - 1) /\ t = Spacing * q + (t % Spacing)
  BY <1>1, <1>2
<1> HIDE DEF q
<1>4. ~(q < k)
  <2> SUFFICES ASSUME q < k PROVE FALSE
    OBVIOUS
  <2>1. q + 1 < k \/ q + 1 = k
    BY <1>3
  <2>2. Spacing * (q + 1) <= Spacing * k
    BY <1>3, <2>1, SpacingGrows
  <2>3. Spacing * (q + 1) = Spacing * q + Spacing
    BY <1>1, <1>3
  <2>4. Spacing * q \in Nat
    BY <1>1, <1>3
  <2>5. QED
    BY <1>1, <1>3, <2>2, <2>3, <2>4 DEF t
<1>5. ~(k < q)
  <2>1. Spacing * q <= Spacing * k
    <3>1. Spacing * q \in Nat /\ t \in Nat
      BY <1>1, <1>2, <1>3
    <3>2. Spacing * q <= t
      BY <1>3, <3>1
    <3>3. QED
      BY <3>2 DEF t
  <2>2. QED
    BY <1>3, <2>1, SpacingGrows
<1>6. QED
  BY <1>3, <1>4, <1>5 DEF q, t

-----------------------------------------------------------------------------
(* Sequences.                                                               *)

\* The elements of a sequence.
LEMMA Elements ==
    ASSUME NEW q \in Seq(Nat)
    PROVE  /\ Len(q) \in Nat /\ DOMAIN q = 1..Len(q) /\ Range(q) \subseteq Nat
           /\ \A i \in 1..Len(q) : q[i] \in Nat /\ q[i] \in Range(q)
           /\ \A k \in Range(q) : \E i \in 1..Len(q) : q[i] = k
           /\ q = <<>> <=> Range(q) = {}
<1>1. /\ Len(q) \in Nat /\ DOMAIN q = 1..Len(q)
      /\ \A i \in 1..Len(q) : q[i] \in Nat
      /\ q = <<>> <=> Len(q) = 0
  OBVIOUS
<1>2. Range(q) = {q[i] : i \in 1..Len(q)}
  BY <1>1 DEF Range
<1>3. q = <<>> => Range(q) = {}
  BY <1>1, <1>2
<1>4. q # <<>> => q[1] \in Range(q)
  BY <1>1, <1>2
<1>5. QED
  BY <1>1, <1>2, <1>3, <1>4

LEMMA ElementsOfAppend ==
    ASSUME NEW q \in Seq(Nat), NEW k \in Nat
    PROVE  /\ Append(q, k) \in Seq(Nat) /\ Len(Append(q, k)) = Len(q) + 1
           /\ Range(Append(q, k)) = Range(q) \cup {k}
           /\ Append(q, k) # <<>>
           /\ Increasing(q) /\ (\A j \in Range(q) : j < k) => Increasing(Append(q, k))
<1>1. /\ Append(q, k) \in Seq(Nat) /\ Len(Append(q, k)) = Len(q) + 1
      /\ \A i \in 1..Len(q) : Append(q, k)[i] = q[i]
      /\ Append(q, k)[Len(q) + 1] = k
  BY AppendProperties
<1>2. Len(q) \in Nat
  OBVIOUS
<1>3. DOMAIN Append(q, k) = 1..(Len(q) + 1) /\ DOMAIN q = 1..Len(q)
  BY <1>1
<1> DEFINE r == Append(q, k)
<1> HIDE DEF r
<1>4. Range(r) = Range(q) \cup {k}
  BY <1>1, <1>2, <1>3 DEF Range, r
<1>5. ASSUME Increasing(q), \A j \in Range(q) : j < k PROVE Increasing(r)
  <2>1. \A i \in 1..Len(q) : q[i] < k
    BY <1>3, <1>5 DEF Range
  <2>2. \A i, j \in 1..Len(q) : i < j => q[i] < q[j]
    BY <1>5 DEF Increasing
  <2>3. QED
    BY <1>1, <1>2, <2>1, <2>2 DEF Increasing, r
<1>6. QED
  BY <1>1, <1>2, <1>4, <1>5 DEF r

LEMMA ElementsOfTail ==
    ASSUME NEW q \in Seq(Nat), q # <<>>
    PROVE  /\ Head(q) \in Nat /\ Head(q) \in Range(q)
           /\ Tail(q) \in Seq(Nat) /\ Len(Tail(q)) = Len(q) - 1
           /\ Range(q) = {Head(q)} \cup Range(Tail(q))
           /\ Increasing(q) => /\ Increasing(Tail(q))
                               /\ \A k \in Range(Tail(q)) : Head(q) < k
<1>1. /\ Head(q) = q[1] /\ Tail(q) \in Seq(Nat) /\ Len(Tail(q)) = Len(q) - 1
      /\ \A i \in 1..(Len(q) - 1) : Tail(q)[i] = q[i + 1]
      /\ Len(q) \in Nat \ {0}
  OBVIOUS
<1> DEFINE r == Tail(q)
           n == Len(q)
<1>2. DOMAIN r = 1..(n - 1) /\ DOMAIN q = 1..n /\ \A i \in 1..n : q[i] \in Nat
  BY <1>1
<1>3. Range(q) = {q[1]} \cup Range(r)
  <2>1. \A i \in 1..n : i = 1 \/ (i - 1 \in 1..(n - 1) /\ q[i] = r[i - 1])
    BY <1>1
  <2>2. \A i \in 1..(n - 1) : i + 1 \in 1..n /\ r[i] = q[i + 1]
    BY <1>1
  <2>3. 1 \in 1..n
    BY <1>1
  <2> HIDE DEF n, r
  <2>4. QED
    BY <1>2, <2>1, <2>2, <2>3 DEF Range
<1>4. ASSUME Increasing(q)
      PROVE  Increasing(r) /\ \A k \in Range(r) : q[1] < k
  <2>1. \A i, j \in 1..n : i < j => q[i] < q[j]
    BY <1>4 DEF Increasing
  <2>2. \A i, j \in 1..(n - 1) : i < j => r[i] < r[j]
    BY <1>1, <2>1
  <2>3. \A i \in 1..(n - 1) : q[1] < r[i]
    BY <1>1, <2>1
  <2> HIDE DEF r
  <2>4. Increasing(r)
    BY <1>1, <2>2 DEF Increasing, r
  <2>5. QED
    BY <1>2, <2>3, <2>4 DEF Range
<1>5. Head(q) \in Nat /\ Head(q) \in Range(q)
  <2>1. Head(q) = q[1] /\ q[1] \in Nat /\ 1 \in DOMAIN q
    BY <1>1, <1>2
  <2>2. QED
    BY <2>1 DEF Range
<1>6. QED
  <2> HIDE DEF r, n
  <2>1. r = Tail(q) /\ Head(q) = q[1]
    BY <1>1 DEF r
  <2>2. QED
    BY <1>1, <1>3, <1>4, <1>5, <2>1

\* A sequence has no more elements than places.
LEMMA ElementsBounded ==
    ASSUME NEW q \in Seq(Nat)
    PROVE  IsFiniteSet(Range(q)) /\ Cardinality(Range(q)) <= Len(q)
<1>1. Len(q) \in Nat /\ DOMAIN q = 1..Len(q) /\ q \in [1..Len(q) -> Nat]
  OBVIOUS
<1>2. Range(q) = {q[i] : i \in 1..Len(q)}
  BY <1>1 DEF Range
<1>3. q \in [1..Len(q) -> Range(q)]
  BY <1>1, <1>2
<1>4. q \in Surjection(1..Len(q), Range(q))
  BY <1>2, <1>3 DEF Surjection
<1>5. IsFiniteSet(1..Len(q)) /\ Cardinality(1..Len(q)) = Len(q)
  <2>1. /\ IsFiniteSet(1..Len(q))
        /\ Cardinality(1..Len(q)) = IF 1 > Len(q) THEN 0 ELSE Len(q) - 1 + 1
    BY <1>1, FS_Interval
  <2>2. QED
    BY <1>1, <2>1
<1>6. QED
  BY <1>4, <1>5, FS_Surjection

\* Two sequences in order, the second above the first, are in order together.
LEMMA OrderedConcat ==
    ASSUME NEW p \in Seq(Nat), NEW q \in Seq(Nat), NEW b \in Nat,
           Increasing(p), Increasing(q),
           \A k \in Range(p) : k <= b, \A k \in Range(q) : b < k
    PROVE  p \o q \in Seq(Nat) /\ Increasing(p \o q)
           /\ Range(p \o q) = Range(p) \cup Range(q)
<1> DEFINE m == Len(p)
           n == Len(q)
           r == p \o q
<1>1. /\ m \in Nat /\ n \in Nat
      /\ \A i \in 1..m : p[i] \in Nat /\ p[i] \in Range(p)
      /\ \A i \in 1..n : q[i] \in Nat /\ q[i] \in Range(q)
      /\ Range(p) = {p[i] : i \in 1..m} /\ Range(q) = {q[i] : i \in 1..n}
  BY Elements DEF Range
<1>2. /\ r \in Seq(Nat) /\ Len(r) = m + n
      /\ \A i \in 1..(m + n) : r[i] = IF i <= m THEN p[i] ELSE q[i - m]
  BY ConcatProperties
<1>3. Range(r) = {r[i] : i \in 1..(m + n)}
  <2>1. DOMAIN r = 1..(m + n)
    BY <1>2
  <2>2. QED
    BY <2>1 DEF Range
<1> HIDE DEF m, n, r
<1>4. \A i \in 1..m : i \in 1..(m + n) /\ r[i] = p[i]
  BY <1>1, <1>2
<1>5. \A i \in 1..n : i + m \in 1..(m + n) /\ r[i + m] = q[i]
  <2>1. \A i \in 1..n : i + m \in 1..(m + n) /\ ~(i + m <= m) /\ (i + m) - m = i
    BY <1>1
  <2>2. QED
    BY <1>2, <2>1
<1>6. \A i \in 1..(m + n) : i \in 1..m \/ (i - m \in 1..n /\ (i - m) + m = i)
  BY <1>1
<1>7. Range(r) = Range(p) \cup Range(q)
  <2>1. Range(r) \subseteq Range(p) \cup Range(q)
    <3> SUFFICES ASSUME NEW i \in 1..(m + n) PROVE r[i] \in Range(p) \cup Range(q)
      BY <1>3
    <3>1. CASE i \in 1..m
      BY <1>1, <1>4, <3>1
    <3>2. CASE i - m \in 1..n /\ (i - m) + m = i
      BY <1>1, <1>5, <3>2
    <3>3. QED
      BY <1>6, <3>1, <3>2
  <2>2. Range(p) \subseteq Range(r)
    BY <1>1, <1>3, <1>4
  <2>3. Range(q) \subseteq Range(r)
    BY <1>1, <1>3, <1>5
  <2>4. QED
    BY <2>1, <2>2, <2>3
<1>8. \A i, j \in 1..m : i < j => p[i] < p[j]
  BY DEF Increasing, m
<1>9. \A i, j \in 1..n : i < j => q[i] < q[j]
  BY DEF Increasing, n
<1>10. \A i \in 1..m, j \in 1..n : p[i] < q[j]
  <2> SUFFICES ASSUME NEW i \in 1..m, NEW j \in 1..n PROVE p[i] < q[j]
    OBVIOUS
  <2>1. p[i] \in Nat /\ q[j] \in Nat /\ p[i] <= b /\ b < q[j]
    BY <1>1
  <2>2. QED
    BY <2>1
<1>11. Increasing(r)
  <2> SUFFICES ASSUME NEW i \in 1..(m + n), NEW j \in 1..(m + n), i < j
               PROVE  r[i] < r[j]
    BY <1>2 DEF Increasing
  <2>1. CASE i \in 1..m /\ j \in 1..m
    BY <1>4, <1>8, <2>1
  <2>2. CASE i \in 1..m /\ j \notin 1..m
    <3>1. j - m \in 1..n /\ r[j] = q[j - m]
      BY <1>5, <1>6, <2>2
    <3>2. QED
      BY <1>4, <1>10, <2>2, <3>1
  <2>3. CASE i \notin 1..m
    <3>1. i - m \in 1..n /\ r[i] = q[i - m]
      BY <1>5, <1>6, <2>3
    <3>2. j \notin 1..m
      BY <1>1, <2>3
    <3>3. j - m \in 1..n /\ r[j] = q[j - m]
      BY <1>5, <1>6, <3>2
    <3>4. i - m < j - m
      BY <1>1
    <3>5. QED
      BY <1>9, <3>1, <3>3, <3>4
  <2>4. QED
    BY <2>1, <2>2, <2>3
<1>12. QED
  BY <1>2, <1>7, <1>11 DEF r

\* A finite set of numbers can be sorted: take the smallest set that could
\* not, and its least element out of it.
LEMMA Sortable ==
    ASSUME NEW S, S \subseteq Nat, IsFiniteSet(S)
    PROVE  \E q \in [1..Cardinality(S) -> S] : Increasing(q)
<1> DEFINE Orders(T) == {q \in [1..Cardinality(T) -> T] : Increasing(q)}
           Bad == {n \in Nat : \E T \in SUBSET Nat :
                      IsFiniteSet(T) /\ Cardinality(T) = n /\ Orders(T) = {}}
<1>1. Bad = {}
  <2> SUFFICES ASSUME Bad # {} PROVE FALSE
    OBVIOUS
  <2>1. PICK n \in Bad : \A m \in Bad : n <= m
    <3>1. Bad \subseteq Nat
      OBVIOUS
    <3> HIDE DEF Bad
    <3>2. QED
      BY <3>1, LeastNumber
  <2>2. PICK T \in SUBSET Nat : IsFiniteSet(T) /\ Cardinality(T) = n /\ Orders(T) = {}
    OBVIOUS
  <2>3. CASE n = 0
    <3>1. 1..n = {}
      BY <2>3
    <3> DEFINE q == [i \in 1..n |-> 0]
    <3>2. q \in [1..Cardinality(T) -> T]
      BY <2>2, <3>1
    <3>3. q = <<>> /\ Len(q) = 0
      BY <3>1, <2>3
    <3>4. Increasing(q)
      BY <3>3 DEF Increasing
    <3>5. QED
      BY <2>2, <3>2, <3>4
  <2>4. CASE n # 0
    <3>1. T # {}
      BY <2>2, <2>4, FS_EmptySet
    <3>2. PICK x \in T : \A y \in T : x <= y
      BY <3>1, LeastNumber
    <3> DEFINE R == T \ {x}
    <3>3. n \in Nat /\ x \in Nat /\ n - 1 \in Nat
      BY <2>4
    <3>4. IsFiniteSet(R) /\ Cardinality(R) = n - 1
      BY <2>2, FS_RemoveElement
    <3>5. n - 1 \notin Bad
      BY <2>1, <3>3
    <3>6. Orders(R) # {}
      <4>1. R \in SUBSET Nat
        OBVIOUS
      <4>2. QED
        BY <3>3, <3>4, <3>5, <4>1
    <3>7. PICK q \in [1..(n - 1) -> R] : Increasing(q)
      BY <3>4, <3>6
    <3>8. Len(q) = n - 1
      <4>1. q \in Seq(R)
        BY <3>3, <3>7
      <4>2. QED
        BY <3>3, <3>7, <4>1
    <3>9. \A i, j \in 1..(n - 1) : i < j => q[i] < q[j]
      BY <3>7, <3>8 DEF Increasing
    <3> DEFINE r == [i \in 1..n |-> IF i = 1 THEN x ELSE q[i - 1]]
    <3>10. \A i \in 1..n : i = 1 \/ (i - 1 \in 1..(n - 1) /\ q[i - 1] \in R)
      BY <3>3, <3>7
    <3>11. r \in [1..n -> T]
      BY <3>10, <3>2
    <3>12. Len(r) = n
      <4>1. r \in Seq(T)
        BY <3>3, <3>11
      <4>2. QED
        BY <3>3, <3>11, <4>1
    <3>13. \A i, j \in 1..n : i < j => r[i] < r[j]
      <4> SUFFICES ASSUME NEW i \in 1..n, NEW j \in 1..n, i < j PROVE r[i] < r[j]
        OBVIOUS
      <4>1. j # 1 /\ r[j] = q[j - 1] /\ j - 1 \in 1..(n - 1) /\ q[j - 1] \in R
        BY <3>10
      <4>2. CASE i = 1
        <5>1. r[i] = x
          BY <4>2
        <5>2. q[j - 1] \in Nat /\ x <= q[j - 1] /\ x # q[j - 1]
          BY <3>2, <4>1
        <5>3. QED
          BY <3>3, <4>1, <5>1, <5>2
      <4>3. CASE i # 1
        <5>1. r[i] = q[i - 1] /\ i - 1 \in 1..(n - 1) /\ i - 1 < j - 1
          BY <3>3, <3>10, <4>3
        <5>2. QED
          BY <3>9, <4>1, <5>1
      <4>4. QED
        BY <4>2, <4>3
    <3> HIDE DEF r
    <3>14. Increasing(r)
      BY <3>12, <3>13 DEF Increasing
    <3>15. QED
      BY <2>2, <3>11, <3>14
  <2>5. QED
    BY <2>3, <2>4
<1>2. Cardinality(S) \in Nat
  BY FS_CardinalityType
<1>3. Orders(S) # {}
  BY <1>1, <1>2
<1>4. QED
  BY <1>3

\* What Sorted returns.
LEMMA SortedFacts ==
    ASSUME NEW S, S \subseteq Nat, IsFiniteSet(S)
    PROVE  Sorted(S) \in Seq(Nat) /\ Increasing(Sorted(S)) /\ Range(Sorted(S)) = S
<1> DEFINE n == Cardinality(S)
           q == Sorted(S)
<1>1. n \in Nat
  BY FS_CardinalityType
<1>2. q \in [1..n -> S] /\ Increasing(q)
  BY Sortable DEF Sorted
<1> HIDE DEF n, q
<1>3. q \in Seq(S) /\ q \in Seq(Nat) /\ Len(q) = n
  <2>1. q \in [1..n -> Nat]
    BY <1>2
  <2>2. q \in Seq(Nat)
    BY <1>1, <2>1
  <2>3. q \in Seq(S) /\ DOMAIN q = 1..n
    BY <1>1, <1>2
  <2>4. QED
    BY <1>1, <2>2, <2>3, LenProperties
<1>4. q \in Injection(1..n, S)
  <2>1. \A i, j \in 1..n : q[i] = q[j] => i = j
    <3> SUFFICES ASSUME NEW i \in 1..n, NEW j \in 1..n, i # j PROVE q[i] # q[j]
      OBVIOUS
    <3>1. q[i] \in Nat /\ q[j] \in Nat
      BY <1>2
    <3>2. i < j \/ j < i
      BY <1>1
    <3>3. (i < j => q[i] < q[j]) /\ (j < i => q[j] < q[i])
      BY <1>2, <1>3 DEF Increasing
    <3>4. QED
      BY <3>1, <3>2, <3>3
  <2>2. QED
    BY <1>2, <2>1 DEF Injection, IsInjective
<1>5. IsFiniteSet(1..n) /\ Cardinality(1..n) = n
  <2>1. IsFiniteSet(1..n) /\ Cardinality(1..n) = IF 1 > n THEN 0 ELSE n - 1 + 1
    BY <1>1, FS_Interval
  <2>2. QED
    BY <1>1, <2>1
<1>6. q \in Surjection(1..n, S)
  BY <1>4, <1>5, FS_Injection DEF n
<1>7. Range(q) = S
  <2>1. DOMAIN q = 1..n
    BY <1>2
  <2>2. QED
    BY <1>2, <1>6, <2>1 DEF Range, Surjection
<1>8. QED
  BY <1>2, <1>3, <1>7 DEF q

-----------------------------------------------------------------------------
(* The cameras.                                                             *)

\* Every camera has one place in the group.
LEMMA CameraPlaces ==
    /\ Len(Cameras) \in Nat \ {0}
    /\ \A i \in 1..Len(Cameras) : Cameras[i] \in Ids
    /\ \A i, j \in 1..Len(Cameras) : Cameras[i] = Cameras[j] => i = j
    /\ \A c \in Ids : \E i \in 1..Len(Cameras) : Cameras[i] = c
BY CamerasAssumption DEF Ids, Range, IsInjective

\* The types of the variables, one by one.
LEMMA Types ==
    ASSUME TypeOK
    PROVE  /\ cycle \in Nat /\ lossy \in Nat /\ lastGroup \in Nat /\ gaps \in Nat
           /\ ispInput \in Nat /\ Capacity \in Nat \ {0} /\ QueueDepth \in Nat \ {0}
           /\ at \in 1..Len(Cameras) /\ Cameras[at] \in Ids
           /\ \A c \in Ids :
                 /\ ring[c] \in Seq(Nat) /\ exposed[c] \in Seq(Nat) /\ snapshots[c] \in Seq(Nat)
                 /\ Len(ring[c]) \in Nat /\ Len(snapshots[c]) \in Nat
                 /\ Len(ring[c]) <= Capacity /\ Len(snapshots[c]) <= Capacity
                 /\ exhausted[c] \in Nat
           /\ ring \in [Ids -> Seq(Nat)] /\ exposed \in [Ids -> Seq(Nat)]
           /\ snapshots \in [Ids -> Seq(Nat)] /\ exhausted \in [Ids -> Nat]
           /\ expected \in Seq(Nat) /\ groups \in Seq(Nat) /\ queue \in Seq(Nat)
           /\ Len(expected) \in Nat /\ Len(groups) \in Nat /\ Len(queue) \in Nat
<1>1. \A c \in Ids : /\ ring[c] \in Seq(Nat) /\ exposed[c] \in Seq(Nat)
                    /\ snapshots[c] \in Seq(Nat)
  BY DEF TypeOK
<1>2. expected \in Seq(Nat) /\ groups \in Seq(Nat) /\ queue \in Seq(Nat)
  BY DEF TypeOK
<1>3. \A q \in Seq(Nat) : Len(q) \in Nat
  OBVIOUS
<1>4. at \in 1..Len(Cameras) /\ Cameras[at] \in Ids
  BY CameraPlaces DEF TypeOK
<1>5. QED
  BY <1>1, <1>2, <1>3, <1>4, SizesAssumption DEF TypeOK

\* What a step of the cameras leaves as it was for the rest: the frames that
\* were gone stay so, those that leave a ring are, and cycles only increase.
CamerasKeep ==
    /\ cycle <= cycle'
    /\ \A c \in Ids : \A k \in Nat : Gone(c, k) => Gone(c, k)'
    /\ \A c \in Ids : \A k \in Range(ring[c]) : k \in Range(ring'[c]) \/ Gone(c, k)'

CameraTypes ==
    /\ cycle \in Nat /\ lossy \in Nat
    /\ exposed \in [Ids -> Seq(Nat)] /\ ring \in [Ids -> Seq(Nat)]
    /\ \A c \in Ids : Len(ring[c]) <= Capacity
    /\ exhausted \in [Ids -> Nat]

LEMMA CamerasTrigger ==
    ASSUME IInv, Trigger
    PROVE  CameraTypes' /\ RingsInv' /\ CamerasKeep
<1>0. TypeOK /\ RingsInv
  BY DEF IInv
<1>1. cycle' = cycle + 1 /\ cycle \in Nat /\ UNCHANGED ring
  BY <1>0, Types DEF Trigger
<1>2. PICK losers \in SUBSET Ids :
        /\ lossy' = IF losers = {} THEN lossy ELSE lossy + 1
        /\ exposed' = [c \in Ids |-> IF c \in losers THEN exposed[c]
                                     ELSE Append(exposed[c], cycle + 1)]
  BY DEF Trigger
<1>3. ASSUME NEW c \in Ids
      PROVE  /\ exposed'[c] \in Seq(Nat) /\ Increasing(exposed'[c])
             /\ Range(exposed'[c]) \subseteq Range(exposed[c]) \cup {cycle + 1}
  <2>1. exposed[c] \in Seq(Nat) /\ Increasing(exposed[c])
        /\ \A k \in Range(exposed[c]) : k \in 1..cycle
    BY <1>0, <1>3, Types DEF RingsInv
  <2>2. \A k \in Range(exposed[c]) : k < cycle + 1
    BY <1>1, <2>1
  <2>3. CASE c \in losers
    BY <1>2, <2>1, <2>3
  <2>4. CASE c \notin losers
    <3>1. exposed'[c] = Append(exposed[c], cycle + 1)
      BY <1>2, <2>4
    <3>2. QED
      BY <1>1, <2>1, <2>2, <3>1, ElementsOfAppend
  <2>5. QED
    BY <2>3, <2>4
<1>4. CameraTypes'
  <2>1. exposed' \in [Ids -> Seq(Nat)]
    BY <1>2, <1>3
  <2>2. lossy' \in Nat
    BY <1>0, <1>2, Types
  <2>3. UNCHANGED <<ring, exhausted>>
    BY DEF Trigger
  <2>4. ring \in [Ids -> Seq(Nat)] /\ exhausted \in [Ids -> Nat]
        /\ \A c \in Ids : Len(ring[c]) <= Capacity
    BY <1>0 DEF TypeOK
  <2>5. QED
    BY <1>1, <2>1, <2>2, <2>3, <2>4 DEF CameraTypes
<1>5. RingsInv'
  <2> SUFFICES ASSUME NEW c \in Ids
               PROVE  /\ Range(ring'[c]) \cup Range(exposed'[c]) \subseteq 1..cycle'
                      /\ Increasing(exposed'[c])
                      /\ \A k \in Range(ring'[c]), j \in Range(exposed'[c]) : k < j
    BY DEF RingsInv, Increasing
  <2>1. /\ Range(ring[c]) \cup Range(exposed[c]) \subseteq 1..cycle
        /\ \A k \in Range(ring[c]), j \in Range(exposed[c]) : k < j
    BY <1>0 DEF RingsInv
  <2>2. 1..cycle \subseteq 1..cycle' /\ cycle + 1 \in 1..cycle'
        /\ \A k \in 1..cycle : k < cycle + 1
    BY <1>1
  <2>3. QED
    BY <1>1, <1>3, <2>1, <2>2
<1>6. CamerasKeep
  <2>1. cycle <= cycle'
    BY <1>1
  <2>2. ASSUME NEW c \in Ids, NEW k \in Nat, Gone(c, k) PROVE Gone(c, k)'
    <3>1. k <= cycle /\ k # cycle + 1 /\ k <= cycle'
      BY <1>1, <2>2 DEF Gone
    <3>2. QED
      BY <1>1, <1>3, <2>2, <3>1 DEF Gone
  <2>3. QED
    BY <1>1, <2>1, <2>2 DEF CamerasKeep
<1>7. QED
  BY <1>4, <1>5, <1>6

LEMMA CamerasCapture ==
    ASSUME IInv, NEW b \in Ids, Capture(b)
    PROVE  CameraTypes' /\ RingsInv' /\ CamerasKeep
<1>0. TypeOK /\ RingsInv
  BY DEF IInv
<1> DEFINE e == Head(exposed[b])
<1>1. /\ e \in Nat /\ e \in Range(exposed[b]) /\ Tail(exposed[b]) \in Seq(Nat)
      /\ Range(exposed[b]) = {e} \cup Range(Tail(exposed[b]))
      /\ Increasing(Tail(exposed[b])) /\ \A k \in Range(Tail(exposed[b])) : e < k
  <2>1. exposed[b] \in Seq(Nat) /\ Increasing(exposed[b]) /\ exposed[b] # <<>>
    BY <1>0, Types DEF RingsInv, Capture
  <2>2. QED
    BY <2>1, ElementsOfTail
<1>2. UNCHANGED <<cycle, lossy>> /\ cycle \in Nat /\ lossy \in Nat
  BY <1>0, Types DEF Capture
<1>3. exposed' = [exposed EXCEPT ![b] = Tail(exposed[b])]
  BY DEF Capture
<1>4. \/ ring' = [ring EXCEPT ![b] = Newest(Append(ring[b], e))] /\ UNCHANGED exhausted
      \/ UNCHANGED ring /\ exhausted' = [exhausted EXCEPT ![b] = exhausted[b] + 1]
  BY DEF Capture
<1>5. /\ Newest(Append(ring[b], e)) \in Seq(Nat)
      /\ Len(Newest(Append(ring[b], e))) <= Capacity
      /\ Range(Newest(Append(ring[b], e))) \subseteq Range(ring[b]) \cup {e}
  <2> DEFINE r == Append(ring[b], e)
  <2>1. /\ r \in Seq(Nat) /\ Len(r) = Len(ring[b]) + 1 /\ r # <<>>
        /\ Range(r) = Range(ring[b]) \cup {e}
    BY <1>0, <1>1, Types, ElementsOfAppend
  <2>2. Len(ring[b]) \in Nat /\ Len(ring[b]) <= Capacity /\ Capacity \in Nat
    BY <1>0, Types
  <2> HIDE DEF r
  <2>3. /\ Tail(r) \in Seq(Nat) /\ Len(Tail(r)) = Len(r) - 1
        /\ Range(Tail(r)) \subseteq Range(r)
    BY <2>1, ElementsOfTail
  <2>4. CASE Len(r) > Capacity
    <3>1. Newest(r) = Tail(r)
      BY <2>4 DEF Newest
    <3>2. Len(Tail(r)) <= Capacity
      BY <2>1, <2>2, <2>3
    <3>3. Newest(r) \in Seq(Nat) /\ Len(Newest(r)) <= Capacity /\ Range(Newest(r)) \subseteq Range(r)
      BY <2>3, <3>1, <3>2
    <3>4. QED
      BY <2>1, <3>3 DEF r
  <2>5. CASE ~(Len(r) > Capacity)
    <3>1. Newest(r) = r
      BY <2>5 DEF Newest
    <3>2. Len(r) <= Capacity
      BY <2>1, <2>2, <2>5
    <3>3. QED
      BY <2>1, <3>1, <3>2 DEF r
  <2>6. QED
    BY <2>4, <2>5
<1> HIDE DEF e
<1>6. /\ exposed' \in [Ids -> Seq(Nat)] /\ ring' \in [Ids -> Seq(Nat)]
      /\ exhausted' \in [Ids -> Nat]
      /\ \A c \in Ids : Len(ring'[c]) <= Capacity
  <2>1. /\ exposed \in [Ids -> Seq(Nat)] /\ ring \in [Ids -> Seq(Nat)]
        /\ exhausted \in [Ids -> Nat] /\ \A c \in Ids : Len(ring[c]) <= Capacity
    BY <1>0 DEF TypeOK
  <2>2. exposed' \in [Ids -> Seq(Nat)]
    BY <1>1, <1>3, <2>1
  <2>3. ring' \in [Ids -> Seq(Nat)] /\ \A c \in Ids : Len(ring'[c]) <= Capacity
    BY <1>4, <1>5, <2>1
  <2>4. exhausted' \in [Ids -> Nat]
    <3>1. exhausted[b] + 1 \in Nat
      BY <2>1
    <3>2. QED
      BY <1>4, <2>1, <3>1
  <2>5. QED
    BY <2>2, <2>3, <2>4
<1>7. \A c \in Ids \ {b} : exposed'[c] = exposed[c] /\ ring'[c] = ring[c]
  BY <1>0, <1>3, <1>4 DEF TypeOK
<1>8. /\ exposed'[b] = Tail(exposed[b])
      /\ Range(ring'[b]) \subseteq Range(ring[b]) \cup {e}
  BY <1>0, <1>3, <1>4, <1>5 DEF TypeOK
<1>9. RingsInv'
  <2> SUFFICES ASSUME NEW c \in Ids
               PROVE  /\ Range(ring'[c]) \cup Range(exposed'[c]) \subseteq 1..cycle'
                      /\ Increasing(exposed'[c])
                      /\ \A k \in Range(ring'[c]), j \in Range(exposed'[c]) : k < j
    BY DEF RingsInv, Increasing
  <2>1. /\ Range(ring[c]) \cup Range(exposed[c]) \subseteq 1..cycle
        /\ Increasing(exposed[c])
        /\ \A k \in Range(ring[c]), j \in Range(exposed[c]) : k < j
    BY <1>0 DEF RingsInv
  <2>2. CASE c = b
    BY <1>1, <1>2, <1>8, <2>1, <2>2
  <2>3. CASE c # b
    BY <1>2, <1>7, <2>1, <2>3
  <2>4. QED
    BY <2>2, <2>3
<1>10. CamerasKeep
  <2>1. cycle <= cycle'
    BY <1>2
  <2>2. ASSUME NEW c \in Ids, NEW k \in Nat, Gone(c, k) PROVE Gone(c, k)'
    <3>1. k <= cycle /\ k \notin Range(ring[c]) \cup Range(exposed[c])
      BY <2>2 DEF Gone
    <3>2. Range(ring'[c]) \cup Range(exposed'[c])
             \subseteq Range(ring[c]) \cup Range(exposed[c])
      BY <1>1, <1>7, <1>8
    <3>3. QED
      BY <1>2, <3>1, <3>2 DEF Gone
  <2>3. ASSUME NEW c \in Ids, NEW k \in Range(ring[c])
        PROVE  k \in Range(ring'[c]) \/ Gone(c, k)'
    <3>1. k \in 1..cycle /\ \A j \in Range(exposed[c]) : k < j
      BY <1>0 DEF RingsInv
    <3>2. k \notin Range(exposed[c])
      BY <3>1
    <3>3. Range(exposed'[c]) \subseteq Range(exposed[c])
      BY <1>1, <1>7, <1>8
    <3>4. QED
      BY <1>2, <3>1, <3>2, <3>3 DEF Gone
  <2>4. QED
    BY <2>1, <2>2, <2>3 DEF CamerasKeep
<1>11. QED
  BY <1>2, <1>6, <1>9, <1>10 DEF CameraTypes

LEMMA CamerasRest ==
    ASSUME IInv, UNCHANGED cameraVars
    PROVE  CameraTypes' /\ RingsInv' /\ CamerasKeep
<1>1. UNCHANGED <<cycle, exposed, lossy, ring, exhausted>>
  BY DEF cameraVars
<1>2. CameraTypes /\ RingsInv /\ cycle \in Nat
  BY DEF IInv, TypeOK, CameraTypes
<1>3. CameraTypes'
  BY <1>1, <1>2 DEF CameraTypes
<1>4. RingsInv'
  BY <1>1, <1>2 DEF RingsInv, Increasing
<1>5. CamerasKeep
  BY <1>1, <1>2 DEF CamerasKeep, Gone
<1>6. QED
  BY <1>3, <1>4, <1>5

\* Whatever happens, the cameras keep their invariant and these facts.
LEMMA CamerasStep ==
    ASSUME IInv, [Next]_vars
    PROVE  CameraTypes' /\ RingsInv' /\ CamerasKeep
<1>1. CASE Trigger
  BY <1>1, CamerasTrigger
<1>2. CASE \E c \in Ids : Capture(c)
  BY <1>2, CamerasCapture
<1>3. CASE MainLoop \/ Isp \/ UNCHANGED vars
  <2>1. UNCHANGED cameraVars
    BY <1>3 DEF MainLoop, ReadCount, ReadSlot, NextCamera, MakeGroups, PassGroup,
                Isp, IspTake, IspDone, vars
  <2>2. QED
    BY <2>1, CamerasRest
<1>4. QED
  BY <1>1, <1>2, <1>3 DEF Next

-----------------------------------------------------------------------------
(* Reading the rings.                                                       *)

ScanTypes ==
    /\ mpc \in {"loop", "slots"} /\ at \in 1..Len(Cameras)
    /\ expected \in Seq(Nat) /\ snapshots \in [Ids -> Seq(Nat)]
    /\ \A c \in Ids : Len(snapshots[c]) <= Capacity

\* A read that is not there, or that another camera makes, is not disturbed.
LEMMA ScanRest ==
    ASSUME IInv, cycle' \in Nat, CamerasKeep, UNCHANGED scanVars
    PROVE  ScanTypes' /\ ScanInv'
<1>0. TypeOK /\ ScanInv
  BY DEF IInv
<1>1. UNCHANGED <<mpc, at, expected, snapshots>>
  BY DEF scanVars
<1>2. ScanTypes'
  BY <1>0, <1>1 DEF TypeOK, ScanTypes
<1>3. \A c \in Ids : \A k \in Nat : Gone(c, k) => Gone(c, k)'
  BY DEF CamerasKeep
<1>4. ASSUME NEW k \in Range(expected')
      PROVE  k \in Range(ring'[Cameras[at']]) \/ Gone(Cameras[at], k)'
  <2>1. k \in Nat /\ Cameras[at] \in Ids /\ k \in Range(expected)
    BY <1>0, <1>1, Types, Elements
  <2>2. PICK c \in Ids : c = Cameras[at]
    BY <2>1
  <2>3. k \in Range(ring[c]) \/ Gone(c, k)
    BY <1>0, <2>1, <2>2 DEF ScanInv
  <2>4. k \in Range(ring'[c]) \/ Gone(c, k)'
    BY <1>3, <2>1, <2>3 DEF CamerasKeep
  <2>5. QED
    BY <1>1, <2>2, <2>4 DEF Gone
<1>5. \A c \in Ids : Reading(c)' = Reading(c)
  BY <1>1 DEF Reading
<1>6. ASSUME NEW c \in Ids
      PROVE  /\ Reading(c)' \subseteq 1..cycle'
             /\ \A m \in Reading(c)' : \A j \in 1..(m - 1) : j \in Reading(c)' \/ Gone(c, j)'
  <2>1. cycle \in Nat /\ cycle <= cycle'
    BY <1>0, Types DEF CamerasKeep
  <2>2. /\ Reading(c) \subseteq 1..cycle
        /\ \A m \in Reading(c) : \A j \in 1..(m - 1) : j \in Reading(c) \/ Gone(c, j)
    BY <1>0 DEF ScanInv
  <2>3. 1..cycle \subseteq 1..cycle'
    BY <2>1
  <2>4. \A m \in 1..cycle : 1..(m - 1) \subseteq Nat
    OBVIOUS
  <2>5. QED
    BY <1>3, <1>5, <2>2, <2>3, <2>4
<1>7. QED
  BY <1>0, <1>1, <1>2, <1>4, <1>6 DEF ScanInv

\* snapshot() starts with the frames of the ring.
LEMMA ScanReadCount ==
    ASSUME IInv, ReadCount
    PROVE  ScanTypes' /\ ScanInv'
<1>0. TypeOK /\ ScanInv /\ RingsInv
  BY DEF IInv
<1> DEFINE b == Cameras[at]
<1>1. /\ mpc = "loop" /\ mpc' = "slots" /\ expected' = ring[b] /\ b \in Ids
      /\ UNCHANGED <<at, snapshots, cycle, exposed, ring>>
  BY <1>0, Types DEF ReadCount, cameraVars
<1>2. snapshots[b] = <<>> /\ Len(snapshots[b]) = 0 /\ Range(snapshots[b]) = {}
  <2>1. snapshots[b] = <<>>
    BY <1>0, <1>1, Types DEF ScanInv
  <2>2. QED
    BY <2>1 DEF Range
<1>3. ring[b] \in Seq(Nat) /\ Len(ring[b]) \in Nat /\ Len(ring[b]) <= Capacity
      /\ \A k \in Range(ring[b]) : k \in 1..cycle /\ \A j \in Range(exposed[b]) : k < j
  BY <1>0, <1>1, Types DEF RingsInv
<1>4. ScanTypes'
  BY <1>0, <1>1, <1>3 DEF TypeOK, ScanTypes
<1>5. Len(snapshots'[Cameras[at']]) + Len(expected') <= Capacity
  <2>1. 0 + Len(ring[b]) <= Capacity
    BY <1>3
  <2>2. QED
    BY <1>1, <1>2, <2>1
<1>6. ASSUME NEW i \in 1..Len(Cameras), i > at PROVE snapshots'[Cameras[i]] = <<>>
  BY <1>0, <1>1, <1>6 DEF ScanInv
<1>7. ASSUME NEW c \in Ids
      PROVE  /\ Reading(c)' \subseteq 1..cycle'
             /\ \A m \in Reading(c)' : \A j \in 1..(m - 1) : j \in Reading(c)' \/ Gone(c, j)'
  <2>1. CASE c = b
    <3>1. Reading(c)' = Range(ring[b])
      BY <1>1, <1>2, <2>1 DEF Reading
    <3>2. ASSUME NEW m \in Range(ring[b]), NEW j \in 1..(m - 1)
          PROVE  j \in Range(ring[b]) \/ Gone(c, j)'
      <4>1. m \in 1..cycle /\ \A k \in Range(exposed[b]) : m < k
        BY <1>3
      <4>2. j < m /\ j <= cycle
        BY <1>0, <4>1, Types
      <4>3. \A k \in Range(exposed[b]) : k \in Nat
        BY <1>0, <1>1, Types, Elements
      <4>4. j \notin Range(exposed[b])
        BY <4>1, <4>2, <4>3
      <4>5. QED
        BY <1>1, <2>1, <4>2, <4>4 DEF Gone
    <3>3. QED
      BY <1>1, <1>3, <3>1, <3>2
  <2>2. CASE c # b
    <3>1. Reading(c)' = Reading(c)
      BY <1>1, <2>2 DEF Reading
    <3>2. \A j : Gone(c, j)' <=> Gone(c, j)
      BY <1>1 DEF Gone
    <3>3. QED
      BY <1>0, <1>1, <3>1, <3>2 DEF ScanInv
  <2>3. QED
    BY <2>1, <2>2
<1>8. \A k \in Range(expected') : k \in Range(ring'[Cameras[at']])
  BY <1>1
<1>9. mpc' # "loop"
  BY <1>1
<1>10. \A i \in 1..Len(Cameras) :
          i > at' \/ (i = at' /\ mpc' = "loop") => snapshots'[Cameras[i]] = <<>>
  BY <1>1, <1>6
<1>11. QED
  BY <1>4, <1>5, <1>7, <1>8, <1>9, <1>10 DEF ScanInv

\* A slot is read: the frame is still there, or it is gone.
LEMMA ScanReadSlot ==
    ASSUME IInv, ReadSlot
    PROVE  ScanTypes' /\ ScanInv'
<1>0. TypeOK /\ ScanInv /\ RingsInv
  BY DEF IInv
<1> DEFINE b == Cameras[at]
           e == Head(expected)
<1>1. /\ mpc = "slots" /\ expected # <<>> /\ expected' = Tail(expected) /\ b \in Ids
      /\ snapshots' = IF e \in Range(ring[b])
                      THEN [snapshots EXCEPT ![b] = Append(snapshots[b], e)]
                      ELSE snapshots
      /\ UNCHANGED <<mpc, at, cycle, exposed, ring>>
  BY <1>0, Types DEF ReadSlot, cameraVars
<1>2. /\ e \in Nat /\ e \in Range(expected)
      /\ expected' \in Seq(Nat) /\ Len(expected') = Len(expected) - 1
      /\ Range(expected) = {e} \cup Range(expected')
  BY <1>0, <1>1, Types, ElementsOfTail
<1>3. /\ Append(snapshots[b], e) \in Seq(Nat)
      /\ Len(Append(snapshots[b], e)) = Len(snapshots[b]) + 1
      /\ Range(Append(snapshots[b], e)) = Range(snapshots[b]) \cup {e}
  BY <1>0, <1>1, <1>2, Types, ElementsOfAppend
<1>4. e \in Range(ring[b]) \/ Gone(b, e)
  BY <1>0, <1>2 DEF ScanInv
<1> DEFINE m == Len(snapshots[b])
           n == Len(expected)
<1>5. m \in Nat /\ n \in Nat /\ n > 0 /\ m + n <= Capacity /\ Capacity \in Nat
  <2>1. m \in Nat /\ n \in Nat /\ Capacity \in Nat /\ m + n <= Capacity
    BY <1>0, <1>1, Types DEF ScanInv
  <2>2. n # 0
    BY <1>0, <1>1, Types
  <2>3. QED
    BY <2>1, <2>2
<1>6. /\ snapshots'[b] \in Seq(Nat) /\ Len(snapshots'[b]) <= m + 1
      /\ Len(snapshots'[b]) \in Nat
      /\ \A c \in Ids \ {b} : snapshots'[c] = snapshots[c]
      /\ snapshots' \in [Ids -> Seq(Nat)]
      /\ Range(snapshots'[b]) = Range(snapshots[b]) \cup
            (IF e \in Range(ring[b]) THEN {e} ELSE {})
  <2>1. snapshots \in [Ids -> Seq(Nat)] /\ snapshots[b] \in Seq(Nat) /\ m \in Nat
    BY <1>0, <1>1, Types
  <2>2. CASE e \in Range(ring[b])
    <3>1. snapshots' = [snapshots EXCEPT ![b] = Append(snapshots[b], e)]
      BY <1>1, <2>2
    <3>2. snapshots'[b] = Append(snapshots[b], e)
      BY <1>1, <2>1, <3>1
    <3>3. QED
      BY <1>3, <2>1, <2>2, <3>1, <3>2
  <2>3. CASE e \notin Range(ring[b])
    <3>1. snapshots' = snapshots
      BY <1>1, <2>3
    <3>2. m <= m + 1
      BY <2>1
    <3>3. QED
      BY <2>1, <2>3, <3>1, <3>2
  <2>4. QED
    BY <2>2, <2>3
<1>7. Len(snapshots'[b]) + Len(expected') <= Capacity /\ Len(snapshots'[b]) <= Capacity
  <2> DEFINE x == Len(snapshots'[b])
             y == Len(expected')
  <2>1. x \in Nat /\ x <= m + 1 /\ y = n - 1
    BY <1>2, <1>6
  <2> HIDE DEF x, y, m, n
  <2>2. x + y <= Capacity /\ x <= Capacity
    BY <1>5, <2>1
  <2>3. QED
    BY <2>2 DEF x, y
<1> HIDE DEF m, n, e
<1>8. ScanTypes'
  <2>1. \A c \in Ids : Len(snapshots'[c]) <= Capacity
    BY <1>0, <1>6, <1>7, Types
  <2>2. QED
    BY <1>0, <1>1, <1>2, <1>6, <2>1 DEF TypeOK, ScanTypes
<1>9. ASSUME NEW i \in 1..Len(Cameras), i > at PROVE snapshots'[Cameras[i]] = <<>>
  <2>1. at \in 1..Len(Cameras) /\ i # at
    BY <1>0, <1>9, Types, CameraPlaces
  <2>2. Cameras[i] \in Ids \ {b}
    BY <2>1, CameraPlaces
  <2>3. QED
    BY <1>0, <1>6, <1>9, <2>2 DEF ScanInv
<1>10. \A c \in Ids : \A j : Gone(c, j)' <=> Gone(c, j)
  BY <1>1 DEF Gone
<1>11. ASSUME NEW c \in Ids
       PROVE  /\ Reading(c)' \subseteq 1..cycle'
              /\ \A k \in Reading(c)' : \A j \in 1..(k - 1) : j \in Reading(c)' \/ Gone(c, j)'
  <2>1. Reading(c)' \subseteq Reading(c)
        /\ \A j \in Reading(c) : j \in Reading(c)' \/ Gone(c, j)
    <3>1. CASE c = b
      <4>1. Reading(c) = Range(snapshots[b]) \cup Range(expected)
        BY <3>1 DEF Reading
      <4>2. Reading(c)' = Range(snapshots'[b]) \cup Range(expected')
        BY <1>1, <3>1 DEF Reading
      <4>3. CASE e \in Range(ring[b])
        BY <1>2, <1>6, <4>1, <4>2, <4>3
      <4>4. CASE e \notin Range(ring[b])
        BY <1>2, <1>4, <1>6, <3>1, <4>1, <4>2, <4>4
      <4>5. QED
        BY <4>3, <4>4
    <3>2. CASE c # b
      <4>1. snapshots'[c] = snapshots[c]
        BY <1>6, <3>2
      <4>2. QED
        BY <1>1, <3>2, <4>1 DEF Reading
    <3>3. QED
      BY <3>1, <3>2
  <2>2. QED
    BY <1>0, <1>1, <1>10, <2>1 DEF ScanInv
<1>12. ASSUME NEW k \in Range(expected')
       PROVE  k \in Range(ring'[Cameras[at']]) \/ Gone(Cameras[at], k)'
  <2>1. k \in Range(ring[b]) \/ Gone(b, k)
    BY <1>0, <1>2 DEF ScanInv
  <2>2. QED
    BY <1>1, <2>1 DEF Gone
<1>13. QED
  BY <1>1, <1>7, <1>8, <1>9, <1>11, <1>12 DEF ScanInv

\* The next camera, and the end of the call: nothing is left to read.
LEMMA ScanNextCamera ==
    ASSUME IInv, NextCamera
    PROVE  ScanTypes' /\ ScanInv'
<1>0. TypeOK /\ ScanInv
  BY DEF IInv
<1>1. /\ expected = <<>> /\ at < Len(Cameras) /\ at' = at + 1 /\ mpc' = "loop"
      /\ UNCHANGED <<expected, snapshots, cycle, exposed, ring>>
  BY DEF NextCamera, cameraVars
<1>2. at \in 1..Len(Cameras) /\ Len(Cameras) \in Nat
  BY <1>0, Types, CameraPlaces
<1>3. ScanTypes'
  <2>1. at' \in 1..Len(Cameras)
    BY <1>1, <1>2
  <2>2. QED
    BY <1>0, <1>1, <2>1 DEF TypeOK, ScanTypes
<1>4. Range(expected) = {}
  BY <1>1 DEF Range
<1>5. \A c \in Ids : Reading(c)' = Reading(c) /\ \A j : Gone(c, j)' <=> Gone(c, j)
  BY <1>1, <1>4 DEF Reading, Gone
<1>6. ASSUME NEW i \in 1..Len(Cameras), i > at' \/ i = at' PROVE snapshots'[Cameras[i]] = <<>>
  <2>1. i > at
    BY <1>1, <1>2, <1>6
  <2>2. QED
    BY <1>0, <1>1, <2>1 DEF ScanInv
<1>7. \A c \in Ids : /\ Reading(c)' \subseteq 1..cycle'
                    /\ \A m \in Reading(c)' : \A j \in 1..(m - 1) : j \in Reading(c)' \/ Gone(c, j)'
  BY <1>0, <1>1, <1>5 DEF ScanInv
<1>8. QED
  BY <1>1, <1>3, <1>4, <1>6, <1>7 DEF ScanInv

LEMMA ScanMakeGroups ==
    ASSUME IInv, MakeGroups
    PROVE  ScanTypes' /\ ScanInv'
<1>0. TypeOK
  BY DEF IInv
<1>1. /\ expected = <<>> /\ at' = 1 /\ mpc' = "loop" /\ snapshots' = NoFrames
      /\ UNCHANGED expected
  BY DEF MakeGroups
<1>2. 1 \in 1..Len(Cameras) /\ Capacity \in Nat
  BY <1>0, Types, CameraPlaces
<1>3. \A c \in Ids : snapshots'[c] = <<>> /\ Range(snapshots'[c]) = {} /\ Len(snapshots'[c]) = 0
  BY <1>1 DEF NoFrames, Range
<1>4. Range(expected') = {}
  BY <1>1 DEF Range
<1>5. \A c \in Ids : Reading(c)' = {}
  BY <1>3, <1>4 DEF Reading
<1>6. ScanTypes'
  <2>1. snapshots' \in [Ids -> Seq(Nat)]
    BY <1>1 DEF NoFrames
  <2>2. \A c \in Ids : Len(snapshots'[c]) <= Capacity
    BY <1>2, <1>3
  <2>3. QED
    BY <1>1, <1>2, <2>1, <2>2 DEF ScanTypes
<1>7. \A i \in 1..Len(Cameras) : snapshots'[Cameras[i]] = <<>>
  BY <1>3, CameraPlaces
<1>8. QED
  BY <1>1, <1>4, <1>5, <1>6, <1>7 DEF ScanInv

LEMMA ScanStep ==
    ASSUME IInv, [Next]_vars
    PROVE  ScanTypes' /\ ScanInv'
<1>1. cycle' \in Nat /\ CamerasKeep
  BY CamerasStep DEF CameraTypes
<1>2. CASE ReadCount \/ ReadSlot \/ NextCamera \/ MakeGroups
  BY <1>2, ScanReadCount, ScanReadSlot, ScanNextCamera, ScanMakeGroups
<1>3. CASE Trigger \/ (\E c \in Ids : Capture(c)) \/ PassGroup \/ Isp \/ UNCHANGED vars
  <2>1. UNCHANGED scanVars
    BY <1>3 DEF Trigger, Capture, PassGroup, Isp, IspTake, IspDone, vars
  <2>2. QED
    BY <1>1, <2>1, ScanRest
<1>4. QED
  BY <1>2, <1>3 DEF Next, MainLoop

-----------------------------------------------------------------------------
(* The selector.                                                            *)

\* Its output clock moves forward, by at least one period.
LEMMA ClockAdvances ==
    ASSUME NEW n \in Nat, NEW t \in Nat, n <= t, n # 0
    PROVE  Advance(n, t) \in Nat \ {0}
<1>1. t - n \in Nat /\ Period \in Nat /\ Period >= 1
  BY SizesAssumption, PeriodAssumption
<1> DEFINE q == (t - n) \div Period
<1>2. q \in Nat
  BY <1>1
<1> HIDE DEF q
<1>3. Period * (q + 1) \in Nat
  BY <1>1, <1>2
<1>4. n + Period * (q + 1) \in Nat \ {0}
  BY <1>3
<1>5. QED
  BY <1>4 DEF Advance, q

\* A group is handed over: it is never refused, and what comes out is the
\* group that came in or the one that was held.
LEMMA SelectGroup ==
    ASSUME IInv, PassGroup
    PROVE  LET k == Head(groups) IN
           /\ k \in Nat /\ lastGroup < k /\ k <= cycle /\ lastGroup' = k
           /\ SelectorTypeOK'
           /\ next' # 0 /\ last' = Spacing * k
           /\ pending' \in {0, last'} /\ (pending' # 0 => pending' > out')
           /\ first' = IF lastGroup = 0 THEN Spacing * k ELSE first
           /\ \E g \in 0..k : out' = Spacing * g
           /\ \/ output' = output /\ out' = out
              \/ output' # output /\ out < out'
<1>0. TypeOK /\ GroupsInv /\ PassedInv /\ SelectorInv
  BY DEF IInv
<1> DEFINE k == Head(groups)
           t == Spacing * k
<1>1. k \in Nat /\ lastGroup < k /\ k <= cycle /\ lastGroup \in Nat
  <2>1. groups # <<>> /\ groups \in Seq(Nat) /\ lastGroup \in Nat /\ cycle \in Nat
    BY <1>0, Types DEF PassGroup
  <2>2. k \in Nat /\ k \in Range(groups)
    BY <2>1, ElementsOfTail
  <2>3. k \in (lastGroup + 1)..cycle
    BY <1>0, <2>2 DEF GroupsInv
  <2>4. QED
    BY <2>1, <2>2, <2>3
<1>2. Select(TRUE, t) /\ lastGroup' = k
  BY DEF PassGroup
<1>3. /\ next \in Nat /\ last \in Nat /\ pending \in Nat /\ input \in Nat /\ output \in Nat
      /\ dropped \in Nat /\ invalid \in Nat /\ first \in Nat /\ out \in Nat
      /\ target \in Nat /\ newer \subseteq Nat
  BY <1>0 DEF TypeOK, SelectorTypeOK
<1>4. /\ t \in Nat /\ t > 0 /\ last = Spacing * lastGroup /\ last < t
      /\ Period \in Nat /\ Period > 0
  <2>1. t \in Nat /\ t > 0
    BY <1>1, SpacingGrows
  <2>2. Spacing * lastGroup < t
    BY <1>1, SpacingGrows
  <2>3. QED
    BY <1>0, <2>1, <2>2, SizesAssumption, PeriodAssumption DEF SelectorInv
<1>5. PICK g \in 0..lastGroup : out = Spacing * g
  BY <1>0 DEF SelectorInv
<1>6. /\ g \in Nat /\ g \in 0..k /\ k \in 0..k /\ lastGroup \in 0..k
      /\ out <= last /\ out < t
  <2>1. g \in Nat /\ g <= lastGroup /\ g < k /\ g \in 0..k /\ lastGroup \in 0..k /\ k \in 0..k
    BY <1>1, <1>5
  <2>2. ~(last < out)
    BY <1>1, <1>4, <1>5, <2>1, SpacingGrows
  <2>3. QED
    BY <1>3, <1>4, <2>1, <2>2
<1>7. /\ next = 0 <=> lastGroup = 0
      /\ pending \in {0, last} /\ (pending # 0 => pending > out)
      /\ lastGroup = 0 => last = 0
  <2>1. lastGroup = 0 => Spacing * lastGroup = 0
    BY SizesAssumption
  <2>2. QED
    BY <1>0, <1>4, <2>1 DEF SelectorInv
<1> DEFINE Claim ==
             /\ SelectorTypeOK'
             /\ next' # 0 /\ last' = t
             /\ pending' \in {0, last'} /\ (pending' # 0 => pending' > out')
             /\ first' = IF lastGroup = 0 THEN t ELSE first
             /\ \E h \in 0..k : out' = Spacing * h
             /\ \/ output' = output /\ out' = out
                \/ output' # output /\ out < out'
<1> SUFFICES Claim
  BY <1>1, <1>2
<1>8. Valid(TRUE, t)
  BY <1>3, <1>4 DEF Valid
<1>9. output + 1 \in Nat /\ output + 1 # output /\ input + 1 \in Nat /\ dropped + 1 \in Nat
  BY <1>3
<1>10. CASE SelectFirst(t)
  <2>1. /\ lastGroup = 0 /\ pending = 0
        /\ last' = t /\ next' = t + Period /\ input' = input + 1 /\ output' = output + 1
        /\ first' = t /\ out' = t /\ target' = t /\ newer' = {}
        /\ UNCHANGED <<pending, dropped, invalid>>
    BY <1>3, <1>7, <1>10 DEF SelectFirst
  <2>2. t + Period \in Nat /\ t + Period # 0
    BY <1>4
  <2>3. \E h \in 0..k : out' = Spacing * h
    BY <1>6, <2>1
  <2> HIDE DEF t, k
  <2>4. SelectorTypeOK'
    BY <1>3, <1>4, <1>6, <1>9, <2>1, <2>2 DEF SelectorTypeOK
  <2>5. /\ next' # 0 /\ last' = t
        /\ pending' \in {0, last'} /\ (pending' # 0 => pending' > out')
        /\ first' = IF lastGroup = 0 THEN t ELSE first
        /\ \/ output' = output /\ out' = out
           \/ output' # output /\ out < out'
    BY <1>3, <1>4, <1>6, <1>9, <2>1, <2>2
  <2>6. QED
    BY <2>3, <2>4, <2>5
<1>11. CASE Hold(t)
  <2>1. /\ next # 0 /\ last' = t /\ pending' = t /\ input' = input + 1
        /\ (dropped' = dropped + 1 \/ dropped' = dropped) /\ newer' = newer \cup {t}
        /\ UNCHANGED <<next, output, invalid, first, out, target>>
    BY <1>11 DEF Hold
  <2>2. \E h \in 0..k : out' = Spacing * h
    BY <1>5, <1>6, <2>1
  <2> HIDE DEF t, k
  <2>3. SelectorTypeOK'
    BY <1>3, <1>4, <1>6, <1>7, <1>9, <2>1 DEF SelectorTypeOK
  <2>4. /\ next' # 0 /\ last' = t
        /\ pending' \in {0, last'} /\ (pending' # 0 => pending' > out')
        /\ first' = IF lastGroup = 0 THEN t ELSE first
        /\ \/ output' = output /\ out' = out
           \/ output' # output /\ out < out'
    BY <1>3, <1>4, <1>6, <1>7, <1>9, <2>1
  <2>5. QED
    BY <2>2, <2>3, <2>4
<1>12. CASE SelectNew(t)
  <2>1. /\ next # 0 /\ next <= t /\ last' = t /\ next' = Advance(next, t)
        /\ pending' = 0 /\ input' = input + 1 /\ output' = output + 1
        /\ (dropped' = dropped + 1 \/ dropped' = dropped)
        /\ out' = t /\ target' = next /\ newer' = {}
        /\ UNCHANGED <<invalid, first>>
    BY <1>3, <1>4, <1>12 DEF SelectNew, NoGroup
  <2>2. next' \in Nat \ {0}
    BY <1>3, <1>4, <2>1, ClockAdvances
  <2>3. \E h \in 0..k : out' = Spacing * h
    BY <1>6, <2>1
  <2> HIDE DEF t, k
  <2>4. SelectorTypeOK'
    BY <1>3, <1>4, <1>6, <1>7, <1>9, <2>1, <2>2 DEF SelectorTypeOK
  <2>5. /\ next' # 0 /\ last' = t
        /\ pending' \in {0, last'} /\ (pending' # 0 => pending' > out')
        /\ first' = IF lastGroup = 0 THEN t ELSE first
        /\ \/ output' = output /\ out' = out
           \/ output' # output /\ out < out'
    BY <1>3, <1>4, <1>6, <1>7, <1>9, <2>1, <2>2
  <2>6. QED
    BY <2>3, <2>4, <2>5
<1>13. CASE SelectPending(t)
  <2>1. /\ next # 0 /\ next <= t /\ last' = t /\ next' = Advance(next, t)
        /\ pending' = t /\ input' = input + 1 /\ output' = output + 1
        /\ out' = pending /\ target' = next /\ newer' = {t} /\ pending # 0
        /\ UNCHANGED <<dropped, invalid, first>>
    BY <1>3, <1>4, <1>13 DEF SelectPending, TakesNew,
                             HasPending, NoGroup
  <2>2. next' \in Nat \ {0}
    BY <1>3, <1>4, <2>1, ClockAdvances
  <2>3. pending = last /\ pending > out
    BY <1>7, <2>1
  <2>4. \E h \in 0..k : out' = Spacing * h
    BY <1>4, <1>6, <2>1, <2>3
  <2> HIDE DEF t, k
  <2>5. SelectorTypeOK'
    BY <1>3, <1>4, <1>6, <1>7, <1>9, <2>1, <2>2, <2>3 DEF SelectorTypeOK
  <2>6. /\ next' # 0 /\ last' = t
        /\ pending' \in {0, last'} /\ (pending' # 0 => pending' > out')
        /\ first' = IF lastGroup = 0 THEN t ELSE first
        /\ \/ output' = output /\ out' = out
           \/ output' # output /\ out < out'
    BY <1>3, <1>4, <1>6, <1>7, <1>9, <2>1, <2>2, <2>3
  <2>7. QED
    BY <2>4, <2>5, <2>6
<1>14. ~Reject(TRUE, t)
  BY <1>8 DEF Reject
<1>15. QED
  BY <1>2, <1>10, <1>11, <1>12, <1>13, <1>14 DEF Select

-----------------------------------------------------------------------------
(* The groups.                                                              *)

LoopTypes ==
    /\ lastGroup \in Nat /\ gaps \in Nat /\ groups \in Seq(Nat) /\ passed \subseteq Nat
    /\ SelectorTypeOK

\* A cycle left out of the groups is missing from a snapshot that has a later
\* one: it is gone.
LEMMA GroupsMake ==
    ASSUME IInv, MakeGroups
    PROVE  LoopTypes' /\ GroupsInv' /\ PassedInv' /\ SelectorInv'
<1>0. TypeOK /\ ScanInv /\ PassedInv /\ SelectorInv
  BY DEF IInv
<1> DEFINE found == CompleteAfter(snapshots, lastGroup)
<1>1. /\ expected = <<>> /\ groups' = Sorted(found)
      /\ UNCHANGED <<lastGroup, gaps, passed, cycle, exposed, ring>>
      /\ UNCHANGED selectorVars
  BY DEF MakeGroups, cameraVars
<1>2. /\ \A k \in found : k > lastGroup /\ \A c \in Ids : k \in Range(snapshots[c])
      /\ \A k \in Range(snapshots[Cameras[1]]) :
            k > lastGroup /\ k \notin found => \E c \in Ids : k \notin Range(snapshots[c])
  BY DEF CompleteAfter
<1> HIDE DEF found
<1>3. Cameras[1] \in Ids /\ lastGroup \in Nat /\ cycle \in Nat
  BY <1>0, Types, CameraPlaces
<1>4. \A c \in Ids : Reading(c) = Range(snapshots[c])
  <2>1. Range(expected) = {}
    BY <1>1 DEF Range
  <2>2. QED
    BY <2>1 DEF Reading
<1>5. /\ \A c \in Ids : Range(snapshots[c]) \subseteq 1..cycle
      /\ \A c \in Ids : \A m \in Range(snapshots[c]) : \A j \in 1..(m - 1) :
            j \in Range(snapshots[c]) \/ Gone(c, j)
  BY <1>0, <1>4 DEF ScanInv
<1>6. found \subseteq (lastGroup + 1)..cycle
  <2> SUFFICES ASSUME NEW k \in found PROVE k \in (lastGroup + 1)..cycle
    OBVIOUS
  <2>1. k > lastGroup /\ k \in 1..cycle
    BY <1>2, <1>3, <1>5
  <2>2. QED
    BY <1>3, <2>1
<1>7. groups' \in Seq(Nat) /\ Increasing(groups') /\ Range(groups') = found
  <2>1. found \subseteq Nat
    BY <1>3, <1>6
  <2>2. IsFiniteSet(found)
    <3>1. IsFiniteSet((lastGroup + 1)..cycle)
      <4>1. lastGroup + 1 \in Int /\ cycle \in Int
        BY <1>3
      <4>2. QED
        BY <4>1, FS_Interval
    <3>2. QED
      BY <1>6, <3>1, FS_Subset
  <2>3. QED
    BY <1>1, <2>1, <2>2, SortedFacts
<1>8. ASSUME NEW m \in found, NEW j \in (lastGroup + 1)..(m - 1), j \notin found
      PROVE  \E c \in Ids : Gone(c, j)
  <2>1. m \in 1..cycle /\ j \in 1..(m - 1) /\ j > lastGroup
    BY <1>3, <1>6
  <2>2. PICK c \in Ids : j \notin Range(snapshots[c])
    <3>1. CASE j \in Range(snapshots[Cameras[1]])
      BY <1>2, <1>8, <2>1, <3>1
    <3>2. CASE j \notin Range(snapshots[Cameras[1]])
      BY <1>3, <3>2
    <3>3. QED
      BY <3>1, <3>2
  <2>3. m \in Range(snapshots[c])
    BY <1>2
  <2>4. QED
    BY <1>5, <2>1, <2>2, <2>3
<1>9. \A c \in Ids : \A j : Gone(c, j)' <=> Gone(c, j)
  BY <1>1 DEF Gone
<1>10. GroupsInv'
  <2>1. Range(groups') \subseteq (lastGroup' + 1)..cycle'
    BY <1>1, <1>6, <1>7
  <2>2. \A m \in Range(groups') : \A j \in (lastGroup' + 1)..(m - 1) :
           j \in Range(groups') \/ \E c \in Ids : Gone(c, j)'
    BY <1>1, <1>7, <1>8, <1>9
  <2>3. Increasing(groups)'
    BY <1>7 DEF Increasing
  <2>4. QED
    BY <2>1, <2>2, <2>3 DEF GroupsInv
<1>11. UNCHANGED <<next, last, pending, input, output, dropped, invalid,
                   first, out, target, newer>>
  BY <1>1 DEF selectorVars
<1>12. LoopTypes'
  <2>1. SelectorTypeOK'
    BY <1>0, <1>11 DEF TypeOK, SelectorTypeOK
  <2>2. QED
    BY <1>0, <1>1, <1>7, <2>1 DEF TypeOK, LoopTypes
<1>13. PassedInv'
  <2>1. PassedOver' = PassedOver
    BY <1>1 DEF PassedOver
  <2>2. QED
    BY <1>0, <1>1, <1>9, <1>11, <2>1 DEF PassedInv
<1>14. SelectorInv'
  BY <1>0, <1>1, <1>11 DEF SelectorInv
<1>15. QED
  BY <1>10, <1>12, <1>13, <1>14

\* Nothing but the cameras may disturb the groups.
LEMMA GroupsRest ==
    ASSUME IInv, cycle' \in Nat, CamerasKeep, UNCHANGED <<loopVars, selectorVars>>
    PROVE  LoopTypes' /\ GroupsInv' /\ PassedInv' /\ SelectorInv'
<1>0. TypeOK /\ GroupsInv /\ PassedInv /\ SelectorInv
  BY DEF IInv
<1>1. /\ UNCHANGED <<groups, lastGroup, gaps, passed>>
      /\ UNCHANGED <<next, last, pending, input, output, dropped, invalid,
                     first, out, target, newer>>
  BY DEF loopVars, selectorVars
<1>2. cycle \in Nat /\ lastGroup \in Nat /\ cycle <= cycle'
      /\ \A c \in Ids : \A k \in Nat : Gone(c, k) => Gone(c, k)'
  BY <1>0, Types DEF CamerasKeep
<1>3. LoopTypes'
  <2>1. SelectorTypeOK'
    BY <1>0, <1>1 DEF TypeOK, SelectorTypeOK
  <2>2. QED
    BY <1>0, <1>1, <2>1 DEF TypeOK, LoopTypes
<1>4. GroupsInv'
  <2>1. (lastGroup + 1)..cycle \subseteq (lastGroup + 1)..cycle'
    BY <1>2
  <2>2. Increasing(groups)' /\ Range(groups') \subseteq (lastGroup' + 1)..cycle'
    BY <1>0, <1>1, <2>1 DEF GroupsInv, Increasing
  <2>3. ASSUME NEW m \in Range(groups'), NEW j \in (lastGroup' + 1)..(m - 1)
        PROVE  j \in Range(groups') \/ \E c \in Ids : Gone(c, j)'
    <3>1. m \in Range(groups) /\ m \in Nat /\ j \in (lastGroup + 1)..(m - 1) /\ j \in Nat
      <4>1. m \in Range(groups) /\ m \in Nat
        BY <1>0, <1>1, Types, Elements
      <4>2. QED
        BY <1>1, <1>2, <4>1
    <3>2. j \in Range(groups) \/ \E c \in Ids : Gone(c, j)
      BY <1>0, <3>1 DEF GroupsInv
    <3>3. QED
      BY <1>1, <1>2, <3>1, <3>2
  <2>4. QED
    BY <2>2, <2>3 DEF GroupsInv
<1>5. PassedInv'
  <2>1. PassedOver' = PassedOver /\ PassedOver \subseteq Nat
    BY <1>1, <1>2 DEF PassedOver
  <2>2. \A j \in PassedOver' : \E c \in Ids : Gone(c, j)'
    BY <1>0, <1>2, <2>1 DEF PassedInv
  <2>3. lastGroup' <= cycle'
    BY <1>0, <1>1, <1>2 DEF PassedInv
  <2>4. QED
    BY <1>0, <1>1, <2>1, <2>2, <2>3 DEF PassedInv
<1>6. SelectorInv'
  BY <1>0, <1>1 DEF SelectorInv
<1>7. QED
  BY <1>3, <1>4, <1>5, <1>6

\* A group is passed on: the cycles skipped before it are gone, and counted.
LEMMA GroupsPass ==
    ASSUME IInv, PassGroup
    PROVE  LoopTypes' /\ GroupsInv' /\ PassedInv' /\ SelectorInv'
<1>0. TypeOK /\ GroupsInv /\ PassedInv /\ SelectorInv
  BY DEF IInv
<1> DEFINE k == Head(groups)
<1>1. /\ groups # <<>> /\ gaps' = gaps + Skipped(k) /\ lastGroup' = k
      /\ passed' = passed \cup {k} /\ groups' = Tail(groups)
      /\ UNCHANGED <<cycle, exposed, ring>>
  BY DEF PassGroup, cameraVars
<1>2. /\ k \in Nat /\ lastGroup < k /\ k <= cycle
      /\ SelectorTypeOK'
      /\ next' # 0 /\ last' = Spacing * k
      /\ pending' \in {0, last'} /\ (pending' # 0 => pending' > out')
      /\ first' = IF lastGroup = 0 THEN Spacing * k ELSE first
      /\ \E g \in 0..k : out' = Spacing * g
  BY SelectGroup
<1>3. /\ k \in Range(groups) /\ groups' \in Seq(Nat) /\ Increasing(groups')
      /\ Range(groups) = {k} \cup Range(groups') /\ \A m \in Range(groups') : k < m
  BY <1>0, <1>1, Types, ElementsOfTail DEF GroupsInv
<1> HIDE DEF k
<1>4. lastGroup \in Nat /\ cycle \in Nat /\ gaps \in Nat /\ passed \subseteq 1..lastGroup
      /\ first \in Nat
  BY <1>0, Types DEF PassedInv, TypeOK, SelectorTypeOK
<1>5. \A c \in Ids : \A j : Gone(c, j)' <=> Gone(c, j)
  BY <1>1 DEF Gone
<1>6. \A j \in (lastGroup + 1)..(k - 1) : \E c \in Ids : Gone(c, j)
  <2> SUFFICES ASSUME NEW j \in (lastGroup + 1)..(k - 1) PROVE \E c \in Ids : Gone(c, j)
    OBVIOUS
  <2>1. j < k /\ j \in Nat
    BY <1>2, <1>4
  <2>2. j \notin Range(groups)
    <3>1. \A m \in Range(groups') : m \in Nat
      BY <1>3, Elements
    <3>2. j # k /\ j \notin Range(groups')
      BY <1>2, <1>3, <2>1, <3>1
    <3>3. QED
      BY <1>3, <3>2
  <2>3. QED
    BY <1>0, <1>3, <2>2 DEF GroupsInv
<1>7. GroupsInv'
  <2>1. Increasing(groups)'
    BY <1>3 DEF Increasing
  <2>2. Range(groups') \subseteq (k + 1)..cycle
    <3> SUFFICES ASSUME NEW m \in Range(groups') PROVE m \in (k + 1)..cycle
      OBVIOUS
    <3>1. m \in (lastGroup + 1)..cycle /\ k < m
      BY <1>0, <1>3 DEF GroupsInv
    <3>2. QED
      BY <1>2, <1>4, <3>1
  <2>3. ASSUME NEW m \in Range(groups'), NEW j \in (k + 1)..(m - 1)
        PROVE  j \in Range(groups') \/ \E c \in Ids : Gone(c, j)
    <3>1. m \in Range(groups) /\ m \in Nat
      BY <1>3, Elements
    <3>2. j \in (lastGroup + 1)..(m - 1) /\ j # k
      BY <1>2, <1>4, <3>1
    <3>3. j \in Range(groups) \/ \E c \in Ids : Gone(c, j)
      BY <1>0, <3>1, <3>2 DEF GroupsInv
    <3>4. QED
      BY <1>3, <3>2, <3>3
  <2>4. QED
    BY <1>1, <1>5, <2>1, <2>2, <2>3 DEF GroupsInv
<1>8. PassedOver' = PassedOver \cup (lastGroup + 1)..(k - 1)
  <2>1. PassedOver' = 1..k \ (passed \cup {k})
    BY <1>1 DEF PassedOver
  <2>2. ASSUME NEW j
        PROVE  j \in 1..k /\ j # k /\ j \notin passed
               <=> (j \in 1..lastGroup /\ j \notin passed) \/ j \in (lastGroup + 1)..(k - 1)
    <3>1. j \in 1..k /\ j # k <=> j \in 1..lastGroup \/ j \in (lastGroup + 1)..(k - 1)
      BY <1>2, <1>4
    <3>2. j \in (lastGroup + 1)..(k - 1) => j \notin 1..lastGroup
      BY <1>4
    <3>3. QED
      BY <1>4, <3>1, <3>2
  <2>3. QED
    BY <2>1, <2>2 DEF PassedOver
<1>9. gaps' = Cardinality({j \in PassedOver' : Spacing * j > first'}) /\ gaps' \in Nat
  <2> DEFINE S == {j \in PassedOver : Spacing * j > first}
             T == (lastGroup + 1)..(k - 1)
             U == {j \in PassedOver' : Spacing * j > first'}
  <2>1. gaps = Cardinality(S)
    BY <1>0 DEF PassedInv
  <2>2. CASE lastGroup = 0
    <3>1. gaps' = gaps /\ first' = Spacing * k
      BY <1>1, <1>2, <1>4, <2>2 DEF Skipped
    <3>2. S = {}
      BY <2>2 DEF PassedOver
    <3>3. U = {}
      <4> SUFFICES ASSUME NEW j \in PassedOver', Spacing * j > Spacing * k PROVE FALSE
        BY <3>1
      <4>1. j \in 1..k /\ j # k
        BY <1>1 DEF PassedOver
      <4>2. j \in Nat /\ j < k
        BY <1>2, <4>1
      <4>3. Spacing * j < Spacing * k /\ Spacing * j \in Nat /\ Spacing * k \in Nat
        BY <1>2, <4>2, SpacingGrows
      <4>4. QED
        BY <4>3
    <3>4. QED
      BY <1>4, <2>1, <3>1, <3>2, <3>3
  <2>3. CASE lastGroup # 0
    <3>1. first' = first /\ first <= Spacing * lastGroup
      BY <1>0, <1>2, <2>3 DEF PassedInv
    <3>2. T \subseteq {j \in Nat : Spacing * j > first}
      <4> SUFFICES ASSUME NEW j \in T PROVE j \in Nat /\ Spacing * j > first
        OBVIOUS
      <4>1. j \in Nat /\ lastGroup < j
        BY <1>2, <1>4
      <4>2. Spacing * lastGroup < Spacing * j /\ Spacing * j \in Nat
            /\ Spacing * lastGroup \in Nat
        BY <1>4, <4>1, SpacingGrows
      <4>3. QED
        BY <1>4, <3>1, <4>1, <4>2
    <3>3. U = S \cup T
      BY <1>8, <3>1, <3>2
    <3>4. S \cap T = {} /\ S \subseteq 1..lastGroup
      <4>1. S \subseteq 1..lastGroup
        BY DEF PassedOver
      <4>2. 1..lastGroup \cap T = {}
        BY <1>2, <1>4
      <4>3. QED
        BY <4>1, <4>2
    <3>5. IsFiniteSet(S)
      <4>1. IsFiniteSet(1..lastGroup)
        BY <1>4, FS_Interval
      <4>2. QED
        BY <3>4, <4>1, FS_Subset
    <3>6. IsFiniteSet(T) /\ Cardinality(T) = Skipped(k)
      <4>1. lastGroup + 1 \in Int /\ k - 1 \in Int
        BY <1>2, <1>4
      <4>2. /\ IsFiniteSet(T)
            /\ Cardinality(T) =
                  IF lastGroup + 1 > k - 1 THEN 0 ELSE (k - 1) - (lastGroup + 1) + 1
        BY <4>1, FS_Interval
      <4>3. (IF lastGroup + 1 > k - 1 THEN 0 ELSE (k - 1) - (lastGroup + 1) + 1)
            = IF k > lastGroup + 1 THEN k - lastGroup - 1 ELSE 0
        BY <1>2, <1>4
      <4>4. QED
        BY <2>3, <4>2, <4>3 DEF Skipped
    <3>7. Cardinality(S \cup T) = Cardinality(S) + Cardinality(T) - Cardinality(S \cap T)
      BY <3>5, <3>6, FS_Union
    <3>8. Cardinality(S \cap T) = 0
      BY <3>4, FS_EmptySet
    <3>9. Skipped(k) \in Nat
      BY <1>2, <1>4 DEF Skipped
    <3>10. gaps + Skipped(k) = Cardinality(U) /\ gaps + Skipped(k) \in Nat
      <4> HIDE DEF S, T, U
      <4>1. Cardinality(U) = gaps + Skipped(k) - 0
        BY <2>1, <3>3, <3>6, <3>7, <3>8
      <4>2. QED
        BY <1>4, <3>9, <4>1
    <3>11. QED
      BY <1>1, <3>10
  <2>4. QED
    BY <2>2, <2>3
<1>10. PassedInv'
  <2>1. passed' \subseteq 1..k
    <3>1. 1..lastGroup \subseteq 1..k /\ k \in 1..k
      BY <1>2, <1>4
    <3>2. QED
      BY <1>1, <1>4, <3>1
  <2>2. \A j \in PassedOver' : \E c \in Ids : Gone(c, j)'
    BY <1>0, <1>5, <1>6, <1>8 DEF PassedInv
  <2>3. first' <= Spacing * k
    <3>1. Spacing * lastGroup < Spacing * k /\ Spacing * k \in Nat
          /\ Spacing * lastGroup \in Nat
      BY <1>2, <1>4, SpacingGrows
    <3>2. first <= Spacing * lastGroup
      BY <1>0 DEF PassedInv
    <3>3. QED
      BY <1>2, <1>4, <3>1, <3>2
  <2>4. QED
    BY <1>1, <1>2, <1>9, <2>1, <2>2, <2>3 DEF PassedInv
<1>11. SelectorInv'
  <2>1. lastGroup' # 0
    BY <1>1, <1>2, <1>4
  <2>2. QED
    BY <1>1, <1>2, <2>1 DEF SelectorInv
<1>12. LoopTypes'
  <2>1. passed' \subseteq Nat
    BY <1>0, <1>1, <1>2 DEF TypeOK
  <2>2. QED
    BY <1>1, <1>2, <1>3, <1>9, <2>1 DEF LoopTypes
<1>13. QED
  BY <1>7, <1>10, <1>11, <1>12

LEMMA GroupsStep ==
    ASSUME IInv, [Next]_vars
    PROVE  LoopTypes' /\ GroupsInv' /\ PassedInv' /\ SelectorInv'
<1>1. cycle' \in Nat /\ CamerasKeep
  BY CamerasStep DEF CameraTypes
<1>2. CASE MakeGroups \/ PassGroup
  BY <1>2, GroupsMake, GroupsPass
<1>3. CASE Trigger \/ (\E c \in Ids : Capture(c)) \/ ReadCount \/ ReadSlot \/ NextCamera
           \/ Isp \/ UNCHANGED vars
  <2>1. UNCHANGED <<loopVars, selectorVars>>
    BY <1>3 DEF Trigger, Capture, ReadCount, ReadSlot, NextCamera, Isp, IspTake, IspDone, vars
  <2>2. QED
    BY <1>1, <2>1, GroupsRest
<1>4. QED
  BY <1>2, <1>3 DEF Next, MainLoop

-----------------------------------------------------------------------------
(* The ISP.                                                                 *)

IspTypes ==
    /\ ispInput \in Nat /\ ispBusy \in BOOLEAN
    /\ queue \in Seq(Nat) /\ Len(queue) <= QueueDepth

\* The bounded queue takes a group newer than those it has.
LEMMA PushInOrder ==
    ASSUME NEW q \in Seq(Nat), Len(q) <= QueueDepth, Increasing(q),
           NEW k \in Nat, \A j \in Range(q) : j < k
    PROVE  /\ PushLatest(q, k) \in Seq(Nat) /\ Len(PushLatest(q, k)) <= QueueDepth
           /\ Increasing(PushLatest(q, k))
           /\ Range(PushLatest(q, k)) \subseteq Range(q) \cup {k}
<1> DEFINE r == IF Len(q) = QueueDepth THEN Tail(q) ELSE q
<1>1. Len(q) \in Nat /\ QueueDepth \in Nat /\ QueueDepth > 0
  BY SizesAssumption
<1>2. /\ r \in Seq(Nat) /\ Len(r) + 1 <= QueueDepth /\ Increasing(r)
      /\ Range(r) \subseteq Range(q)
  <2>1. CASE Len(q) = QueueDepth
    <3>1. q # <<>>
      BY <1>1, <2>1
    <3>2. /\ Tail(q) \in Seq(Nat) /\ Len(Tail(q)) = Len(q) - 1 /\ Increasing(Tail(q))
          /\ Range(Tail(q)) \subseteq Range(q)
      BY <3>1, ElementsOfTail
    <3>3. Len(Tail(q)) + 1 <= QueueDepth
      BY <1>1, <2>1, <3>2
    <3>4. r = Tail(q)
      BY <2>1
    <3> HIDE DEF r
    <3>5. QED
      BY <3>2, <3>3, <3>4
  <2>2. CASE Len(q) # QueueDepth
    <3>1. Len(q) + 1 <= QueueDepth /\ r = q
      BY <1>1, <2>2
    <3> HIDE DEF r
    <3>2. QED
      BY <3>1
  <2>3. QED
    BY <2>1, <2>2
<1>3. PushLatest(q, k) = Append(r, k)
  BY DEF PushLatest
<1> HIDE DEF r
<1>4. /\ Append(r, k) \in Seq(Nat) /\ Len(Append(r, k)) = Len(r) + 1
      /\ Range(Append(r, k)) = Range(r) \cup {k} /\ Increasing(Append(r, k))
  BY <1>2, ElementsOfAppend
<1>5. QED
  BY <1>2, <1>3, <1>4

LEMMA IspPass ==
    ASSUME IInv, PassGroup
    PROVE  IspTypes' /\ IspOrder'
<1>0. TypeOK /\ IspOrder
  BY DEF IInv
<1>1. PICK g \in 0..Head(groups) : out' = Spacing * g
  BY SelectGroup
<1>2. Head(groups) \in Nat /\ g \in Nat
  <2>1. Head(groups) \in Nat
    BY SelectGroup
  <2>2. QED
    BY <2>1
<1>3. /\ UNCHANGED <<ispInput, ispBusy>>
      /\ queue' = IF output' # output THEN PushLatest(queue, out' \div Spacing) ELSE queue
  BY DEF PassGroup
<1>4. out' \div Spacing = g
  BY <1>1, <1>2, GroupOfTime
<1>5. /\ queue \in Seq(Nat) /\ Len(queue) <= QueueDepth /\ ispInput \in Nat
      /\ ispBusy \in BOOLEAN /\ out \in Nat /\ Increasing(queue)
      /\ \A k \in Range(queue) : k \in Nat /\ ispInput < k /\ Spacing * k <= out
      /\ Spacing * ispInput <= out
  <2>1. Range(queue) \subseteq Nat
    BY <1>0, Types, Elements
  <2>2. QED
    BY <1>0, <2>1 DEF TypeOK, SelectorTypeOK, IspOrder
<1>6. CASE output' = output
  <2>1. out' = out /\ queue' = queue
    BY <1>3, <1>6, SelectGroup
  <2>2. Increasing(queue)'
    BY <1>5, <2>1 DEF Increasing
  <2>3. QED
    BY <1>3, <1>5, <2>1, <2>2 DEF IspTypes, IspOrder
<1>7. CASE output' # output
  <2>1. out < out' /\ queue' = PushLatest(queue, g)
    BY <1>3, <1>4, <1>7, SelectGroup
  <2>2. ASSUME NEW k \in Nat, Spacing * k <= out
        PROVE  k < g /\ Spacing * k <= Spacing * g
    <3>1. Spacing * k \in Nat /\ Spacing * g \in Nat
      BY <1>2, SpacingGrows
    <3>2. Spacing * k < Spacing * g
      BY <1>1, <1>5, <2>1, <2>2, <3>1
    <3>3. QED
      BY <1>2, <3>1, <3>2, SpacingGrows
  <2>3. \A k \in Range(queue) : k < g /\ Spacing * k <= Spacing * g
    BY <1>5, <2>2
  <2>4. ispInput < g /\ Spacing * ispInput <= Spacing * g
    BY <1>5, <2>2
  <2>5. /\ queue' \in Seq(Nat) /\ Len(queue') <= QueueDepth /\ Increasing(queue')
        /\ Range(queue') \subseteq Range(queue) \cup {g}
    BY <1>2, <1>5, <2>1, <2>3, PushInOrder
  <2>6. Spacing * g <= Spacing * g
    <3>1. Spacing * g \in Nat
      BY <1>2, SpacingGrows
    <3>2. QED
      BY <3>1
  <2>7. \A k \in Range(queue') : ispInput < k /\ Spacing * k <= out'
    BY <1>1, <1>5, <2>3, <2>4, <2>5, <2>6
  <2>8. Increasing(queue)'
    BY <2>5 DEF Increasing
  <2>9. QED
    BY <1>1, <1>3, <1>5, <2>4, <2>5, <2>7, <2>8 DEF IspTypes, IspOrder
<1>8. QED
  BY <1>6, <1>7

LEMMA IspTakes ==
    ASSUME IInv, IspTake
    PROVE  IspTypes' /\ IspOrder'
<1>0. TypeOK /\ IspOrder
  BY DEF IInv
<1>1. /\ queue # <<>> /\ ispInput' = Head(queue) /\ queue' = Tail(queue) /\ ispBusy' = TRUE
      /\ UNCHANGED out
  BY DEF IspTake, selectorVars
<1>2. queue \in Seq(Nat) /\ Len(queue) \in Nat /\ Len(queue) <= QueueDepth /\ QueueDepth \in Nat
  BY <1>0, Types DEF TypeOK
<1>3. /\ ispInput' \in Nat /\ ispInput' \in Range(queue)
      /\ queue' \in Seq(Nat) /\ Len(queue') = Len(queue) - 1
      /\ Range(queue) = {ispInput'} \cup Range(queue')
      /\ Increasing(queue') /\ \A k \in Range(queue') : ispInput' < k
  BY <1>0, <1>1, <1>2, ElementsOfTail DEF IspOrder
<1>4. Len(queue') <= QueueDepth
  BY <1>2, <1>3
<1>5. Increasing(queue)'
  BY <1>3 DEF Increasing
<1>6. QED
  BY <1>0, <1>1, <1>3, <1>4, <1>5 DEF IspTypes, IspOrder

LEMMA IspStep ==
    ASSUME IInv, [Next]_vars
    PROVE  IspTypes' /\ IspOrder'
<1>1. CASE PassGroup \/ IspTake
  BY <1>1, IspPass, IspTakes
<1>2. CASE Trigger \/ (\E c \in Ids : Capture(c)) \/ ReadCount \/ ReadSlot \/ NextCamera
           \/ MakeGroups \/ IspDone \/ UNCHANGED vars
  <2>0. TypeOK /\ IspOrder
    BY DEF IInv
  <2>1. UNCHANGED <<queue, ispInput, out>> /\ ispBusy' \in BOOLEAN
    BY <1>2, <2>0 DEF Trigger, Capture, ReadCount, ReadSlot, NextCamera, MakeGroups, IspDone,
                      vars, ispVars, selectorVars, TypeOK
  <2>2. QED
    BY <2>0, <2>1 DEF TypeOK, IspTypes, IspOrder, Increasing
<1>3. QED
  BY <1>1, <1>2 DEF Next, MainLoop, Isp

-----------------------------------------------------------------------------
(* The theorems.                                                            *)

LEMMA IInvInit == Init => IInv
<1> SUFFICES ASSUME Init PROVE IInv
  OBVIOUS
<1>1. /\ cycle = 0 /\ exposed = NoFrames /\ lossy = 0
      /\ ring = NoFrames /\ exhausted = [c \in Ids |-> 0]
      /\ mpc = "loop" /\ at = 1 /\ expected = <<>> /\ snapshots = NoFrames
      /\ groups = <<>> /\ lastGroup = 0 /\ gaps = 0 /\ passed = {}
      /\ queue = <<>> /\ ispInput = 0 /\ ispBusy = FALSE
      /\ next = 0 /\ last = 0 /\ pending = 0
      /\ input = 0 /\ output = 0 /\ dropped = 0 /\ invalid = 0
      /\ first = 0 /\ out = 0 /\ target = 0 /\ newer = {}
  BY DEF Init, SelectorInit, NoGroup
<1>2. /\ NoFrames \in [Ids -> Seq(Nat)]
      /\ \A c \in Ids : NoFrames[c] = <<>>
      /\ Range(<<>>) = {} /\ Len(<<>>) = 0 /\ Increasing(<<>>) /\ <<>> \in Seq(Nat)
  BY DEF NoFrames, Range, Increasing
<1>3. Capacity \in Nat /\ QueueDepth \in Nat /\ Spacing * 0 = 0 /\ 1 \in 1..Len(Cameras)
  BY SizesAssumption, CameraPlaces
<1>4. TypeOK
  <2>1. SelectorTypeOK
    BY <1>1 DEF SelectorTypeOK
  <2>2. \A c \in Ids : Len(ring[c]) <= Capacity /\ Len(snapshots[c]) <= Capacity
    BY <1>1, <1>2, <1>3
  <2>3. Len(queue) <= QueueDepth
    BY <1>1, <1>2, <1>3
  <2>4. /\ exposed \in [Ids -> Seq(Nat)] /\ ring \in [Ids -> Seq(Nat)]
        /\ snapshots \in [Ids -> Seq(Nat)] /\ exhausted \in [Ids -> Nat]
    BY <1>1, <1>2
  <2>5. expected \in Seq(Nat) /\ groups \in Seq(Nat) /\ queue \in Seq(Nat)
    BY <1>1, <1>2
  <2>6. mpc \in {"loop", "slots"} /\ at \in 1..Len(Cameras) /\ passed \subseteq Nat
        /\ ispBusy \in BOOLEAN
    BY <1>1, <1>3
  <2>7. {cycle, lossy, lastGroup, gaps, ispInput} \subseteq Nat
    BY <1>1
  <2>8. QED
    BY <2>1, <2>2, <2>3, <2>4, <2>5, <2>6, <2>7 DEF TypeOK
<1>5. RingsInv
  BY <1>1, <1>2 DEF RingsInv
<1>6. ScanInv
  <2>1. \A c \in Ids : Reading(c) = {}
    BY <1>1, <1>2 DEF Reading
  <2>2. \A i \in 1..Len(Cameras) : snapshots[Cameras[i]] = <<>>
    BY <1>1, <1>2, CameraPlaces
  <2>3. QED
    BY <1>1, <1>2, <2>1, <2>2 DEF ScanInv
<1>7. GroupsInv
  BY <1>1, <1>2 DEF GroupsInv
<1>8. PassedInv
  <2>1. PassedOver = {}
    BY <1>1 DEF PassedOver
  <2>2. {j \in PassedOver : Spacing * j > first} = {}
    BY <2>1
  <2>3. QED
    BY <1>1, <1>3, <2>1, <2>2, FS_EmptySet DEF PassedInv
<1>9. SelectorInv
  BY <1>1, <1>3 DEF SelectorInv
<1>10. IspOrder
  BY <1>1, <1>2, <1>3 DEF IspOrder
<1>11. QED
  BY <1>4, <1>5, <1>6, <1>7, <1>8, <1>9, <1>10 DEF IInv

LEMMA IInvStep == IInv /\ [Next]_vars => IInv'
<1> SUFFICES ASSUME IInv, [Next]_vars PROVE IInv'
  OBVIOUS
<1>1. CameraTypes' /\ RingsInv'
  BY CamerasStep
<1>2. ScanTypes' /\ ScanInv'
  BY ScanStep
<1>3. LoopTypes' /\ GroupsInv' /\ PassedInv' /\ SelectorInv'
  BY GroupsStep
<1>4. IspTypes' /\ IspOrder'
  BY IspStep
<1>5. TypeOK'
  BY <1>1, <1>2, <1>3, <1>4 DEF TypeOK, CameraTypes, ScanTypes, LoopTypes, IspTypes
<1>6. QED
  BY <1>1, <1>2, <1>3, <1>4, <1>5 DEF IInv

LEMMA IInvAlways == Spec => []IInv
BY IInvInit, IInvStep, PTL DEF Spec

\* Every variable has its type, in every state of the pipeline.
THEOREM TypeCorrect == Spec => []TypeOK
<1>1. IInv => TypeOK
  BY DEF IInv
<1>2. QED
  BY <1>1, IInvAlways, PTL

\* However the slots of the rings are read while the cameras fill them, a cycle
\* of which no group was made has lost a frame, and sync_cycle_gaps counts the
\* cycles passed over since the first group (completeAfter, run).
THEOREM PassedOverCorrect == Spec => []PassedOverIsGone
<1>1. IInv => PassedOverIsGone
  <2> SUFFICES ASSUME IInv PROVE PassedOverIsGone
    OBVIOUS
  <2>1. \A k \in PassedOver : \E c \in Ids : Gone(c, k)
    BY DEF IInv, PassedInv
  <2>2. \A k \in PassedOver : ~Available(k)
    BY <2>1 DEF Gone, Available
  <2>3. QED
    BY <2>2 DEF IInv, PassedInv, PassedOverIsGone
<1>2. QED
  BY <1>1, IInvAlways, PTL

\* The group in work, those queued, the one held and those still to be selected
\* are in the order of their cycles.
THEOREM IspOrdered == Spec => []IspInOrder
<1>1. IInv => IspInOrder
  <2> SUFFICES ASSUME IInv PROVE IspInOrder
    OBVIOUS
  <2>0. TypeOK /\ GroupsInv /\ SelectorInv /\ IspOrder
    BY DEF IInv
  <2> DEFINE A == IF ispInput # 0 THEN <<ispInput>> ELSE <<>>
             B == IF pending # 0 THEN <<pending \div Spacing>> ELSE <<>>
  <2>1. /\ ispInput \in Nat /\ lastGroup \in Nat /\ out \in Nat
        /\ queue \in Seq(Nat) /\ groups \in Seq(Nat)
        /\ Increasing(queue) /\ Increasing(groups)
    BY <2>0, Types DEF IspOrder, GroupsInv, TypeOK, SelectorTypeOK
  <2>2. PICK g \in 0..lastGroup : out = Spacing * g
    BY <2>0 DEF SelectorInv
  <2>3. g \in Nat /\ g <= lastGroup
    BY <2>1
  <2>4. A \in Seq(Nat) /\ Increasing(A) /\ \A k \in Range(A) : k <= ispInput
    BY <2>1 DEF Increasing, Range
  <2>5. B \in Seq(Nat) /\ Increasing(B) /\ \A k \in Range(B) : k = lastGroup /\ g < k
    <3>1. CASE pending = 0
      <4>1. B = <<>>
        BY <3>1
      <4>2. QED
        BY <4>1 DEF Increasing, Range
    <3>2. CASE pending # 0
      <4>1. pending = Spacing * lastGroup /\ Spacing * g < Spacing * lastGroup
        BY <2>0, <2>2, <3>2 DEF SelectorInv
      <4>2. pending \div Spacing = lastGroup
        BY <2>1, <4>1, GroupOfTime
      <4>3. g < lastGroup
        BY <2>1, <2>3, <4>1, SpacingGrows
      <4>4. B = <<lastGroup>>
        BY <3>2, <4>2
      <4>5. QED
        BY <2>1, <4>3, <4>4 DEF Increasing, Range
    <3>3. QED
      BY <3>1, <3>2
  <2>6. ispInput <= g /\ \A k \in Range(queue) : ispInput < k /\ k <= g
    <3>1. \A k \in Nat : Spacing * k <= Spacing * g => k <= g
      <4> SUFFICES ASSUME NEW k \in Nat, Spacing * k <= Spacing * g PROVE k <= g
        OBVIOUS
      <4>1. Spacing * k \in Nat /\ Spacing * g \in Nat
        BY <2>3, SpacingGrows
      <4>2. ~(Spacing * g < Spacing * k)
        BY <4>1
      <4>3. ~(g < k)
        BY <2>3, <4>2, SpacingGrows
      <4>4. QED
        BY <2>3, <4>3
    <3>2. Range(queue) \subseteq Nat
      BY <2>1, Elements
    <3>3. QED
      BY <2>0, <2>1, <2>2, <3>1, <3>2 DEF IspOrder
  <2>7. \A k \in Range(groups) : lastGroup < k
    <3>1. \A k \in Range(groups) : k \in (lastGroup + 1)..cycle
      BY <2>0 DEF GroupsInv
    <3>2. QED
      BY <2>1, <3>1
  <2> HIDE DEF A, B
  <2>8. /\ A \o queue \in Seq(Nat) /\ Increasing(A \o queue)
        /\ Range(A \o queue) = Range(A) \cup Range(queue)
    BY <2>1, <2>4, <2>6, OrderedConcat
  <2>9. \A k \in Range(A \o queue) : k <= g
    <3>1. Range(A) \subseteq Nat
      BY <2>4, Elements
    <3>2. \A k \in Range(A) : k <= g
      BY <2>1, <2>3, <2>4, <2>6, <3>1
    <3>3. QED
      BY <2>6, <2>8, <3>2
  <2>10. /\ (A \o queue) \o B \in Seq(Nat) /\ Increasing((A \o queue) \o B)
         /\ Range((A \o queue) \o B) = Range(A \o queue) \cup Range(B)
    BY <2>3, <2>5, <2>8, <2>9, OrderedConcat
  <2>11. \A k \in Range((A \o queue) \o B) : k <= lastGroup
    <3>1. Range(A \o queue) \subseteq Nat
      BY <2>8, Elements
    <3>2. \A k \in Range(A \o queue) : k <= lastGroup
      BY <2>1, <2>3, <2>9, <3>1
    <3>3. \A k \in Range(B) : k <= lastGroup
      BY <2>1, <2>5
    <3>4. QED
      BY <2>10, <3>2, <3>3
  <2>12. Increasing(((A \o queue) \o B) \o groups)
    BY <2>1, <2>7, <2>10, <2>11, OrderedConcat
  <2>13. QED
    BY <2>12 DEF IspInOrder, Increasing, A, B
<1>2. QED
  BY <1>1, IInvAlways, PTL

\* With one image more than the ring has slots a camera drops a frame only
\* while something outside its ring refers to an image (kImageBuffersPerCamera).
THEOREM PoolCorrect == Spec => PoolSuffices
<1>1. IInv /\ [Next]_vars =>
        [\A c \in Ids : exhausted'[c] # exhausted[c] =>
            (Range(snapshots[c]) \cup Downstream) \ Range(ring[c]) # {}]_vars
  <2> SUFFICES ASSUME IInv, Next, NEW c \in Ids, exhausted'[c] # exhausted[c],
                      (Range(snapshots[c]) \cup Downstream) \ Range(ring[c]) = {}
               PROVE  FALSE
    OBVIOUS
  <2>0. TypeOK
    BY DEF IInv
  <2>1. PICK b \in Ids : Capture(b)
    <3>1. CASE Trigger \/ MainLoop \/ Isp
      BY <3>1 DEF Trigger, MainLoop, ReadCount, ReadSlot, NextCamera, MakeGroups, PassGroup,
                  Isp, IspTake, IspDone, cameraVars
    <3>2. QED
      BY <3>1 DEF Next
  <2>2. b = c /\ ~(Cardinality(InUse(c)) < PoolSize)
    <3>1. exhausted \in [Ids -> Nat]
      BY <2>0, Types
    <3>2. CASE Cardinality(InUse(b)) < PoolSize
      BY <2>1, <3>2 DEF Capture
    <3>3. CASE ~(Cardinality(InUse(b)) < PoolSize)
      <4>1. exhausted' = [exhausted EXCEPT ![b] = exhausted[b] + 1]
        BY <2>1, <3>3 DEF Capture
      <4>2. b = c
        BY <3>1, <4>1
      <4>3. QED
        BY <3>3, <4>2
    <3>4. QED
      BY <3>2, <3>3
  <2>3. InUse(c) = Range(ring[c])
    BY DEF InUse
  <2>4. ring[c] \in Seq(Nat) /\ Len(ring[c]) \in Nat /\ Len(ring[c]) <= Capacity
        /\ Capacity \in Nat
    BY <2>0, Types
  <2>5. IsFiniteSet(Range(ring[c])) /\ Cardinality(Range(ring[c])) <= Len(ring[c])
    BY <2>4, ElementsBounded
  <2>6. Cardinality(Range(ring[c])) \in Nat
    BY <2>5, FS_CardinalityType
  <2>7. Cardinality(InUse(c)) < Capacity + 1
    <3> DEFINE x == Cardinality(Range(ring[c]))
               n == Len(ring[c])
    <3>1. x \in Nat /\ n \in Nat /\ x <= n /\ n <= Capacity /\ Capacity \in Nat
      BY <2>4, <2>5, <2>6
    <3> HIDE DEF x, n
    <3>2. x < Capacity + 1
      BY <3>1
    <3>3. QED
      BY <2>3, <3>2 DEF x
  <2>8. QED
    BY <2>2, <2>7 DEF PoolSize
<1>2. QED
  BY <1>1, IInvAlways, PTL DEF Spec, PoolSuffices

-----------------------------------------------------------------------------
(* The main loop as a user of the selector.                                 *)

LEMMA InputsStep ==
    ASSUME IInv, InputsInv, [Next]_vars
    PROVE  InputsInv'
<1>0. /\ {cycle, lastGroup, input} \subseteq Nat /\ MaxCycle \in Nat
  BY BoundsAssumption DEF IInv, TypeOK, SelectorTypeOK
<1>1. CASE PassGroup
  <2>1. lastGroup' \in Nat /\ lastGroup < lastGroup'
    BY <1>1, SelectGroup
  <2>2. input' = input + 1
    BY <1>1 DEF PassGroup, Select, Reject, SelectFirst, Hold, SelectNew, SelectPending
  <2>3. cycle' = cycle
    BY <1>1 DEF PassGroup, cameraVars
  <2>4. QED
    BY <1>0, <2>1, <2>2, <2>3 DEF InputsInv
<1>2. CASE Trigger
  <2>1. cycle < MaxCycle /\ cycle' = cycle + 1 /\ UNCHANGED <<lastGroup, input>>
    BY <1>2 DEF Trigger, loopVars, selectorVars
  <2>2. QED
    BY <1>0, <2>1 DEF InputsInv
<1>3. CASE UNCHANGED <<cycle, lastGroup, input>>
  BY <1>3 DEF InputsInv
<1>4. QED
  BY <1>1, <1>2, <1>3 DEF Next, MainLoop, Isp, Capture, ReadCount, ReadSlot, NextCamera, MakeGroups,
     IspTake, IspDone, vars, cameraVars, loopVars, selectorVars

LEMMA SelectorStep ==
    ASSUME BoundsSuffice, IInv, InputsInv, [Next]_vars
    PROVE  [SelectorNext]_selectorVars
<1>1. CASE PassGroup
  <2> DEFINE k == Head(groups)
             t == Spacing * k
  <2>1. k \in Nat /\ lastGroup < k /\ k <= cycle
    BY <1>1, SelectGroup
  <2>2. /\ {cycle, lastGroup, input} \subseteq Nat
        /\ {MaxCycle, MaxTime, MaxInputs} \subseteq Nat
    BY BoundsAssumption, InputsAssumption DEF IInv, TypeOK, SelectorTypeOK
  <2>3. input < MaxInputs /\ k <= MaxCycle
    BY <2>1, <2>2 DEF InputsInv, BoundsSuffice
  <2>4. Select(TRUE, t)
    BY <1>1 DEF PassGroup
  <2> HIDE DEF k
  <2>5. t \in Nat /\ t <= Spacing * MaxCycle /\ Spacing * MaxCycle \in Nat
    <3>1. CASE k = MaxCycle
      BY <2>1, <2>2, <3>1, SizesAssumption
    <3>2. CASE k # MaxCycle
      <4>1. k < MaxCycle
        BY <2>1, <2>2, <2>3, <3>2
      <4>2. QED
        BY <2>1, <2>2, <4>1, SpacingGrows, SizesAssumption
    <3>3. QED
      BY <3>1, <3>2
  <2> HIDE DEF t
  <2>6. t \in -1..MaxTime
    BY <2>2, <2>5 DEF BoundsSuffice
  <2>7. QED
    BY <2>3, <2>4, <2>6 DEF SelectorNext
<1>2. CASE UNCHANGED selectorVars
  BY <1>2
<1>3. QED
  BY <1>1, <1>2 DEF Next, MainLoop, Isp, Trigger, Capture, ReadCount, ReadSlot, NextCamera, MakeGroups,
     IspTake, IspDone, vars

\* What the main loop does with the selector are calls of select on complete
\* groups with growing timestamps, as FrameRateSelector expects them.
THEOREM PipelineSelects == ASSUME BoundsSuffice PROVE Spec => SelectorSpec
<1>1. Init => SelectorInit /\ InputsInv
  BY BoundsAssumption DEF Init, SelectorInit, InputsInv
<1>2. IInv /\ InputsInv /\ [Next]_vars => InputsInv'
  BY InputsStep
<1>3. IInv /\ InputsInv /\ [Next]_vars => [SelectorNext]_selectorVars
  BY SelectorStep
<1>4. QED
  BY <1>1, <1>2, <1>3, IInvAlways, PTL DEF Spec, SelectorSpec

\* So what is proved of the selector holds in the main loop: every group is
\* counted once, the ISP gets at most one per output period, and it is the one
\* nearest to the output time.
THEOREM PipelineRate ==
    ASSUME BoundsSuffice
    PROVE  Spec => [](EveryGroupAccounted /\ RateBounded) /\ NearestChosen /\ ServedOnTime
BY PipelineSelects, GroupsAccounted, RateCorrect, NearestReturned, NoTimeSkipped, PTL
=============================================================================
