-------------------------- MODULE FrameRateSelector --------------------------
(***************************************************************************)
(* The timestamp-driven frame-rate conversion of the main loop             *)
(* (FrameRateSelector): the stream of frame groups is thinned to one group *)
(* per output period, the group nearest to the output time.                *)
(*                                                                         *)
(* The selector is sequential; one action is one branch of one call of     *)
(* select.  A group is its completeness and its timestamp.                 *)
(*                                                                         *)
(* An operator named X_Y is a faulty version of the operator X; it is not  *)
(* part of the specification.                                              *)
(***************************************************************************)
EXTENDS Integers

CONSTANTS Period,       \* period_ns_
          MaxTime,      \* bound: latest timestamp of an input
          MaxInputs     \* bound: groups between two calls of reset

\* The constructor refuses a period that is not positive.
ASSUME PeriodAssumption == Period \in Nat \ {0}
ASSUME InputsAssumption == {MaxTime, MaxInputs} \subseteq Nat

VARIABLES next,             \* next_output_timestamp_, 0 before the first group
          last,             \* last_input_timestamp_
          pending,          \* pending_group_, as its timestamp
          input, output, dropped, invalid,     \* statistics_
          first,            \* history: timestamp of the first group
          out,              \* history: timestamp of the last group returned
          target,           \* history: output time it was chosen for
          newer             \* history: accepted timestamps since that group

selectorVars == <<next, last, pending, input, output, dropped, invalid,
                  first, out, target, newer>>

\* The empty optional; the timestamp of a held group is positive.
NoGroup == 0
HasPending == pending # NoGroup

SelectorInit ==
    /\ next = 0 /\ last = 0 /\ pending = NoGroup
    /\ input = 0 /\ output = 0 /\ dropped = 0 /\ invalid = 0
    /\ first = 0 /\ out = 0 /\ target = 0 /\ newer = {}

\* advanceOutputTimestamp adds Period until the result is later than ts; for
\* ts >= n that is this many periods.
Advance(n, ts) == n + Period * ((ts - n) \div Period + 1)
-----------------------------------------------------------------------------
(* select(group), group.group_timestamp = ts.                               *)

Valid(complete, ts) == complete /\ ts > 0 /\ (last # 0 => ts > last)

Reject(complete, ts) ==
    /\ ~Valid(complete, ts)
    /\ input' = input + 1 /\ invalid' = invalid + 1 /\ dropped' = dropped + 1
    /\ UNCHANGED <<next, last, pending, output, first, out, target, newer>>

SelectFirst_NoPeriod(ts) ==
    /\ Valid(TRUE, ts) /\ next = 0
    /\ last' = ts
    /\ next' = ts
    /\ input' = input + 1 /\ output' = output + 1
    /\ first' = ts /\ out' = ts /\ target' = ts /\ newer' = {}
    /\ UNCHANGED <<pending, dropped, invalid>>

\* The first group is returned at once and starts the output clock.
SelectFirst(ts) ==
    /\ Valid(TRUE, ts) /\ next = 0
    /\ last' = ts
    /\ next' = ts + Period
    /\ input' = input + 1 /\ output' = output + 1
    /\ first' = ts /\ out' = ts /\ target' = ts /\ newer' = {}
    /\ UNCHANGED <<pending, dropped, invalid>>

Hold_Uncounted(ts) ==
    /\ Valid(TRUE, ts) /\ next # 0 /\ ts < next
    /\ last' = ts
    /\ pending' = ts
    /\ input' = input + 1
    /\ newer' = newer \cup {ts}
    /\ UNCHANGED <<next, output, dropped, invalid, first, out, target>>

\* Before the output time: keep the newer group in place of the held one.
Hold(ts) ==
    /\ Valid(TRUE, ts) /\ next # 0 /\ ts < next
    /\ last' = ts
    /\ pending' = ts
    /\ input' = input + 1
    /\ dropped' = IF HasPending THEN dropped + 1 ELSE dropped
    /\ newer' = newer \cup {ts}
    /\ UNCHANGED <<next, output, invalid, first, out, target>>

TakesNew_Older(ts) == ~HasPending \/ ts - next > next - pending
\* At or after the output time the held group and the new one compete; on a
\* tie the fresher one wins.
TakesNew(ts) == ~HasPending \/ ts - next <= next - pending

SelectNew_FromInput(ts) ==
    /\ Valid(TRUE, ts) /\ next # 0 /\ ts >= next
    /\ TakesNew(ts)
    /\ last' = ts
    /\ next' = ts + Period
    /\ pending' = NoGroup
    /\ input' = input + 1 /\ output' = output + 1
    /\ dropped' = IF HasPending THEN dropped + 1 ELSE dropped
    /\ out' = ts /\ target' = next /\ newer' = {}
    /\ UNCHANGED <<invalid, first>>

SelectNew(ts) ==
    /\ Valid(TRUE, ts) /\ next # 0 /\ ts >= next
    /\ TakesNew(ts)
    /\ last' = ts
    /\ next' = Advance(next, ts)
    /\ pending' = NoGroup
    /\ input' = input + 1 /\ output' = output + 1
    /\ dropped' = IF HasPending THEN dropped + 1 ELSE dropped
    /\ out' = ts /\ target' = next /\ newer' = {}
    /\ UNCHANGED <<invalid, first>>

SelectPending(ts) ==
    /\ Valid(TRUE, ts) /\ next # 0 /\ ts >= next
    /\ ~TakesNew(ts)
    /\ last' = ts
    /\ next' = Advance(next, ts)
    /\ pending' = ts
    /\ input' = input + 1 /\ output' = output + 1
    /\ out' = pending /\ target' = next /\ newer' = {ts}
    /\ UNCHANGED <<dropped, invalid, first>>

Select(complete, ts) ==
    \/ Reject(complete, ts)
    \/ complete /\ (SelectFirst(ts) \/ Hold(ts) \/ SelectNew(ts) \/ SelectPending(ts))

\* reset() starts a new stream, and the history with it.
Reset ==
    /\ next' = 0 /\ last' = 0 /\ pending' = NoGroup
    /\ input' = 0 /\ output' = 0 /\ dropped' = 0 /\ invalid' = 0
    /\ first' = 0 /\ out' = 0 /\ target' = 0 /\ newer' = {}
-----------------------------------------------------------------------------
SelectorNext ==
    \/ /\ input < MaxInputs
       /\ \E complete \in BOOLEAN, ts \in -1..MaxTime : Select(complete, ts)
    \/ Reset

SelectorSpec == SelectorInit /\ [][SelectorNext]_selectorVars
-----------------------------------------------------------------------------
\* Every variable has its type.
SelectorTypeOK ==
    /\ next \in Nat /\ last \in Nat /\ pending \in Nat
    /\ input \in Nat /\ output \in Nat /\ dropped \in Nat /\ invalid \in Nat
    /\ first \in Nat /\ out \in Nat /\ target \in Nat /\ newer \subseteq Nat

\* Every group that came in was returned, dropped or is the one being held.
EveryGroupAccounted ==
    input = output + dropped + (IF HasPending THEN 1 ELSE 0)

\* The output clock is ahead of the input by at most one period, on the grid
\* started by the first group, and a held group is the latest input: after a
\* gap the missed output times are skipped rather than made up for.
ClockAhead ==
    next # 0 =>
        /\ next - Period <= last /\ last < next
        /\ (next - first) % Period = 0
        /\ HasPending => pending = last

\* The rate is never exceeded: n groups span at least n - 1 periods of input.
RateBounded == output > 0 => (output - 1) * Period <= last - first

\* Groups are returned in strictly increasing time order (the test asserts it);
\* downstream timestamps rely on it.  A reset starts a new stream.
OutputsIncrease == [][out # 0 /\ out' # out => out' > out \/ out' = 0]_selectorVars

\* A group held back is newer than the last one returned.
HeldIsNewer == HasPending => pending > out

\* The group returned is, of all those that came since the previous output, the
\* nearest to the output time (the class comment of FrameRateSelector).
Distance(ts, time) == IF ts >= time THEN ts - time ELSE time - ts
NearestChosen ==
    [][output' = output + 1 /\ next # 0 =>
         \A ts \in newer \cup {last'} : Distance(out', next) <= Distance(ts, next)]_selectorVars

\* While inputs come at least once a period no output time is skipped, and the
\* group returned for it is off by at most half the distance between the two
\* inputs around it, if the earlier one was still held.
ServedOnTime ==
    [][output' = output + 1 /\ next # 0 =>
         /\ last' - last <= Period => next' = next + Period
         /\ HasPending => 2 * Distance(out', next) <= last' - last]_selectorVars
=============================================================================
