------------------------- MODULE MCFrameRateSelector -------------------------
(***************************************************************************)
(* Small instances of FrameRateSelector.  The loop of                      *)
(* advanceOutputTimestamp is written out here as a recursive function and  *)
(* compared with the closed form the model uses.                           *)
(***************************************************************************)
EXTENDS FrameRateSelector

AdvanceLoop(n, ts) ==
    LET repeat[m \in Nat] == IF m > ts THEN m ELSE repeat[m + Period]
    IN  repeat[n + Period]

ASSUME AdvanceIsTheLoop ==
    \A n \in 1..(2 * MaxTime) : \A ts \in n..(3 * MaxTime) :
        Advance(n, ts) = AdvanceLoop(n, ts)
=============================================================================
