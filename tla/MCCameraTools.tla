--------------------------- MODULE MCCameraTools ---------------------------
(* A small instance of CameraTools. *)
EXTENDS CameraTools

(* Only for its sets of settings, which do not depend on Initial. *)
Values == INSTANCE Configuration WITH Initial <- {}

(* At most two settings differ from the default, three if one of them is   *)
(* --disable-encoder; and at most one differs from the slow rates.         *)
FewChanges ==
    {Values!Slow} \cup Values!Variants(Values!Slow) \cup
    UNION {{base} \cup Values!Variants(base)
               \cup UNION {Values!Variants(s) : s \in Values!Variants(base)} :
           base \in {Values!Default, [Values!Default EXCEPT !.disableEncoder = TRUE]}}

=============================================================================
