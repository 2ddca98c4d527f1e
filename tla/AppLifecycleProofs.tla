-------------------------- MODULE AppLifecycleProofs --------------------------
(***************************************************************************)
(* Proofs about AppLifecycle, for any number of cameras and streams, any   *)
(* queue depth and any number of groups: whatever start fails and whenever *)
(* main stops, no thread is in a part that is closed or destroyed, and     *)
(* nothing on its way is refused by the next stage.                        *)
(*                                                                         *)
(* The argument is one of order.  Precedes says which steps of main have   *)
(* to be done before which; the first half shows that every plan the       *)
(* program makes respects it, one object after the other; the second half  *)
(* that a plan that does keeps every part there while it has users.        *)
(***************************************************************************)
EXTENDS AppLifecycle, TLAPS, SequenceTheorems

-----------------------------------------------------------------------------
(* Parts and steps.                                                         *)

LEMMA Counts ==
    \A o \in Objects : Count(o) \in Nat \ {0}
BY CountsAssumption DEF Count, Objects, Stages

\* A part is an object and a number.
LEMMA PartIs ==
    ASSUME NEW O \in SUBSET Objects, NEW p
    PROVE  p \in PartsOf(O) <=> \E o \in O : \E i \in 1..Count(o) : p = <<o, i>>
BY DEF PartsOf

LEMMA PartFields ==
    ASSUME NEW p \in Parts
    PROVE  p[1] \in Objects /\ p[2] \in 1..Count(p[1]) /\ p = <<p[1], p[2]>>
<1>1. PICK o \in Objects : \E i \in 1..Count(o) : p = <<o, i>>
  BY PartIs DEF Parts
<1>2. PICK i \in 1..Count(o) : p = <<o, i>>
  BY <1>1
<1>3. p[1] = o /\ p[2] = i
  BY <1>2
<1>4. QED
  BY <1>2, <1>3

LEMMA PartOf ==
    ASSUME NEW o \in Objects, NEW i \in 1..Count(o)
    PROVE  /\ <<o, i>> \in Parts
           /\ \A O \in SUBSET Objects : <<o, i>> \in PartsOf(O) <=> o \in O
<1>1. \A O \in SUBSET Objects : <<o, i>> \in PartsOf(O) <=> o \in O
  <2> SUFFICES ASSUME NEW O \in SUBSET Objects
               PROVE  <<o, i>> \in PartsOf(O) <=> o \in O
    OBVIOUS
  <2>1. \A u \in O : \A j \in 1..Count(u) : <<o, i>> = <<u, j>> => o = u
    OBVIOUS
  <2>2. QED
    BY <2>1, PartIs
<1>2. QED
  BY <1>1 DEF Parts

\* A part is of the objects it is said to be of.
LEMMA PartsOfIs ==
    ASSUME NEW p \in Parts, NEW O \in SUBSET Objects
    PROVE  p \in PartsOf(O) <=> p[1] \in O
BY PartFields, PartOf

LEMMA NamedParts ==
    /\ Isp \in Parts /\ Metadata \in Parts /\ Scheduler \in Parts /\ Preview \in Parts
    /\ Isp \in StageParts /\ Metadata \in StageParts
    /\ \A c \in 1..CameraCount : Camera(c) \in Parts
    /\ \A s \in 1..StreamCount : /\ Encoder(s) \in Parts /\ Output(s) \in Parts
                                 /\ Encoder(s) \in StageParts /\ Output(s) \in StageParts
    /\ StageParts \subseteq Parts
<1>1. /\ 1 \in 1..Count("isp") /\ 1 \in 1..Count("metadata")
      /\ 1 \in 1..Count("scheduler") /\ 1 \in 1..Count("preview")
      /\ Count("manager") = CameraCount
      /\ Count("encoder") = StreamCount /\ Count("output") = StreamCount
  BY DEF Count
<1>2. Stages \in SUBSET Objects
  BY DEF Objects
<1>3. /\ {"isp", "metadata", "scheduler", "preview", "manager", "encoder", "output"} \subseteq Objects
      /\ {"isp", "metadata", "encoder", "output"} \subseteq Stages
  BY DEF Objects, Stages
<1>4. StageParts \subseteq Parts
  BY <1>2 DEF StageParts, Parts, PartsOf
<1>5. QED
  BY <1>1, <1>2, <1>3, <1>4, PartOf
     DEF Isp, Metadata, Scheduler, Preview, Camera, Encoder, Output, StageParts

\* A step is what it does and to which part.
LEMMA StepIs ==
    ASSUME NEW r \in Steps
    PROVE  /\ r = Do(r.step, r.part)
           /\ r.step \in {"start", "open", "grab", "thread", "tell", "join", "release",
                          "destroy", "handle", "reset"}
           /\ r.step \notin {"handle", "reset"} => r.part \in Parts
           /\ r.step \in {"handle", "reset"} => r.part \in Signals
           /\ r.step = "start" => r.part \in PartsOf(Stages \cup {"scheduler"})
           /\ r.step \in {"open", "grab"} => r.part \in PartsOf({"manager"})
           /\ r.step = "thread" => r.part \in PartsOf({"manager", "preview"})
<1>1. /\ PartsOf(Stages \cup {"scheduler"}) \subseteq Parts
      /\ PartsOf({"manager"}) \subseteq Parts
      /\ PartsOf({"manager", "preview"}) \subseteq Parts
  BY DEF PartsOf, Parts, Objects
<1> HIDE DEF Parts, Signals
<1>2. QED
  BY <1>1 DEF Steps, Do

LEMMA StopSteps ==
    ASSUME NEW p \in Parts, NEW s \in {"tell", "join", "release", "destroy"}
    PROVE  Do(s, p) \in Steps
BY DEF Steps, Do

LEMMA DoFields ==
    \A s, p, t, q : /\ Do(s, p).step = s /\ Do(s, p).part = p
                    /\ Do(s, p) = Do(t, q) <=> s = t /\ p = q
BY DEF Do
-----------------------------------------------------------------------------
(* Sequences of steps in order.                                             *)

\* The steps of a plan.
Has(q) == {q[k] : k \in 1..Len(q)}

LEMMA OrderedMore ==
    ASSUME NEW q, NEW D, NEW E, Ordered(q, D), D \cap Steps \subseteq E
    PROVE  Ordered(q, E)
BY DEF Ordered

LEMMA HasConcat ==
    ASSUME NEW p \in Seq(Steps), NEW q \in Seq(Steps)
    PROVE  Has(p \o q) = Has(p) \cup Has(q)
<1>1. /\ Len(p) \in Nat /\ Len(q) \in Nat /\ Len(p \o q) = Len(p) + Len(q)
      /\ \A i \in 1..(Len(p) + Len(q)) :
             (p \o q)[i] = IF i <= Len(p) THEN p[i] ELSE q[i - Len(p)]
  BY ConcatProperties, LenProperties
<1>2. \A k \in 1..Len(p) : k \in 1..(Len(p) + Len(q)) /\ (p \o q)[k] = p[k]
  BY <1>1
<1>3. \A k \in 1..Len(q) : k + Len(p) \in 1..(Len(p) + Len(q)) /\ (p \o q)[k + Len(p)] = q[k]
  BY <1>1
<1>4. \A k \in 1..(Len(p) + Len(q)) :
         \/ k \in 1..Len(p) /\ (p \o q)[k] = p[k]
         \/ k - Len(p) \in 1..Len(q) /\ (p \o q)[k] = q[k - Len(p)]
  BY <1>1
<1>5. ASSUME NEW r \in Has(p \o q) PROVE r \in Has(p) \cup Has(q)
  <2>1. PICK k \in 1..(Len(p) + Len(q)) : r = (p \o q)[k]
    BY <1>1 DEF Has
  <2>2. QED
    BY <1>4, <2>1 DEF Has
<1>6. ASSUME NEW r \in Has(p) \cup Has(q) PROVE r \in Has(p \o q)
  <2>1. CASE r \in Has(p)
    BY <1>1, <1>2, <2>1 DEF Has
  <2>2. CASE r \in Has(q)
    BY <1>1, <1>3, <2>2 DEF Has
  <2>3. QED
    BY <1>6, <2>1, <2>2
<1>7. QED
  BY <1>5, <1>6

LEMMA OrderedConcat ==
    ASSUME NEW p \in Seq(Steps), NEW q \in Seq(Steps), NEW D,
           Ordered(p, D), Ordered(q, D \cup Has(p))
    PROVE  Ordered(p \o q, D)
<1>1. /\ Len(p) \in Nat /\ Len(q) \in Nat /\ Len(p \o q) = Len(p) + Len(q)
      /\ \A i \in 1..(Len(p) + Len(q)) :
             (p \o q)[i] = IF i <= Len(p) THEN p[i] ELSE q[i - Len(p)]
  BY ConcatProperties, LenProperties
<1> SUFFICES ASSUME NEW k \in 1..(Len(p) + Len(q)), NEW r \in Steps, Precedes(r, (p \o q)[k])
             PROVE  r \in D \/ \E j \in 1..(k - 1) : (p \o q)[j] = r
  BY <1>1 DEF Ordered
<1>2. CASE k <= Len(p)
  <2>1. (p \o q)[k] = p[k] /\ k \in 1..Len(p)
    BY <1>1, <1>2
  <2>2. r \in D \/ \E j \in 1..(k - 1) : p[j] = r
    BY <2>1 DEF Ordered
  <2>3. \A j \in 1..(k - 1) : (p \o q)[j] = p[j]
    BY <1>1, <1>2
  <2>4. QED
    BY <2>2, <2>3
<1>3. CASE k > Len(p)
  <2>1. (p \o q)[k] = q[k - Len(p)] /\ k - Len(p) \in 1..Len(q)
    BY <1>1, <1>3
  <2>2. \/ r \in D
        \/ \E i \in 1..Len(p) : p[i] = r
        \/ \E j \in 1..(k - Len(p) - 1) : q[j] = r
    BY <2>1 DEF Ordered, Has
  <2>3. \A i \in 1..Len(p) : i \in 1..(k - 1) /\ (p \o q)[i] = p[i]
    BY <1>1, <1>3
  <2>4. \A j \in 1..(k - Len(p) - 1) : j + Len(p) \in 1..(k - 1) /\ (p \o q)[j + Len(p)] = q[j]
    BY <1>1, <1>3
  <2>5. QED
    BY <2>2, <2>3, <2>4
<1>4. QED
  BY <1>1, <1>2, <1>3

\* What is left of a plan is in order once the effect of its first step is there.
LEMMA OrderedTail ==
    ASSUME NEW q \in Seq(Steps), q # <<>>, NEW D, NEW E, Ordered(q, D), D \cap Steps \subseteq E,
           Head(q).step \in {"start", "grab", "open", "join", "release"} => Head(q) \in E
    PROVE  Ordered(Tail(q), E)
<1>1. /\ Head(q) = q[1] /\ Len(q) \in Nat /\ Len(Tail(q)) = Len(q) - 1
      /\ \A i \in 1..Len(Tail(q)) : Tail(q)[i] = q[i + 1]
  BY HeadTailProperties, LenProperties
<1> SUFFICES ASSUME NEW k \in 1..(Len(q) - 1), NEW r \in Steps, Precedes(r, q[k + 1])
             PROVE  r \in E \/ \E j \in 1..(k - 1) : Tail(q)[j] = r
  BY <1>1 DEF Ordered
<1>2. r.step \in {"start", "grab", "open", "join", "release"}
  BY DoFields DEF Precedes
<1>3. k + 1 \in 1..Len(q)
  BY <1>1
<1>4. r \in D \/ \E j \in 1..k : q[j] = r
  BY <1>3 DEF Ordered
<1>5. ASSUME NEW j \in 1..k, q[j] = r
      PROVE  r \in E \/ \E i \in 1..(k - 1) : Tail(q)[i] = r
  <2>1. CASE j = 1
    BY <1>1, <1>2, <1>5, <2>1
  <2>2. CASE j # 1
    <3>1. j - 1 \in 1..(k - 1) /\ j - 1 \in 1..Len(Tail(q)) /\ (j - 1) + 1 = j
      BY <1>1, <2>2
    <3>2. Tail(q)[j - 1] = r
      BY <1>1, <1>5, <3>1
    <3>3. QED
      BY <3>1, <3>2
  <2>3. QED
    BY <2>1, <2>2
<1>6. QED
  BY <1>4, <1>5
-----------------------------------------------------------------------------
(* The stop of an object is in order.                                       *)

LEMMA FunctionIsSeq ==
    ASSUME NEW S, NEW n \in Nat, NEW f \in [1..n -> S]
    PROVE  f \in Seq(S) /\ Len(f) = n
OBVIOUS

LEMMA EachIs ==
    ASSUME NEW o \in Objects, NEW s, \A i \in 1..Count(o) : Do(s, <<o, i>>) \in Steps
    PROVE  /\ Each(s, o) \in Seq(Steps) /\ Len(Each(s, o)) = Count(o)
           /\ \A i \in 1..Count(o) : Each(s, o)[i] = Do(s, <<o, i>>)
           /\ Has(Each(s, o)) = {Do(s, <<o, i>>) : i \in 1..Count(o)}
<1>1. Count(o) \in Nat
  BY Counts
<1>2. /\ Each(s, o) \in Seq(Steps) /\ Len(Each(s, o)) = Count(o)
      /\ \A i \in 1..Count(o) : Each(s, o)[i] = Do(s, <<o, i>>)
  <2>1. Each(s, o) \in [1..Count(o) -> Steps]
    BY DEF Each
  <2>2. Each(s, o) \in Seq(Steps) /\ Len(Each(s, o)) = Count(o)
    BY <1>1, <2>1, FunctionIsSeq
  <2>3. \A i \in 1..Count(o) : Each(s, o)[i] = Do(s, <<o, i>>)
    BY DEF Each
  <2>4. QED
    BY <2>2, <2>3
<1>3. QED
  BY <1>2 DEF Has

\* A step for each part of an object may be added when what precedes it is there.
LEMMA AddEach ==
    ASSUME NEW q \in Seq(Steps), NEW D, Ordered(q, D), NEW o \in Objects, NEW s,
           \A i \in 1..Count(o) :
               /\ Do(s, <<o, i>>) \in Steps
               /\ \A r \in Steps : Precedes(r, Do(s, <<o, i>>)) => r \in D \cup Has(q)
    PROVE  /\ q \o Each(s, o) \in Seq(Steps) /\ Ordered(q \o Each(s, o), D)
           /\ Has(q \o Each(s, o)) = Has(q) \cup Has(Each(s, o))
<1>1. /\ Each(s, o) \in Seq(Steps) /\ Len(Each(s, o)) = Count(o)
      /\ \A i \in 1..Count(o) : Each(s, o)[i] = Do(s, <<o, i>>)
  BY EachIs
<1>2. Ordered(Each(s, o), D \cup Has(q))
  BY <1>1 DEF Ordered
<1>3. QED
  BY <1>1, <1>2, OrderedConcat, HasConcat, ConcatProperties

\* The steps that stop object o, and the objects that have to be stopped before it.
Stopped(o) == {r \in Steps : r.step \in {"join", "release"} /\ r.part[1] = o}
Before(o) == CASE o = "manager" -> {"scheduler", "preview"}
               [] o \in {"metadata", "encoder"} -> {"isp"}
               [] o = "output" -> {"encoder"}
               [] OTHER -> {}

LEMMA BeforeIs ==
    /\ Before("preview") = {} /\ Before("scheduler") = {} /\ Before("isp") = {}
    /\ Before("encoder") = {"isp"} /\ Before("metadata") = {"isp"}
    /\ Before("output") = {"encoder"} /\ Before("manager") = {"scheduler", "preview"}
BY DEF Before

LEMMA StoppedIs ==
    ASSUME NEW o \in Objects, NEW i \in 1..Count(o)
    PROVE  Do("join", <<o, i>>) \in Stopped(o) /\ Do("release", <<o, i>>) \in Stopped(o)
<1>1. /\ Do("join", <<o, i>>) \in Steps /\ Do("release", <<o, i>>) \in Steps
  BY PartOf, StopSteps
<1>2. <<o, i>>[1] = o
  OBVIOUS
<1>3. QED
  BY <1>1, <1>2, DoFields DEF Stopped

\* The steps of a stop have what precedes them in the stops before, or are preceded
\* by steps of this stop.
LEMMA PrecedesStop ==
    ASSUME NEW o \in Objects, NEW i \in 1..Count(o), NEW D,
           \A x \in Before(o) \ {"preview"} : Stopped(x) \subseteq D,
           NEW r \in Steps
    PROVE  /\ Precedes(r, Do("tell", <<o, i>>)) => r \in D
           /\ ~Precedes(r, Do("join", <<o, i>>))
           /\ Precedes(r, Do("release", <<o, i>>)) => r \in D \/ r = Do("join", <<o, i>>)
           /\ Precedes(r, Do("destroy", <<o, i>>)) =>
                  r \in D \/ r \in Stopped(o) \/ (o = "manager" /\ r \in Stopped("preview"))
<1>1. /\ <<o, i>>[1] = o
      /\ Isp[1] = "isp" /\ Scheduler[1] = "scheduler" /\ Preview[1] = "preview"
      /\ \A s \in 1..StreamCount : Encoder(s)[1] = "encoder" /\ Output(s)[1] = "output"
  BY DEF Isp, Scheduler, Preview, Encoder, Output
<1>2. /\ r = Do(r.step, r.part)
      /\ r.step \in {"join", "release"} => r \in Stopped(r.part[1])
  BY StepIs DEF Stopped
<1>3. /\ o = "manager" => {"scheduler", "preview"} = Before(o)
      /\ o \in {"metadata", "encoder"} => {"isp"} = Before(o)
      /\ o = "output" => {"encoder"} = Before(o)
  BY DEF Before
<1>4. Precedes(r, Do("tell", <<o, i>>)) => r \in D
  BY <1>1, <1>2, <1>3, DoFields DEF Precedes
<1>5. ~Precedes(r, Do("join", <<o, i>>))
  BY DoFields DEF Precedes
<1>6. Precedes(r, Do("release", <<o, i>>)) => r \in D \/ r = Do("join", <<o, i>>)
  BY <1>1, <1>2, <1>3, DoFields DEF Precedes
<1>7. Precedes(r, Do("destroy", <<o, i>>)) =>
                  r \in D \/ r \in Stopped(o) \/ (o = "manager" /\ r \in Stopped("preview"))
  BY <1>1, <1>2, <1>3, DoFields DEF Precedes
<1>8. QED
  BY <1>4, <1>5, <1>6, <1>7

LEMMA StoppedParts ==
    ASSUME NEW o \in Objects, NEW r \in Stopped(o)
    PROVE  \E i \in 1..Count(o) : r \in {Do("join", <<o, i>>), Do("release", <<o, i>>)}
<1>1. r \in Steps /\ r.part[1] = o /\ r.step \in {"join", "release"}
  BY DEF Stopped
<1>2. r = Do(r.step, r.part) /\ r.part \in Parts
  BY <1>1, StepIs
<1>3. r.part[2] \in 1..Count(o) /\ r.part = <<o, r.part[2]>>
  BY <1>1, <1>2, PartFields
<1>4. QED
  BY <1>1, <1>2, <1>3

\* The stop of an object is in order after those before it, and stops all its parts.
LEMMA StopOrdered ==
    ASSUME NEW o \in Objects, NEW D, \A x \in Before(o) \ {"preview"} : Stopped(x) \subseteq D
    PROVE  /\ StopOf(o) \in Seq(Steps) /\ Ordered(StopOf(o), D)
           /\ Stopped(o) \subseteq Has(StopOf(o))
<1> DEFINE Step(s, i) == Do(s, <<o, i>>)
<1>1. \A i \in 1..Count(o) : \A s \in {"tell", "join", "release", "destroy"} : Step(s, i) \in Steps
  BY PartOf, StopSteps
<1>2. \A i \in 1..Count(o) : \A r \in Steps :
         /\ Precedes(r, Step("tell", i)) => r \in D
         /\ ~Precedes(r, Step("join", i))
         /\ Precedes(r, Step("release", i)) => r \in D \/ r = Step("join", i)
  BY PrecedesStop
<1>3. (\A i \in 1..Count(o) : Step("join", i) \in Has(StopOf(o)) /\ Step("release", i) \in Has(StopOf(o)))
      => Stopped(o) \subseteq Has(StopOf(o))
  <2> SUFFICES ASSUME \A i \in 1..Count(o) : /\ Step("join", i) \in Has(StopOf(o))
                                              /\ Step("release", i) \in Has(StopOf(o)),
                      NEW r \in Stopped(o)
               PROVE  r \in Has(StopOf(o))
    OBVIOUS
  <2>1. PICK i \in 1..Count(o) : r \in {Step("join", i), Step("release", i)}
    BY StoppedParts
  <2>2. QED
    BY <2>1
<1>4. CASE o = "manager"
  <2> DEFINE T == Each("tell", o)
             J == T \o Each("join", o)
             R == J \o Each("release", o)
  <2>1. StopOf(o) = R
    BY <1>4 DEF StopOf
  <2>2. T \in Seq(Steps) /\ Ordered(T, D)
    <3>1. /\ T \in Seq(Steps) /\ Len(T) = Count(o)
          /\ \A i \in 1..Count(o) : T[i] = Step("tell", i)
      BY <1>1, EachIs
    <3> HIDE DEF T, Step
    <3>2. QED
      BY <1>2, <3>1 DEF Ordered
  <2>3. /\ J \in Seq(Steps) /\ Ordered(J, D)
        /\ Has(J) = Has(T) \cup Has(Each("join", o))
    <3> HIDE DEF T
    <3>1. QED
      <4>1. \A i \in 1..Count(o) :
               /\ Do("join", <<o, i>>) \in Steps
               /\ \A r \in Steps : Precedes(r, Do("join", <<o, i>>)) => r \in D \cup Has(T)
        BY <1>1, <1>2
      <4>2. QED
        BY <2>2, <4>1, AddEach
  <2>4. /\ R \in Seq(Steps) /\ Ordered(R, D)
        /\ Has(R) = Has(J) \cup Has(Each("release", o))
    <3> HIDE DEF J
    <3>1. QED
      <4>1. \A i \in 1..Count(o) :
               /\ Do("release", <<o, i>>) \in Steps
               /\ \A r \in Steps : Precedes(r, Do("release", <<o, i>>)) => r \in D \cup Has(J)
        <5>1. \A i \in 1..Count(o) : Do("join", <<o, i>>) \in Has(Each("join", o))
          BY <1>1, EachIs
        <5>2. QED
          BY <1>1, <1>2, <2>3, <5>1
      <4>2. QED
        BY <2>3, <4>1, AddEach
  <2>5. \A i \in 1..Count(o) : Step("join", i) \in Has(R) /\ Step("release", i) \in Has(R)
    <3>1. /\ Has(Each("join", o)) = {Step("join", i) : i \in 1..Count(o)}
          /\ Has(Each("release", o)) = {Step("release", i) : i \in 1..Count(o)}
      BY <1>1, EachIs
    <3> HIDE DEF T, J, R, Step
    <3>2. QED
      BY <2>3, <2>4, <3>1
  <2> HIDE DEF R, Step
  <2>6. QED
    BY <1>3, <2>1, <2>4, <2>5
<1>5. CASE o # "manager"
  <2> DEFINE n == Count(o)
             word == <<"tell", "join", "release">>
             q == [k \in 1..(3 * n) |-> Step(word[((k - 1) % 3) + 1], ((k - 1) \div 3) + 1)]
  <2>1. StopOf(o) = q
    BY <1>5 DEF StopOf
  <2>2. n \in Nat \ {0}
    BY Counts
  <2>3. \A k \in 1..(3 * n) : /\ ((k - 1) % 3) + 1 \in 1..3
                              /\ ((k - 1) \div 3) + 1 \in 1..n
                              /\ k = 3 * ((k - 1) \div 3) + ((k - 1) % 3) + 1
    <3> HIDE DEF n
    <3>1. QED
      BY <2>2
  <2>4. /\ word[1] = "tell" /\ word[2] = "join" /\ word[3] = "release"
        /\ \A x \in 1..3 : word[x] \in {"tell", "join", "release"}
    OBVIOUS
  <2>5. \A k \in 1..(3 * n) : q[k] \in Steps
    BY <1>1, <2>3, <2>4
  <2>6. q \in Seq(Steps) /\ Len(q) = 3 * n
    <3>1. q \in [1..(3 * n) -> Steps] /\ 3 * n \in Nat
      <4>1. q \in [1..(3 * n) -> Steps]
        <5>1. q = [k \in 1..(3 * n) |-> q[k]]
          OBVIOUS
        <5> HIDE DEF q
        <5>2. QED
          BY <2>5, <5>1
      <4> HIDE DEF q, n
      <4>2. QED
        BY <2>2, <4>1
    <3> HIDE DEF q, n
    <3>2. QED
      BY <3>1, FunctionIsSeq
  <2>7. \A i \in 1..n : /\ 3 * i - 2 \in 1..(3 * n) /\ q[3 * i - 2] = Step("tell", i)
                        /\ 3 * i - 1 \in 1..(3 * n) /\ q[3 * i - 1] = Step("join", i)
                        /\ 3 * i \in 1..(3 * n) /\ q[3 * i] = Step("release", i)
    <3> SUFFICES ASSUME NEW i \in 1..n
                 PROVE  /\ 3 * i - 2 \in 1..(3 * n) /\ q[3 * i - 2] = Step("tell", i)
                        /\ 3 * i - 1 \in 1..(3 * n) /\ q[3 * i - 1] = Step("join", i)
                        /\ 3 * i \in 1..(3 * n) /\ q[3 * i] = Step("release", i)
      OBVIOUS
    <3>1. /\ 3 * i - 2 \in 1..(3 * n) /\ 3 * i - 1 \in 1..(3 * n) /\ 3 * i \in 1..(3 * n)
          /\ ((3 * i - 2) - 1) % 3 = 0 /\ ((3 * i - 2) - 1) \div 3 = i - 1
          /\ ((3 * i - 1) - 1) % 3 = 1 /\ ((3 * i - 1) - 1) \div 3 = i - 1
          /\ (3 * i - 1) % 3 = 2 /\ (3 * i - 1) \div 3 = i - 1
      <4> HIDE DEF n
      <4>1. QED
        BY <2>2
    <3>2. (i - 1) + 1 = i
      OBVIOUS
    <3>3. QED
      BY <2>4, <3>1, <3>2
  <2>8. \A k \in 1..(3 * n) : \E i \in 1..n :
           \/ q[k] = Step("tell", i) \/ q[k] = Step("join", i)
           \/ k = 3 * i /\ q[k] = Step("release", i)
    <3> SUFFICES ASSUME NEW k \in 1..(3 * n)
                 PROVE  \E i \in 1..n : \/ q[k] = Step("tell", i) \/ q[k] = Step("join", i)
                                        \/ k = 3 * i /\ q[k] = Step("release", i)
      OBVIOUS
    <3>1. PICK i \in 1..n : k \in {3 * i - 2, 3 * i - 1, 3 * i}
      <4> HIDE DEF n
      <4>1. ((k - 1) \div 3) + 1 \in 1..n /\ k \in {3 * (((k - 1) \div 3) + 1) - 2,
                  3 * (((k - 1) \div 3) + 1) - 1, 3 * (((k - 1) \div 3) + 1)}
        BY <2>2, <2>3
      <4>2. QED
        BY <4>1
    <3> HIDE DEF q, n, Step
    <3>2. QED
      BY <2>7, <3>1
  <2>9. Ordered(q, D)
    <3> HIDE DEF q, Step, n
    <3> SUFFICES ASSUME NEW k \in 1..(3 * n), NEW r \in Steps, Precedes(r, q[k])
                 PROVE  r \in D \/ \E j \in 1..(k - 1) : q[j] = r
      BY <2>6 DEF Ordered
    <3>1. PICK i \in 1..n : \/ q[k] = Step("tell", i) \/ q[k] = Step("join", i)
                            \/ k = 3 * i /\ q[k] = Step("release", i)
      BY <2>8
    <3>2. CASE q[k] = Step("tell", i) \/ q[k] = Step("join", i)
      BY <1>2, <3>2 DEF n
    <3>3. CASE k = 3 * i /\ q[k] = Step("release", i)
      <4>1. r \in D \/ r = Step("join", i)
        BY <1>2, <3>3 DEF n
      <4>2. q[3 * i - 1] = Step("join", i) /\ 3 * i - 1 \in 1..(k - 1)
        BY <2>2, <2>7, <3>3
      <4>3. QED
        BY <4>1, <4>2
    <3>4. QED
      BY <3>1, <3>2, <3>3
  <2>10. \A i \in 1..n : Step("join", i) \in Has(q) /\ Step("release", i) \in Has(q)
    <3> HIDE DEF q, Step, n
    <3>1. QED
      BY <2>6, <2>7 DEF Has
  <2> HIDE DEF q, Step
  <2>11. QED
    BY <1>3, <2>1, <2>6, <2>9, <2>10
<1>6. QED
  BY <1>4, <1>5

\* So is its destruction.
LEMMA DestroyOrdered ==
    ASSUME NEW o \in Objects, NEW D, \A x \in Before(o) : Stopped(x) \subseteq D
    PROVE  /\ DestroyOf(o) \in Seq(Steps) /\ Ordered(DestroyOf(o), D)
           /\ Stopped(o) \subseteq Has(DestroyOf(o))
<1> DEFINE d == Do("destroy", <<o, 1>>)
           q == StopOf(o)
<1>1. q \in Seq(Steps) /\ Ordered(q, D) /\ Stopped(o) \subseteq Has(q)
  BY StopOrdered
<1>2. 1 \in 1..Count(o)
  BY Counts
<1>3. d \in Steps
  BY <1>2, PartOf, StopSteps
<1>4. \A r \in Steps : Precedes(r, d) => r \in D \cup Has(q)
  BY <1>1, <1>2, PrecedesStop, BeforeIs
<1> HIDE DEF d, q
<1>5. Ordered(<<d>>, D \cup Has(q))
  BY <1>4 DEF Ordered
<1>6. <<d>> \in Seq(Steps) /\ DestroyOf(o) = q \o <<d>>
  BY <1>1, <1>3 DEF DestroyOf, d, q
<1>7. Ordered(q \o <<d>>, D)
  BY <1>1, <1>5, <1>6, OrderedConcat
<1>8. q \o <<d>> \in Seq(Steps) /\ Has(q \o <<d>>) = Has(q) \cup Has(<<d>>)
  BY <1>1, <1>6, HasConcat, ConcatProperties
<1>9. QED
  BY <1>1, <1>6, <1>7, <1>8

\* The stops of several objects, one after the other: those of S are stopped.
Stopping(q, D, S) ==
    q \in Seq(Steps) /\ Ordered(q, D) /\ \A x \in S : Stopped(x) \subseteq D \cup Has(q)

\* The stop of object o, or nothing if it has been stopped.
IsStop(b, o, D) ==
    b = StopOf(o) \/ b = DestroyOf(o) \/ (b = <<>> /\ Stopped(o) \subseteq D)

LEMMA AddStop ==
    ASSUME NEW q, NEW D, NEW S, Stopping(q, D, S),
           NEW o \in Objects, Before(o) \subseteq S, NEW b, IsStop(b, o, D)
    PROVE  Stopping(q \o b, D, S \cup {o})
<1>1. \A x \in Before(o) : Stopped(x) \subseteq D \cup Has(q)
  BY DEF Stopping
<1>2. CASE b = <<>> /\ Stopped(o) \subseteq D
  <2>1. q \o b = q
    BY <1>2, ConcatEmptySeq DEF Stopping
  <2>2. QED
    BY <1>2, <2>1 DEF Stopping
<1>3. CASE b \in {StopOf(o), DestroyOf(o)}
  <2>1. b \in Seq(Steps) /\ Ordered(b, D \cup Has(q)) /\ Stopped(o) \subseteq Has(b)
    BY <1>1, <1>3, StopOrdered, DestroyOrdered
  <2>2. Ordered(q \o b, D)
    BY <2>1, OrderedConcat DEF Stopping
  <2>3. q \o b \in Seq(Steps) /\ Has(q \o b) = Has(q) \cup Has(b)
    BY <2>1, HasConcat, ConcatProperties DEF Stopping
  <2>4. \A x \in S \cup {o} : Stopped(x) \subseteq D \cup Has(q \o b)
    BY <2>1, <2>3 DEF Stopping
  <2>5. QED
    BY <2>2, <2>3, <2>4 DEF Stopping
<1>4. QED
  BY <1>2, <1>3 DEF IsStop

LEMMA FirstStop ==
    ASSUME NEW D, NEW o \in Objects, \A x \in Before(o) : Stopped(x) \subseteq D,
           NEW b, IsStop(b, o, D)
    PROVE  Stopping(b, D, {o})
<1>1. CASE b = <<>> /\ Stopped(o) \subseteq D
  <2>1. b \in Seq(Steps) /\ Ordered(b, D)
    BY <1>1 DEF Ordered
  <2>2. QED
    BY <1>1, <2>1 DEF Stopping
<1>2. CASE b \in {StopOf(o), DestroyOf(o)}
  BY <1>2, StopOrdered, DestroyOrdered DEF Stopping
<1>3. QED
  BY <1>1, <1>2 DEF IsStop

\* Seven stops, each after those that have to come before.
LEMMA SevenStops ==
    ASSUME NEW D,
           NEW o1 \in Objects, NEW o2 \in Objects, NEW o3 \in Objects, NEW o4 \in Objects,
           NEW o5 \in Objects, NEW o6 \in Objects, NEW o7 \in Objects,
           Before(o1) = {}, Before(o2) \subseteq {o1}, Before(o3) \subseteq {o1, o2},
           Before(o4) \subseteq {o1, o2, o3}, Before(o5) \subseteq {o1, o2, o3, o4},
           Before(o6) \subseteq {o1, o2, o3, o4, o5},
           Before(o7) \subseteq {o1, o2, o3, o4, o5, o6},
           NEW b1, NEW b2, NEW b3, NEW b4, NEW b5, NEW b6, NEW b7,
           IsStop(b1, o1, D), IsStop(b2, o2, D), IsStop(b3, o3, D), IsStop(b4, o4, D),
           IsStop(b5, o5, D), IsStop(b6, o6, D), IsStop(b7, o7, D)
    PROVE  /\ b1 \o b2 \o b3 \o b4 \o b5 \o b6 \o b7 \in Seq(Steps)
           /\ Ordered(b1 \o b2 \o b3 \o b4 \o b5 \o b6 \o b7, D)
<1> DEFINE q2 == b1 \o b2
           q3 == q2 \o b3
           q4 == q3 \o b4
           q5 == q4 \o b5
           q6 == q5 \o b6
           q7 == q6 \o b7
<1>1. Stopping(b1, D, {o1})
  BY FirstStop
<1>2. Stopping(q2, D, {o1} \cup {o2})
  BY <1>1, AddStop
<1> HIDE DEF q2
<1>3. Stopping(q3, D, {o1, o2} \cup {o3})
  <2>1. {o1} \cup {o2} = {o1, o2}
    OBVIOUS
  <2>2. QED
    BY <1>2, <2>1, AddStop
<1> HIDE DEF q3
<1>4. Stopping(q4, D, {o1, o2, o3} \cup {o4})
  <2>1. {o1, o2} \cup {o3} = {o1, o2, o3}
    OBVIOUS
  <2>2. QED
    BY <1>3, <2>1, AddStop
<1> HIDE DEF q4
<1>5. Stopping(q5, D, {o1, o2, o3, o4} \cup {o5})
  <2>1. {o1, o2, o3} \cup {o4} = {o1, o2, o3, o4}
    OBVIOUS
  <2>2. QED
    BY <1>4, <2>1, AddStop
<1> HIDE DEF q5
<1>6. Stopping(q6, D, {o1, o2, o3, o4, o5} \cup {o6})
  <2>1. {o1, o2, o3, o4} \cup {o5} = {o1, o2, o3, o4, o5}
    OBVIOUS
  <2>2. QED
    BY <1>5, <2>1, AddStop
<1> HIDE DEF q6
<1>7. Stopping(q7, D, {o1, o2, o3, o4, o5, o6} \cup {o7})
  <2>1. {o1, o2, o3, o4, o5} \cup {o6} = {o1, o2, o3, o4, o5, o6}
    OBVIOUS
  <2>2. QED
    BY <1>6, <2>1, AddStop
<1> HIDE DEF q7
<1>8. q7 \in Seq(Steps) /\ Ordered(q7, D)
  BY <1>7 DEF Stopping
<1>9. QED
  BY <1>8 DEF q7, q6, q5, q4, q3, q2

\* The stops after the loop are in order, whatever has been done.
LEMMA ShutdownOrdered ==
    ASSUME NEW D
    PROVE  Shutdown \in Seq(Steps) /\ Ordered(Shutdown, D)
<1>1. \A o : IsStop(StopOf(o), o, D)
  BY DEF IsStop
<1>2. {"preview", "scheduler", "isp", "encoder", "output", "metadata", "manager"} \subseteq Objects
  BY DEF Objects, Stages
<1>3. Shutdown = StopOf("preview") \o StopOf("scheduler") \o StopOf("isp") \o StopOf("encoder")
                 \o StopOf("output") \o StopOf("metadata") \o StopOf("manager")
  BY DEF Shutdown, ShutdownOrder
<1> DEFINE q == StopOf("preview") \o StopOf("scheduler") \o StopOf("isp") \o StopOf("encoder")
                \o StopOf("output") \o StopOf("metadata") \o StopOf("manager")
<1>4. q \in Seq(Steps) /\ Ordered(q, D)
  <2>1. /\ Before("preview") = {}
        /\ Before("scheduler") \subseteq {"preview"}
        /\ Before("isp") \subseteq {"preview", "scheduler"}
        /\ Before("encoder") \subseteq {"preview", "scheduler", "isp"}
        /\ Before("output") \subseteq {"preview", "scheduler", "isp", "encoder"}
        /\ Before("metadata") \subseteq {"preview", "scheduler", "isp", "encoder", "output"}
        /\ Before("manager") \subseteq {"preview", "scheduler", "isp", "encoder", "output", "metadata"}
    BY BeforeIs
  <2>2. /\ "preview" \in Objects /\ IsStop(StopOf("preview"), "preview", D)
        /\ "scheduler" \in Objects /\ IsStop(StopOf("scheduler"), "scheduler", D)
        /\ "isp" \in Objects /\ IsStop(StopOf("isp"), "isp", D)
        /\ "encoder" \in Objects /\ IsStop(StopOf("encoder"), "encoder", D)
        /\ "output" \in Objects /\ IsStop(StopOf("output"), "output", D)
        /\ "metadata" \in Objects /\ IsStop(StopOf("metadata"), "metadata", D)
        /\ "manager" \in Objects /\ IsStop(StopOf("manager"), "manager", D)
    BY <1>1, <1>2
  <2>3. QED
    BY <2>1, <2>2, SevenStops, ZenonT(60)
<1>5. QED
  BY <1>3, <1>4

\* So are the destructors of the objects of O, when the others have been stopped.
LEMMA UnwindOrdered ==
    ASSUME NEW D, NEW O, \A o \in Objects \ O : Stopped(o) \subseteq D
    PROVE  Unwind(O) \in Seq(Steps) /\ Ordered(Unwind(O), D)
<1> DEFINE Leave(o) == IF o \in O THEN DestroyOf(o) ELSE <<>>
<1>1. \A o \in Objects : IsStop(Leave(o), o, D)
  BY DEF IsStop
<1>2. {"preview", "scheduler", "manager", "isp", "metadata", "encoder", "output"} \subseteq Objects
  BY DEF Objects, Stages
<1>3. Unwind(O) = Leave("preview") \o Leave("scheduler") \o Leave("manager") \o Leave("isp")
                  \o Leave("metadata") \o Leave("encoder") \o Leave("output")
  BY DEF Unwind, DestructionOrder
<1> HIDE DEF Leave
<1> DEFINE q == Leave("preview") \o Leave("scheduler") \o Leave("manager") \o Leave("isp")
                \o Leave("metadata") \o Leave("encoder") \o Leave("output")
<1>4. q \in Seq(Steps) /\ Ordered(q, D)
  <2>1. /\ Before("preview") = {}
        /\ Before("scheduler") \subseteq {"preview"}
        /\ Before("manager") \subseteq {"preview", "scheduler"}
        /\ Before("isp") \subseteq {"preview", "scheduler", "manager"}
        /\ Before("metadata") \subseteq {"preview", "scheduler", "manager", "isp"}
        /\ Before("encoder") \subseteq {"preview", "scheduler", "manager", "isp", "metadata"}
        /\ Before("output") \subseteq {"preview", "scheduler", "manager", "isp", "metadata", "encoder"}
    BY BeforeIs
  <2>2. /\ "preview" \in Objects /\ IsStop(Leave("preview"), "preview", D)
        /\ "scheduler" \in Objects /\ IsStop(Leave("scheduler"), "scheduler", D)
        /\ "manager" \in Objects /\ IsStop(Leave("manager"), "manager", D)
        /\ "isp" \in Objects /\ IsStop(Leave("isp"), "isp", D)
        /\ "metadata" \in Objects /\ IsStop(Leave("metadata"), "metadata", D)
        /\ "encoder" \in Objects /\ IsStop(Leave("encoder"), "encoder", D)
        /\ "output" \in Objects /\ IsStop(Leave("output"), "output", D)
    BY <1>1, <1>2
  <2>3. QED
    BY <2>1, <2>2, SevenStops, ZenonT(60)
<1>5. QED
  BY <1>3, <1>4

LEMMA AfterLoopOrdered ==
    ASSUME NEW D
    PROVE  AfterLoop \in Seq(Steps) /\ Ordered(AfterLoop, D)
<1>1. Shutdown \in Seq(Steps) /\ Ordered(Shutdown, D)
  BY ShutdownOrdered
<1>2. Unwind(Objects) \in Seq(Steps) /\ Ordered(Unwind(Objects), D \cup Has(Shutdown))
  BY UnwindOrdered
<1>3. QED
  BY <1>1, <1>2, OrderedConcat, ConcatProperties DEF AfterLoop
-----------------------------------------------------------------------------
(* The start-up is in order.                                                *)

\* No step of a plan comes twice.
Distinct(q) == \A k \in 1..Len(q) : \A j \in 1..(k - 1) : q[j] # q[k]

LEMMA DistinctConcat ==
    ASSUME NEW p \in Seq(Steps), NEW q \in Seq(Steps), Distinct(p), Distinct(q),
           Has(p) \cap Has(q) = {}
    PROVE  Distinct(p \o q)
<1>1. /\ Len(p) \in Nat /\ Len(q) \in Nat /\ Len(p \o q) = Len(p) + Len(q)
      /\ \A i \in 1..(Len(p) + Len(q)) :
             (p \o q)[i] = IF i <= Len(p) THEN p[i] ELSE q[i - Len(p)]
  BY ConcatProperties, LenProperties
<1> SUFFICES ASSUME NEW k \in 1..(Len(p) + Len(q)), NEW j \in 1..(k - 1)
             PROVE  (p \o q)[j] # (p \o q)[k]
  BY <1>1 DEF Distinct
<1>2. \A i \in 1..(Len(p) + Len(q)) :
         \/ i <= Len(p) /\ i \in 1..Len(p) /\ (p \o q)[i] = p[i] /\ p[i] \in Has(p)
         \/ i > Len(p) /\ i - Len(p) \in 1..Len(q) /\ (p \o q)[i] = q[i - Len(p)]
            /\ q[i - Len(p)] \in Has(q)
  BY <1>1 DEF Has
<1>3. j \in 1..(Len(p) + Len(q)) /\ j < k
  BY <1>1
<1>4. CASE k <= Len(p)
  <2>1. /\ k \in 1..Len(p) /\ j \in 1..Len(p) /\ j \in 1..(k - 1)
        /\ (p \o q)[j] = p[j] /\ (p \o q)[k] = p[k]
    BY <1>1, <1>3, <1>4
  <2>2. QED
    BY <2>1 DEF Distinct
<1>5. CASE k > Len(p) /\ j <= Len(p)
  BY <1>2, <1>3, <1>5
<1>6. CASE k > Len(p) /\ j > Len(p)
  <2>1. /\ k - Len(p) \in 1..Len(q) /\ j - Len(p) \in 1..((k - Len(p)) - 1)
        /\ (p \o q)[j] = q[j - Len(p)] /\ (p \o q)[k] = q[k - Len(p)]
    BY <1>1, <1>3, <1>6
  <2>2. QED
    BY <2>1 DEF Distinct
<1>7. QED
  BY <1>1, <1>3, <1>4, <1>5, <1>6

\* What has to have been done, to which object, before a step of the start-up.
Needs(s, o) ==
    CASE s = "start" /\ o = "encoder" -> {<<"start", "output">>}
      [] s = "start" /\ o = "isp" -> {<<"start", "metadata">>, <<"start", "encoder">>}
      [] s = "start" /\ o = "scheduler" -> {<<"grab", "manager">>}
      [] s = "thread" /\ o = "manager" -> {<<"grab", "manager">>}
      [] s = "thread" /\ o = "preview" -> {<<"open", "manager">>}
      [] OTHER -> {}

LEMMA PrecedesStart ==
    ASSUME NEW s \in {"start", "open", "grab", "thread"}, NEW o \in Objects,
           NEW i \in 1..Count(o), Do(s, <<o, i>>) \in Steps,
           NEW r \in Steps, Precedes(r, Do(s, <<o, i>>))
    PROVE  /\ <<r.step, r.part[1]>> \in Needs(s, o)
           /\ r.part[1] \in Objects /\ r.part[2] \in 1..Count(r.part[1])
           /\ r = Do(r.step, <<r.part[1], r.part[2]>>)
<1> DEFINE p == <<o, i>>
<1>1. p \in Parts /\ p[1] = o
  BY PartOf
<1>2. /\ Do(s, p).step = s /\ Do(s, p).part = p
  BY DoFields
<1>3. /\ s \in {"start", "thread"}
      /\ \/ r.step = "start" /\ \E e \in 1..StreamCount : p = Encoder(e) /\ r.part = Output(e)
         \/ r.step = "start" /\ p = Isp /\ r.part \in PartsOf({"metadata", "encoder"})
         \/ r.step = "grab" /\ p \in {r.part, Scheduler}
         \/ r.step = "open" /\ p = Preview
  BY <1>2 DEF Precedes
<1>4. /\ r.part \in Parts
      /\ r = Do(r.step, r.part)
      /\ r.step \in {"grab", "open"} => r.part \in PartsOf({"manager"})
  BY <1>3, StepIs
<1>5. /\ r.part[1] \in Objects /\ r.part[2] \in 1..Count(r.part[1])
      /\ r.part = <<r.part[1], r.part[2]>>
  BY <1>4, PartFields
<1>6. /\ r.step \in {"grab", "open"} => r.part[1] = "manager"
      /\ r.part \in PartsOf({"metadata", "encoder"}) => r.part[1] \in {"metadata", "encoder"}
  <2>1. {"manager"} \in SUBSET Objects /\ {"metadata", "encoder"} \in SUBSET Objects
    BY DEF Objects, Stages
  <2>2. /\ r.part \in PartsOf({"manager"}) <=> r.part[1] \in {"manager"}
        /\ r.part \in PartsOf({"metadata", "encoder"}) <=> r.part[1] \in {"metadata", "encoder"}
    BY <1>4, <2>1, PartsOfIs
  <2>3. QED
    BY <1>4, <2>2
<1>7. s = "thread" => o \in {"manager", "preview"}
  <2>1. s = "thread" => p \in PartsOf({"manager", "preview"})
    BY <1>2, StepIs
  <2>2. {"manager", "preview"} \in SUBSET Objects
    BY DEF Objects
  <2>3. QED
    BY <1>1, <2>1, <2>2, PartsOfIs
<1>8. s = "start" => o \in Stages \cup {"scheduler"}
  <2>1. s = "start" => p \in PartsOf(Stages \cup {"scheduler"})
    BY <1>2, StepIs
  <2>2. Stages \cup {"scheduler"} \in SUBSET Objects
    BY DEF Objects
  <2>3. QED
    BY <1>1, <2>1, <2>2, PartsOfIs
<1>9. <<r.step, r.part[1]>> \in Needs(s, o)
  <2>1. CASE r.step = "start" /\ \E e \in 1..StreamCount : p = Encoder(e) /\ r.part = Output(e)
    <3>1. o = "encoder" /\ r.part[1] = "output"
      BY <1>1, <2>1 DEF Encoder, Output
    <3>2. s = "start"
      BY <1>7, <1>3, <3>1
    <3>3. QED
      BY <2>1, <3>1, <3>2 DEF Needs
  <2>2. CASE r.step = "start" /\ p = Isp /\ r.part \in PartsOf({"metadata", "encoder"})
    <3>1. o = "isp" /\ r.part[1] \in {"metadata", "encoder"}
      BY <1>1, <1>6, <2>2 DEF Isp
    <3>2. s = "start"
      BY <1>7, <1>3, <3>1
    <3>3. QED
      BY <2>2, <3>1, <3>2 DEF Needs
  <2>3. CASE r.step = "grab" /\ p \in {r.part, Scheduler}
    <3>1. o \in {"manager", "scheduler"} /\ r.part[1] = "manager"
      BY <1>1, <1>6, <2>3 DEF Scheduler
    <3>2. (s = "start" /\ o = "scheduler") \/ (s = "thread" /\ o = "manager")
      BY <1>7, <1>3, <1>8, <3>1 DEF Stages
    <3>3. QED
      BY <2>3, <3>1, <3>2 DEF Needs
  <2>4. CASE r.step = "open" /\ p = Preview
    <3>1. o = "preview" /\ r.part[1] = "manager"
      BY <1>1, <1>6, <2>4 DEF Preview
    <3>2. s = "thread"
      BY <1>3, <1>8, <3>1 DEF Stages
    <3>3. QED
      BY <2>4, <3>1, <3>2 DEF Needs
  <2>5. QED
    BY <1>3, <2>1, <2>2, <2>3, <2>4
<1>10. QED
  BY <1>4, <1>5, <1>9

\* A plan that does the steps of B, pairs of a step and an object, in order.
Starts(q, B) ==
    /\ q \in Seq(Steps) /\ Ordered(q, {}) /\ Distinct(q)
    /\ \A r \in Has(q) : <<r.step, r.part[1]>> \in B
    /\ \A b \in B : \A i \in 1..Count(b[2]) : Do(b[1], <<b[2], i>>) \in Has(q)

LEMMA AddStart ==
    ASSUME NEW q, NEW B, Starts(q, B),
           NEW s \in {"start", "open", "grab", "thread"}, NEW o \in Objects,
           \A i \in 1..Count(o) : Do(s, <<o, i>>) \in Steps,
           <<s, o>> \notin B, Needs(s, o) \subseteq B
    PROVE  Starts(q \o Each(s, o), B \cup {<<s, o>>})
<1> DEFINE e == Each(s, o)
<1>1. /\ e \in Seq(Steps) /\ Len(e) = Count(o)
      /\ \A i \in 1..Count(o) : e[i] = Do(s, <<o, i>>)
      /\ Has(e) = {Do(s, <<o, i>>) : i \in 1..Count(o)}
  BY EachIs
<1>2. Ordered(q \o e, {}) /\ q \o e \in Seq(Steps) /\ Has(q \o e) = Has(q) \cup Has(e)
  <2>1. ASSUME NEW i \in 1..Count(o), NEW r \in Steps, Precedes(r, Do(s, <<o, i>>))
        PROVE  r \in Has(q)
    <3> DEFINE b == <<r.step, r.part[1]>>
    <3>1. /\ b \in Needs(s, o) /\ r.part[2] \in 1..Count(r.part[1])
          /\ r = Do(r.step, <<r.part[1], r.part[2]>>)
      BY <2>1, PrecedesStart
    <3>2. b[1] = r.step /\ b[2] = r.part[1] /\ b \in B
      BY <3>1
    <3> HIDE DEF b
    <3>3. Do(b[1], <<b[2], r.part[2]>>) \in Has(q)
      BY <3>1, <3>2 DEF Starts
    <3>4. QED
      BY <3>1, <3>2, <3>3
  <2> HIDE DEF e
  <2>2. q \in Seq(Steps) /\ Ordered(q, {})
    BY DEF Starts
  <2>3. \A i \in 1..Count(o) :
           /\ Do(s, <<o, i>>) \in Steps
           /\ \A r \in Steps : Precedes(r, Do(s, <<o, i>>)) => r \in {} \cup Has(q)
    BY <2>1
  <2>4. QED
    BY <2>2, <2>3, AddEach DEF e
<1>3. \A r \in Has(e) : r.step = s /\ r.part[1] = o
  <2>1. \A i \in 1..Count(o) : Do(s, <<o, i>>).step = s /\ Do(s, <<o, i>>).part[1] = o
    BY DoFields
  <2> HIDE DEF e
  <2>2. QED
    BY <1>1, <2>1, ZenonT(60)
<1>4. Distinct(e)
  <2>1. \A i, j \in 1..Count(o) : Do(s, <<o, i>>) = Do(s, <<o, j>>) => i = j
    BY DoFields
  <2>2. Count(o) \in Nat
    BY Counts
  <2> HIDE DEF e
  <2>3. QED
    <3> SUFFICES ASSUME NEW k \in 1..Count(o), NEW j \in 1..(k - 1) PROVE e[j] # e[k]
      BY <1>1 DEF Distinct
    <3>1. j \in 1..Count(o) /\ j # k
      BY <2>2
    <3>2. QED
      BY <1>1, <2>1, <3>1
<1> HIDE DEF e
<1>5. Has(q) \cap Has(e) = {}
  BY <1>3 DEF Starts
<1>6. Distinct(q \o e)
  BY <1>1, <1>4, <1>5, DistinctConcat DEF Starts
<1>7. \A r \in Has(q \o e) : <<r.step, r.part[1]>> \in B \cup {<<s, o>>}
  BY <1>2, <1>3 DEF Starts
<1>8. \A b \in B \cup {<<s, o>>} : \A i \in 1..Count(b[2]) : Do(b[1], <<b[2], i>>) \in Has(q \o e)
  <2>1. \A b \in B : \A i \in 1..Count(b[2]) : Do(b[1], <<b[2], i>>) \in Has(q \o e)
    BY <1>2 DEF Starts
  <2>2. \A i \in 1..Count(o) : Do(s, <<o, i>>) \in Has(q \o e)
    BY <1>1, <1>2
  <2>3. <<s, o>>[1] = s /\ <<s, o>>[2] = o
    OBVIOUS
  <2>4. QED
    BY <2>1, <2>2, <2>3
<1>9. Starts(q \o e, B \cup {<<s, o>>})
  BY <1>2, <1>6, <1>7, <1>8 DEF Starts
<1>10. QED
  BY <1>9 DEF e

LEMMA StartSteps ==
    /\ \A o \in Stages \cup {"scheduler"} : \A i \in 1..Count(o) : Do("start", <<o, i>>) \in Steps
    /\ \A s \in {"open", "grab", "thread"} : \A i \in 1..Count("manager") :
           Do(s, <<"manager", i>>) \in Steps
    /\ \A i \in 1..Count("preview") : Do("thread", <<"preview", i>>) \in Steps
<1>1. /\ Stages \cup {"scheduler"} \in SUBSET Objects
      /\ {"manager"} \in SUBSET Objects /\ {"manager", "preview"} \in SUBSET Objects
  BY DEF Objects
<1>2. \A O \in SUBSET Objects : \A o \in O : \A i \in 1..Count(o) : <<o, i>> \in PartsOf(O)
  BY PartIs
<1>3. QED
  BY <1>1, <1>2 DEF Steps, Do

LEMMA StartupOrdered ==
    /\ Startup \in Seq(Steps) /\ Ordered(Startup, {}) /\ Distinct(Startup)
    /\ Do("start", Isp) \in Has(Startup)
<1> DEFINE q1 == Each("start", "output")
           q2 == q1 \o Each("start", "encoder")
           q3 == q2 \o Each("start", "metadata")
           q4 == q3 \o Each("start", "isp")
           q5 == q4 \o Each("open", "manager")
           q6 == q5 \o Each("grab", "manager")
           q7 == q6 \o Each("thread", "manager")
           q8 == q7 \o Each("start", "scheduler")
           q9 == q8 \o Each("thread", "preview")
           B1 == {<<"start", "output">>}
           B2 == {<<"start", "output">>, <<"start", "encoder">>}
           B3 == {<<"start", "output">>, <<"start", "encoder">>, <<"start", "metadata">>}
           B4 == {<<"start", "output">>, <<"start", "encoder">>, <<"start", "metadata">>,
                   <<"start", "isp">>}
           B5 == {<<"start", "output">>, <<"start", "encoder">>, <<"start", "metadata">>,
                   <<"start", "isp">>, <<"open", "manager">>}
           B6 == {<<"start", "output">>, <<"start", "encoder">>, <<"start", "metadata">>,
                   <<"start", "isp">>, <<"open", "manager">>, <<"grab", "manager">>}
           B7 == {<<"start", "output">>, <<"start", "encoder">>, <<"start", "metadata">>,
                   <<"start", "isp">>, <<"open", "manager">>, <<"grab", "manager">>,
                   <<"thread", "manager">>}
           B8 == {<<"start", "output">>, <<"start", "encoder">>, <<"start", "metadata">>,
                   <<"start", "isp">>, <<"open", "manager">>, <<"grab", "manager">>,
                   <<"thread", "manager">>, <<"start", "scheduler">>}
           B9 == {<<"start", "output">>, <<"start", "encoder">>, <<"start", "metadata">>,
                   <<"start", "isp">>, <<"open", "manager">>, <<"grab", "manager">>,
                   <<"thread", "manager">>, <<"start", "scheduler">>, <<"thread", "preview">>}
           last == << Do("handle", "SIGINT"), Do("handle", "SIGTERM"), Do("reset", "SIGINT") >>
<1>0. /\ {"output", "encoder", "metadata", "isp"} \subseteq Stages
      /\ Stages \subseteq Objects /\ {"manager", "scheduler", "preview"} \subseteq Objects
  BY DEF Objects, Stages
<1>1. Starts(q1, B1)
  <2>1. Starts(<<>>, {})
    BY EmptySeq DEF Starts, Ordered, Distinct, Has
  <2>2. Needs("start", "output") = {}
    BY DEF Needs
  <2>3. \A i \in 1..Count("output") : Do("start", <<"output", i>>) \in Steps
    BY <1>0, StartSteps
  <2>4. Starts(<<>> \o q1, {} \cup {<<"start", "output">>})
    <3> HIDE DEF q1
    <3>1. QED
      BY <1>0, <2>1, <2>2, <2>3, AddStart DEF q1
  <2>5. <<>> \o q1 = q1
    <3>1. q1 \in Seq(Steps)
      BY <1>0, <2>3, EachIs
    <3> HIDE DEF q1
    <3>2. QED
      BY <3>1, ConcatEmptySeq
  <2> HIDE DEF q1
  <2>6. QED
    BY <2>4, <2>5
<1>2. Starts(q2, B2)
  <2>1. Needs("start", "encoder") = {<<"start", "output">>}
    BY DEF Needs
  <2>2. \A i \in 1..Count("encoder") : Do("start", <<"encoder", i>>) \in Steps
    BY <1>0, StartSteps
  <2>3. /\ <<"start", "encoder">> \notin B1 /\ Needs("start", "encoder") \subseteq B1
        /\ B2 = B1 \cup {<<"start", "encoder">>}
    BY <2>1
  <2> HIDE DEF q1, B1, B2
  <2>4. QED
    BY <1>0, <1>1, <2>2, <2>3, AddStart
<1>3. Starts(q3, B3)
  <2>1. Needs("start", "metadata") = {}
    BY DEF Needs
  <2>2. \A i \in 1..Count("metadata") : Do("start", <<"metadata", i>>) \in Steps
    BY <1>0, StartSteps
  <2>3. /\ <<"start", "metadata">> \notin B2 /\ Needs("start", "metadata") \subseteq B2
        /\ B3 = B2 \cup {<<"start", "metadata">>}
    BY <2>1
  <2> HIDE DEF q2, B2, B3
  <2>4. QED
    BY <1>0, <1>2, <2>2, <2>3, AddStart
<1>4. Starts(q4, B4)
  <2>1. Needs("start", "isp") = {<<"start", "metadata">>, <<"start", "encoder">>}
    BY DEF Needs
  <2>2. \A i \in 1..Count("isp") : Do("start", <<"isp", i>>) \in Steps
    BY <1>0, StartSteps
  <2>3. /\ <<"start", "isp">> \notin B3 /\ Needs("start", "isp") \subseteq B3
        /\ B4 = B3 \cup {<<"start", "isp">>}
    BY <2>1
  <2> HIDE DEF q3, B3, B4
  <2>4. QED
    BY <1>0, <1>3, <2>2, <2>3, AddStart
<1>5. Starts(q5, B5)
  <2>1. Needs("open", "manager") = {}
    BY DEF Needs
  <2>2. \A i \in 1..Count("manager") : Do("open", <<"manager", i>>) \in Steps
    BY <1>0, StartSteps
  <2>3. /\ <<"open", "manager">> \notin B4 /\ Needs("open", "manager") \subseteq B4
        /\ B5 = B4 \cup {<<"open", "manager">>}
    BY <2>1
  <2> HIDE DEF q4, B4, B5
  <2>4. QED
    BY <1>0, <1>4, <2>2, <2>3, AddStart
<1>6. Starts(q6, B6)
  <2>1. Needs("grab", "manager") = {}
    BY DEF Needs
  <2>2. \A i \in 1..Count("manager") : Do("grab", <<"manager", i>>) \in Steps
    BY <1>0, StartSteps
  <2>3. /\ <<"grab", "manager">> \notin B5 /\ Needs("grab", "manager") \subseteq B5
        /\ B6 = B5 \cup {<<"grab", "manager">>}
    BY <2>1
  <2> HIDE DEF q5, B5, B6
  <2>4. QED
    BY <1>0, <1>5, <2>2, <2>3, AddStart
<1>7. Starts(q7, B7)
  <2>1. Needs("thread", "manager") = {<<"grab", "manager">>}
    BY DEF Needs
  <2>2. \A i \in 1..Count("manager") : Do("thread", <<"manager", i>>) \in Steps
    BY <1>0, StartSteps
  <2>3. /\ <<"thread", "manager">> \notin B6 /\ Needs("thread", "manager") \subseteq B6
        /\ B7 = B6 \cup {<<"thread", "manager">>}
    BY <2>1
  <2> HIDE DEF q6, B6, B7
  <2>4. QED
    BY <1>0, <1>6, <2>2, <2>3, AddStart
<1>8. Starts(q8, B8)
  <2>1. Needs("start", "scheduler") = {<<"grab", "manager">>}
    BY DEF Needs
  <2>2. \A i \in 1..Count("scheduler") : Do("start", <<"scheduler", i>>) \in Steps
    BY <1>0, StartSteps
  <2>3. /\ <<"start", "scheduler">> \notin B7 /\ Needs("start", "scheduler") \subseteq B7
        /\ B8 = B7 \cup {<<"start", "scheduler">>}
    BY <2>1
  <2> HIDE DEF q7, B7, B8
  <2>4. QED
    BY <1>0, <1>7, <2>2, <2>3, AddStart
<1>9. Starts(q9, B9)
  <2>1. Needs("thread", "preview") = {<<"open", "manager">>}
    BY DEF Needs
  <2>2. \A i \in 1..Count("preview") : Do("thread", <<"preview", i>>) \in Steps
    BY <1>0, StartSteps
  <2>3. /\ <<"thread", "preview">> \notin B8 /\ Needs("thread", "preview") \subseteq B8
        /\ B9 = B8 \cup {<<"thread", "preview">>}
    BY <2>1
  <2> HIDE DEF q8, B8, B9
  <2>4. QED
    BY <1>0, <1>8, <2>2, <2>3, AddStart
<1>10. /\ last \in Seq(Steps) /\ Len(last) = 3
       /\ last[1] = Do("handle", "SIGINT") /\ last[2] = Do("handle", "SIGTERM")
       /\ last[3] = Do("reset", "SIGINT")
  BY DEF Steps, Signals, Do
<1> HIDE DEF last
<1>11. Ordered(last, Has(q9)) /\ Distinct(last)
  <2>1. \A k \in 1..3 : last[k].step \in {"handle", "reset"}
    BY <1>10, DoFields
  <2>2. /\ last[1] # last[2] /\ last[1] # last[3] /\ last[2] # last[3]
    BY <1>10, DoFields
  <2>3. QED
    BY <1>10, <2>1, <2>2 DEF Ordered, Precedes, Distinct
<1>12. Has(q9) \cap Has(last) = {}
  <2>1. \A r \in Has(last) : r.step \in {"handle", "reset"}
    BY <1>10, DoFields DEF Has
  <2>2. \A r \in Has(q9) : <<r.step, r.part[1]>> \in B9
    <3> HIDE DEF q9, B9
    <3>1. QED
      BY <1>9 DEF Starts
  <2>3. \A b \in B9 : b[1] \notin {"handle", "reset"}
    OBVIOUS
  <2>4. \A r : <<r.step, r.part[1]>>[1] = r.step
    OBVIOUS
  <2> HIDE DEF q9, B9
  <2>5. QED
    BY <2>1, <2>2, <2>3, <2>4
<1>13. Do("start", Isp) \in Has(q9)
  <2> DEFINE b == <<"start", "isp">>
  <2>1. b \in B9 /\ b[1] = "start" /\ b[2] = "isp"
    OBVIOUS
  <2>2. 1 \in 1..Count("isp")
    BY <1>0, Counts
  <2> HIDE DEF q9, B9, b
  <2>3. Do(b[1], <<b[2], 1>>) \in Has(q9)
    BY <1>9, <2>1, <2>2 DEF Starts
  <2>4. QED
    BY <2>1, <2>3 DEF Isp
<1>14. Startup = q9 \o last
  BY DEF Startup, last
<1>15. Starts(q9, B9)
  BY <1>9
<1> HIDE DEF q9, B9
<1>16. /\ q9 \o last \in Seq(Steps) /\ Ordered(q9 \o last, {}) /\ Distinct(q9 \o last)
       /\ Has(q9 \o last) = Has(q9) \cup Has(last)
  <2>1. {} \cup Has(q9) = Has(q9) /\ q9 \in Seq(Steps) /\ Ordered(q9, {}) /\ Distinct(q9)
    BY <1>15 DEF Starts
  <2>2. q9 \o last \in Seq(Steps)
    BY <1>10, <2>1, ConcatProperties
  <2>3. Ordered(q9 \o last, {})
    BY <1>10, <1>11, <2>1, OrderedConcat
  <2>4. QED
    BY <1>10, <1>11, <1>12, <2>1, <2>2, <2>3, DistinctConcat, HasConcat
<1>17. QED
  BY <1>13, <1>14, <1>16
-----------------------------------------------------------------------------
(* The invariant holds initially.                                           *)

LEMMA InitInv ==
    ASSUME Init
    PROVE  IInv
<1>1. /\ \A p \in Parts : thread[p] = "none" /\ work[p] = 0 /\ Ended(p) /\ ~Live(p)
      /\ \A s \in 1..StreamCount : Quiet(s)
  <2>1. \A p \in Parts : thread[p] = "none" /\ work[p] = 0
    BY DEF Init
  <2>2. \A s \in 1..StreamCount : pipe[s] = <<>> /\ callback[s] = 0
    BY DEF Init
  <2>3. QED
    BY <2>1, <2>2, NamedParts DEF Ended, Live, Running, Quiet
<1>2. TypeOK
  <2>1. /\ plan \in Seq(Steps)
    BY StartupOrdered DEF Init
  <2>2. queue \in [StageParts -> Seq(1..MaxGroups)] /\ \A p \in StageParts : Len(queue[p]) <= QueueDepth
    <3>1. <<>> \in Seq(1..MaxGroups) /\ Len(<<>>) = 0
      BY EmptySeq
    <3>2. 0 <= QueueDepth
      BY CountsAssumption
    <3>3. queue = [p \in StageParts |-> <<>>]
      BY DEF Init
    <3> HIDE DEF StageParts
    <3>4. QED
      BY <3>1, <3>2, <3>3
  <2>3. pipe \in [1..StreamCount -> Seq(1..MaxGroups)] /\ \A s \in 1..StreamCount : Len(pipe[s]) <= QueueDepth
    <3>1. <<>> \in Seq(1..MaxGroups) /\ Len(<<>>) = 0
      BY EmptySeq
    <3>2. 0 <= QueueDepth
      BY CountsAssumption
    <3>3. QED
      BY <3>1, <3>2 DEF Init
  <2>4. /\ thread \in [Parts -> {"none", "idle", "busy", "ended"}] /\ work \in [Parts -> Nat]
    BY DEF Init
  <2>5. /\ CameraCount \in Nat /\ StreamCount \in Nat /\ MaxGroups \in Nat
    BY CountsAssumption
  <2>6. callback \in [1..StreamCount -> 0..MaxGroups] /\ delivered \in 0..(StreamCount + 1)
        /\ groups \in 0..MaxGroups /\ stopRequested \in 0..1
    BY <2>5 DEF Init
  <2>7. /\ phase \in {"start", "loop", "end", "returned", "killed"}
        /\ alive \subseteq Objects /\ opened \subseteq Parts /\ grabbing \subseteq 1..CameraCount
        /\ told \subseteq Parts /\ installed \subseteq Signals /\ closeRequested \in BOOLEAN
    BY DEF Init
  <2>8. QED
    BY <2>1, <2>2, <2>3, <2>4, <2>6, <2>7 DEF TypeOK
<1>3. PlanInv
  <2>1. phase = "start" /\ plan = Startup
    BY DEF Init
  <2>2. Ordered(plan, Begun)
    BY <2>1, StartupOrdered, OrderedMore
  <2>3. \E k \in 1..Len(plan) : plan[k] = Do("start", Isp)
    BY <2>1, StartupOrdered DEF Has
  <2>4. QED
    BY <2>1, <2>2, <2>3 DEF PlanInv
<1>4. StartInv
  <2>1. Distinct(plan) /\ plan \in Seq(Steps)
    BY StartupOrdered DEF Init
  <2>2. \A k \in 1..Len(plan) : plan[k].step \in {"start", "thread"} => thread[plan[k].part] = "none"
    <3> SUFFICES ASSUME NEW k \in 1..Len(plan), plan[k].step \in {"start", "thread"}
                 PROVE  thread[plan[k].part] = "none"
      OBVIOUS
    <3>1. plan[k] \in Steps
      BY <2>1, ElementOfSeq
    <3>2. plan[k].part \in Parts
      BY <3>1, StepIs
    <3>3. QED
      BY <1>1, <3>2
  <2>3. \A s \in 1..StreamCount : pipe[s] = <<>> /\ callback[s] = 0
    BY <1>1 DEF Quiet
  <2>4. \A p \in StageParts : thread[p] \in {"none", "idle"} /\ queue[p] = <<>>
    BY <1>1, NamedParts DEF Init
  <2>5. told = {}
    BY DEF Init
  <2>6. QED
    BY <2>1, <2>2, <2>3, <2>4, <2>5 DEF StartInv, Distinct
<1>5. UsersInv
  <2>1. PartsOf({"output", "metadata"}) \subseteq Parts
    BY DEF PartsOf, Parts, Objects, Stages
  <2>2. QED
    BY <1>1, <2>1, NamedParts DEF UsersInv
<1>6. WorkInv
  BY <1>1, NamedParts, CountsAssumption DEF WorkInv
<1>7. QED
  BY <1>2, <1>3, <1>4, <1>5, <1>6 DEF IInv
-----------------------------------------------------------------------------
(* What a step takes from no part, and what main's plan makes of it.        *)

\* No thread is started, no part closed or stopped, nothing new is under way in an
\* encoder that was quiet.
NothingTaken ==
    /\ \A p \in Parts : (Ended(p) => Ended(p)') /\ (Live(p) => Live(p)')
    /\ \A s \in 1..StreamCount : Quiet(s) => Quiet(s)'
    /\ alive \subseteq alive' /\ opened \subseteq opened' /\ grabbing \subseteq grabbing'

LEMMA BegunGrows ==
    ASSUME alive \subseteq alive', grabbing \subseteq grabbing',
           \A p \in Parts : Live(p) => Live(p)'
    PROVE  Begun \subseteq Begun'
<1> SUFFICES ASSUME NEW r \in Begun PROVE r \in Begun'
  OBVIOUS
<1>1. r \in Steps
  BY DEF Begun
<1>2. r.step = "start" => r.part \in Parts
  BY <1>1, StepIs
<1>3. QED
  BY <1>1, <1>2 DEF Begun

LEMMA FinishedGrows ==
    ASSUME \A p \in Parts : Ended(p) => Ended(p)',
           \A s \in 1..StreamCount : Quiet(s) => Quiet(s)'
    PROVE  Finished \subseteq Finished'
<1> SUFFICES ASSUME NEW r \in Finished PROVE r \in Finished'
  OBVIOUS
<1>1. r \in Steps /\ r.step \in {"join", "release"}
  BY DEF Finished
<1>2. r.part \in Parts
  BY <1>1, StepIs
<1>3. QED
  BY <1>1, <1>2 DEF Finished

LEMMA UsersKept ==
    ASSUME UsersInv, NothingTaken
    PROVE  UsersInv'
<1>1. PartsOf({"output", "metadata"}) \subseteq Parts /\ PartsOf({"metadata", "encoder"}) \subseteq Parts
  BY DEF PartsOf, Parts, Objects, Stages
<1>2. \A p \in Parts : ~Ended(p)' => p[1] \in alive'
  BY DEF UsersInv, NothingTaken
<1>3. \A p \in PartsOf({"output", "metadata"}) : ~Ended(p)' => p \in opened'
  BY <1>1 DEF UsersInv, NothingTaken
<1>4. \A c \in 1..CameraCount : ~Ended(Camera(c))' \/ ~Ended(Scheduler)' => c \in grabbing'
  BY NamedParts DEF UsersInv, NothingTaken
<1>5. ~Ended(Preview)' => "manager" \in alive'
  BY NamedParts DEF UsersInv, NothingTaken
<1>6. ~Ended(Isp)' => \A p \in PartsOf({"metadata", "encoder"}) : Live(p)'
  BY <1>1, NamedParts DEF UsersInv, NothingTaken
<1>7. \A s \in 1..StreamCount : ~Quiet(s)' => Live(Output(s))' /\ Encoder(s) \in opened'
  BY NamedParts DEF UsersInv, NothingTaken
<1>8. QED
  BY <1>2, <1>3, <1>4, <1>5, <1>6, <1>7 DEF UsersInv

\* A step of main's that is not a step of a plan, or a step of a thread.
LEMMA PlanKept ==
    ASSUME IInv, NothingTaken, UNCHANGED <<phase, plan>>
    PROVE  PlanInv'
<1>1. Begun \subseteq Begun' /\ Finished \subseteq Finished'
  BY BegunGrows, FinishedGrows DEF NothingTaken
<1>2. Live(Isp) => Live(Isp)'
  BY NamedParts DEF NothingTaken
<1>3. /\ phase' = "start" => Ordered(plan', Begun')
      /\ phase' = "end" => Ordered(plan', Finished')
  BY <1>1, OrderedMore DEF IInv, PlanInv
<1>4. phase' = "start" => Live(Isp)' \/ \E k \in 1..Len(plan') : plan'[k] = Do("start", Isp)
  BY <1>2 DEF IInv, PlanInv
<1>5. phase' = "loop" => Live(Isp)'
  BY <1>2 DEF IInv, PlanInv
<1>6. QED
  BY <1>3, <1>4, <1>5 DEF PlanInv

\* The step of main's plan that is done.
LEMMA DoesIs ==
    ASSUME TypeOK, NEW ph, NEW step, Does(ph, step)
    PROVE  /\ phase = ph /\ plan # <<>> /\ plan \in Seq(Steps) /\ Len(plan) \in Nat
           /\ Head(plan) \in Steps /\ Head(plan) = plan[1] /\ Head(plan) = Do(step, Part)
           /\ Head(plan).step = step /\ Head(plan).part = Part
           /\ plan' = Tail(plan) /\ plan' \in Seq(Steps) /\ Len(plan') = Len(plan) - 1
           /\ \A k \in 1..Len(plan') : plan'[k] = plan[k + 1] /\ k + 1 \in 1..Len(plan)
           /\ 1 \in 1..Len(plan)
<1>1. plan \in Seq(Steps) /\ plan # <<>> /\ phase = ph /\ Head(plan).step = step /\ plan' = Tail(plan)
  BY DEF TypeOK, Does
<1>2. /\ Head(plan) \in Steps /\ Tail(plan) \in Seq(Steps) /\ Len(Tail(plan)) = Len(plan) - 1
      /\ \A k \in 1..Len(Tail(plan)) : Tail(plan)[k] = plan[k + 1]
  BY <1>1, HeadTailProperties
<1>3. Len(plan) \in Nat \ {0} /\ Head(plan) = plan[1]
  BY <1>1, EmptySeq
<1>4. Head(plan) = Do(step, Part)
  BY <1>1, <1>2, StepIs DEF Part
<1>5. QED
  BY <1>1, <1>2, <1>3, <1>4 DEF Part

\* A step of a plan at the end: what is left is in order.
LEMMA EndPlan ==
    ASSUME IInv, NEW step, Does("end", step), phase' = "end", Finished \subseteq Finished',
           step \in {"tell", "destroy"} \/ (step \in {"join", "release"} /\ Head(plan) \in Finished')
    PROVE  PlanInv' /\ StartInv'
<1>1. /\ plan \in Seq(Steps) /\ plan # <<>> /\ Head(plan).step = step /\ plan' = Tail(plan)
  BY DoesIs DEF IInv
<1>2. Ordered(plan, Finished)
  BY DEF IInv, PlanInv, Does
<1>3. Ordered(plan', Finished')
  BY <1>1, <1>2, OrderedTail
<1>4. QED
  BY <1>3 DEF PlanInv, StartInv

\* A step of the start-up: what is left is in order, and still to be started.
LEMMA StartPlan ==
    ASSUME IInv, NEW step, Does("start", step), phase' = "start",
           alive \subseteq alive', grabbing \subseteq grabbing',
           \A p \in Parts : Live(p) => Live(p)',
           step \in {"start", "open", "grab"} => Head(plan) \in Begun',
           \A p \in Parts : thread'[p] = thread[p] \/ (step \in {"start", "thread"} /\ p = Part),
           step \in {"thread", "handle", "reset"} \/ step \in {"start", "open", "grab"}
    PROVE  /\ PlanInv'
           /\ \A k \in 1..Len(plan') :
                /\ plan'[k].step \in {"start", "thread"} => thread'[plan'[k].part] = "none"
                /\ \A j \in 1..(k - 1) : plan'[j] # plan'[k]
<1>1. /\ plan \in Seq(Steps) /\ Len(plan) \in Nat /\ plan # <<>> /\ phase = "start"
      /\ Head(plan) \in Steps /\ Head(plan) = plan[1] /\ Head(plan) = Do(step, Part)
      /\ Head(plan).step = step /\ Head(plan).part = Part
      /\ plan' = Tail(plan) /\ plan' \in Seq(Steps) /\ Len(plan') = Len(plan) - 1
      /\ \A k \in 1..Len(plan') : plan'[k] = plan[k + 1] /\ k + 1 \in 1..Len(plan)
      /\ 1 \in 1..Len(plan)
  BY DoesIs DEF IInv
<1>2. Ordered(plan, Begun) /\ (Live(Isp) \/ \E k \in 1..Len(plan) : plan[k] = Do("start", Isp))
  BY <1>1 DEF IInv, PlanInv
<1>3. Begun \subseteq Begun'
  BY BegunGrows
<1>4. Ordered(plan', Begun')
  BY <1>1, <1>2, <1>3, OrderedTail
<1>5. Live(Isp)' \/ \E k \in 1..Len(plan') : plan'[k] = Do("start", Isp)
  <2>1. CASE Live(Isp)
    BY <2>1, NamedParts
  <2>2. CASE Head(plan) = Do("start", Isp)
    <3>1. step = "start" /\ Part = Isp
      BY <1>1, <2>2, DoFields
    <3>2. Head(plan) \in Begun' /\ Head(plan).step = "start" /\ Head(plan).part = Isp
      BY <1>1, <3>1
    <3>3. QED
      BY <3>2 DEF Begun
  <2>3. CASE \E k \in 1..Len(plan) : plan[k] = Do("start", Isp) /\ k # 1
    <3>1. PICK k \in 1..Len(plan) : plan[k] = Do("start", Isp) /\ k # 1
      BY <2>3
    <3>2. k - 1 \in 1..Len(plan') /\ (k - 1) + 1 = k
      BY <1>1, <3>1
    <3>3. QED
      BY <1>1, <3>1, <3>2
  <2>4. QED
    BY <1>1, <1>2, <2>1, <2>2, <2>3
<1>6. PlanInv'
  BY <1>4, <1>5 DEF PlanInv
<1>7. \A k \in 1..Len(plan) :
         /\ plan[k].step \in {"start", "thread"} => thread[plan[k].part] = "none"
         /\ \A j \in 1..(k - 1) : plan[j] # plan[k]
  BY <1>1 DEF IInv, StartInv
<1>8. ASSUME NEW k \in 1..Len(plan')
      PROVE  /\ plan'[k].step \in {"start", "thread"} => thread'[plan'[k].part] = "none"
             /\ \A j \in 1..(k - 1) : plan'[j] # plan'[k]
  <2>1. /\ plan'[k] = plan[k + 1] /\ k + 1 \in 1..Len(plan)
        /\ \A j \in 1..(k - 1) : plan'[j] = plan[j + 1] /\ j + 1 \in 1..((k + 1) - 1)
    BY <1>1
  <2>2. \A j \in 1..(k - 1) : plan'[j] # plan'[k]
    BY <1>7, <2>1
  <2>3. ASSUME plan[k + 1].step \in {"start", "thread"}
        PROVE  thread'[plan[k + 1].part] = "none"
    <3>1. plan[k + 1] \in Steps /\ plan[1] # plan[k + 1] /\ thread[plan[k + 1].part] = "none"
      <4>1. 1 \in 1..((k + 1) - 1)
        OBVIOUS
      <4>2. QED
        BY <1>1, <1>7, <2>1, <2>3, <4>1, ElementOfSeq
    <3>2. plan[k + 1] = Do(plan[k + 1].step, plan[k + 1].part) /\ plan[k + 1].part \in Parts
      BY <2>3, <3>1, StepIs
    <3>3. CASE thread'[plan[k + 1].part] = thread[plan[k + 1].part]
      BY <3>1, <3>3
    <3>4. CASE step \in {"start", "thread"} /\ plan[k + 1].part = Part
      <4>1. plan[k + 1].step # step
        BY <1>1, <3>1, <3>2, <3>4
      <4>2. \A r \in Steps : r.step = "start" => r.part[1] \in Stages \cup {"scheduler"}
        <5>1. Stages \cup {"scheduler"} \in SUBSET Objects
          BY DEF Objects
        <5>2. QED
          BY <5>1, StepIs, PartsOfIs
      <4>3. \A r \in Steps : r.step = "thread" => r.part[1] \in {"manager", "preview"}
        <5>1. {"manager", "preview"} \in SUBSET Objects
          BY DEF Objects
        <5>2. QED
          BY <5>1, StepIs, PartsOfIs
      <4>4. {"manager", "preview"} \cap (Stages \cup {"scheduler"}) = {}
        BY DEF Stages
      <4>5. QED
        BY <1>1, <2>3, <3>1, <3>4, <4>1, <4>2, <4>3, <4>4
    <3>5. QED
      BY <3>2, <3>3, <3>4
  <2>4. QED
    BY <2>1, <2>2, <2>3
<1>9. QED
  BY <1>6, <1>8
-----------------------------------------------------------------------------
(* The steps of the threads.                                                *)

LEMMA Bounds ==
    /\ CameraCount \in Nat \ {0} /\ StreamCount \in Nat \ {0} /\ QueueDepth \in Nat \ {0}
    /\ MaxGroups \in Nat
BY CountsAssumption

\* A queue keeps its type and its depth.
LEMMA PushedIs ==
    ASSUME NEW q \in Seq(1..MaxGroups), Len(q) <= QueueDepth, NEW v \in 1..MaxGroups
    PROVE  /\ PushLatest(q, v) \in Seq(1..MaxGroups) /\ Len(PushLatest(q, v)) <= QueueDepth
           /\ PushLatest(q, v) # <<>>
<1>1. Len(q) \in Nat /\ QueueDepth \in Nat \ {0}
  BY LenProperties, Bounds
<1>2. CASE Len(q) = QueueDepth
  <2>1. q # <<>>
    BY <1>1, <1>2
  <2>2. Tail(q) \in Seq(1..MaxGroups) /\ Len(Tail(q)) = Len(q) - 1
    BY <2>1, HeadTailProperties
  <2>3. PushLatest(q, v) = Append(Tail(q), v)
    BY <1>2 DEF PushLatest
  <2> DEFINE t == Tail(q)
  <2> HIDE DEF t
  <2>4. t \in Seq(1..MaxGroups) /\ Len(t) = Len(q) - 1 /\ PushLatest(q, v) = Append(t, v)
    BY <2>2, <2>3 DEF t
  <2>5. QED
    BY <1>1, <1>2, <2>4
<1>3. CASE Len(q) # QueueDepth
  BY <1>1, <1>3 DEF PushLatest
<1>4. QED
  BY <1>2, <1>3

QueuesTyped ==
    queue \in [StageParts -> Seq(1..MaxGroups)] /\ \A p \in StageParts : Len(queue[p]) <= QueueDepth
PipesTyped ==
    /\ pipe \in [1..StreamCount -> Seq(1..MaxGroups)]
    /\ \A s \in 1..StreamCount : Len(pipe[s]) <= QueueDepth
    /\ callback \in [1..StreamCount -> 0..MaxGroups]

LEMMA OfferedIs ==
    ASSUME QueuesTyped, NEW p \in StageParts, NEW v \in 1..MaxGroups, queue' = Offered(p, v)
    PROVE  QueuesTyped'
<1>1. CASE Running(p)
  <2>1. queue' = [queue EXCEPT ![p] = PushLatest(queue[p], v)]
    BY <1>1 DEF Offered
  <2>2. PushLatest(queue[p], v) \in Seq(1..MaxGroups) /\ Len(PushLatest(queue[p], v)) <= QueueDepth
    BY PushedIs DEF QueuesTyped
  <2>3. QED
    BY <2>1, <2>2 DEF QueuesTyped
<1>2. CASE ~Running(p)
  BY <1>2 DEF Offered, QueuesTyped
<1>3. QED
  BY <1>1, <1>2

\* What a step of a thread leaves alone.
Aside == UNCHANGED <<mainVars, resourceVars, told, signalVars>>

\* A thread moves on; an encoder that was quiet stays so.
LEMMA ThreadMoves ==
    ASSUME IInv, Aside, NEW p \in Parts, thread[p] \in {"idle", "busy"},
           NEW x \in {"idle", "busy", "ended"}, thread' = [thread EXCEPT ![p] = x],
           NEW w \in Nat, work' = [work EXCEPT ![p] = w],
           w # 0 => x = "busy", p \in StageParts => w <= MaxGroups /\ (x = "busy" => w # 0),
           p = Scheduler /\ x = "busy" => w \in 1..CameraCount,
           phase = "start" => p \notin StageParts /\ UNCHANGED <<queue, pipelineVars>>,
           \A s \in 1..StreamCount : Quiet(s) => pipe'[s] = <<>> /\ callback'[s] = 0,
           QueuesTyped', PipesTyped', delivered' \in 0..(StreamCount + 1),
           groups' = groups, closeRequested' \in BOOLEAN
    PROVE  IInv'
<1>1. /\ \A q \in Parts : thread'[q] = IF q = p THEN x ELSE thread[q]
      /\ \A q \in Parts : work'[q] = IF q = p THEN w ELSE work[q]
      /\ thread' \in [Parts -> {"none", "idle", "busy", "ended"}] /\ work' \in [Parts -> Nat]
  BY DEF IInv, TypeOK
<1>2. TypeOK'
  BY <1>1 DEF IInv, TypeOK, Aside, mainVars, resourceVars, signalVars, QueuesTyped, PipesTyped
<1>3. /\ phase' = phase /\ plan' = plan /\ alive' = alive /\ opened' = opened
      /\ grabbing' = grabbing /\ told' = told
  BY DEF Aside, mainVars, resourceVars
<1>4. NothingTaken
  <2>1. \A q \in Parts : (Ended(q) => Ended(q)') /\ (Live(q) => Live(q)')
    BY <1>1, <1>3 DEF Ended, Live, Running
  <2>2. \A s \in 1..StreamCount : Quiet(s) => Quiet(s)'
    BY <2>1, NamedParts DEF Quiet
  <2>3. QED
    BY <1>3, <2>1, <2>2 DEF NothingTaken
<1>5. PlanInv' /\ UsersInv'
  BY <1>3, <1>4, PlanKept, UsersKept DEF IInv
<1>6. StartInv'
  <2> SUFFICES ASSUME phase' = "start" PROVE StartInv'
    BY DEF StartInv
  <2>1. phase = "start" /\ p \notin StageParts /\ queue' = queue /\ pipe' = pipe /\ callback' = callback
    BY <1>3 DEF pipelineVars
  <2>2. told' = {}
    BY <1>3, <2>1 DEF IInv, StartInv
  <2>3. \A q \in StageParts : thread'[q] \in {"none", "idle"} /\ queue'[q] = <<>>
    BY <1>1, <2>1, NamedParts DEF IInv, StartInv
  <2>4. \A s \in 1..StreamCount : pipe'[s] = <<>> /\ callback'[s] = 0
    BY <2>1 DEF IInv, StartInv
  <2>5. \A k \in 1..Len(plan') :
           /\ plan'[k].step \in {"start", "thread"} => thread'[plan'[k].part] = "none"
           /\ \A j \in 1..(k - 1) : plan'[j] # plan'[k]
    <3> SUFFICES ASSUME NEW k \in 1..Len(plan)
                 PROVE  /\ plan[k].step \in {"start", "thread"} => thread'[plan[k].part] = "none"
                        /\ \A j \in 1..(k - 1) : plan[j] # plan[k]
      BY <1>3
    <3>1. /\ plan[k].step \in {"start", "thread"} => thread[plan[k].part] = "none"
          /\ \A j \in 1..(k - 1) : plan[j] # plan[k]
      BY <2>1 DEF IInv, StartInv
    <3>2. plan[k] \in Steps
      BY ElementOfSeq DEF IInv, TypeOK
    <3>3. plan[k].step \in {"start", "thread"} => plan[k].part \in Parts
      BY <3>2, StepIs
    <3>4. QED
      BY <1>1, <3>1, <3>3
  <2>6. QED
    BY <2>2, <2>3, <2>4, <2>5 DEF StartInv
<1>7. WorkInv'
  <2>1. \A q \in Parts : work'[q] # 0 => thread'[q] = "busy"
    BY <1>1 DEF IInv, WorkInv
  <2>2. \A q \in StageParts : work'[q] \in 0..MaxGroups /\ (thread'[q] = "busy" => work'[q] # 0)
    BY <1>1, NamedParts, Bounds DEF IInv, WorkInv
  <2>3. thread'[Scheduler] = "busy" => work'[Scheduler] \in 1..CameraCount
    BY <1>1, NamedParts DEF IInv, WorkInv
  <2>4. QED
    BY <2>1, <2>2, <2>3 DEF WorkInv
<1>8. QED
  BY <1>2, <1>5, <1>6, <1>7 DEF IInv

\* No thread moves.
LEMMA ThreadsStay ==
    ASSUME IInv, Aside, UNCHANGED threadVars,
           phase = "start" => UNCHANGED <<queue, pipelineVars>>,
           \A s \in 1..StreamCount : Quiet(s) => pipe'[s] = <<>> /\ callback'[s] = 0,
           QueuesTyped', PipesTyped', delivered' \in 0..(StreamCount + 1),
           groups' \in 0..MaxGroups, closeRequested' \in BOOLEAN
    PROVE  IInv'
<1>1. /\ phase' = phase /\ plan' = plan /\ alive' = alive /\ opened' = opened
      /\ grabbing' = grabbing /\ told' = told /\ thread' = thread /\ work' = work
  BY DEF Aside, mainVars, resourceVars, threadVars
<1>2. TypeOK'
  BY <1>1 DEF IInv, TypeOK, Aside, signalVars, QueuesTyped, PipesTyped
<1>3. NothingTaken
  <2>1. \A q \in Parts : (Ended(q) => Ended(q)') /\ (Live(q) => Live(q)')
    BY <1>1 DEF Ended, Live, Running
  <2>2. \A s \in 1..StreamCount : Quiet(s) => Quiet(s)'
    BY <2>1, NamedParts DEF Quiet
  <2>3. QED
    BY <1>1, <2>1, <2>2 DEF NothingTaken
<1>4. PlanInv' /\ UsersInv'
  BY <1>1, <1>3, PlanKept, UsersKept DEF IInv
<1>5. StartInv'
  BY <1>1 DEF IInv, StartInv, pipelineVars
<1>6. WorkInv'
  BY <1>1 DEF IInv, WorkInv
<1>7. QED
  BY <1>2, <1>4, <1>5, <1>6 DEF IInv

LEMMA TypedParts ==
    ASSUME IInv
    PROVE  /\ QueuesTyped /\ PipesTyped /\ delivered \in 0..(StreamCount + 1)
           /\ groups \in 0..MaxGroups /\ closeRequested \in BOOLEAN
           /\ thread \in [Parts -> {"none", "idle", "busy", "ended"}] /\ work \in [Parts -> Nat]
           /\ \A p \in StageParts : thread[p] = "busy" => work[p] \in 1..MaxGroups
           /\ \A s \in 1..StreamCount : callback[s] # 0 => callback[s] \in 1..MaxGroups
           /\ phase = "start" =>
                /\ told = {}
                /\ \A p \in StageParts : thread[p] \in {"none", "idle"} /\ queue[p] = <<>>
                /\ \A s \in 1..StreamCount : pipe[s] = <<>> /\ callback[s] = 0
<1>1. \A p \in StageParts : thread[p] = "busy" => work[p] \in 1..MaxGroups
  BY Bounds DEF IInv, WorkInv
<1>2. \A s \in 1..StreamCount : callback[s] # 0 => callback[s] \in 1..MaxGroups
  BY Bounds DEF IInv, TypeOK
<1>3. QED
  BY <1>1, <1>2 DEF IInv, TypeOK, QueuesTyped, PipesTyped, StartInv

LEMMA Other ==
    /\ Scheduler \notin StageParts /\ Preview \notin StageParts
    /\ \A c \in 1..CameraCount : Camera(c) \notin StageParts /\ Camera(c) # Scheduler
    /\ \A p \in StageParts : p # Scheduler
    /\ Preview # Scheduler
<1>1. \A p \in StageParts : p[1] \in Stages
  <2>1. Stages \in SUBSET Objects
    BY DEF Objects
  <2>2. QED
    BY <2>1, PartsOfIs, NamedParts DEF StageParts
<1>2. Scheduler[1] = "scheduler" /\ Preview[1] = "preview" /\ \A c : Camera(c)[1] = "manager"
  BY DEF Scheduler, Preview, Camera
<1>3. QED
  BY <1>1, <1>2 DEF Stages

LEMMA TakeInv ==
    ASSUME IInv, NEW p \in StageParts, Take(p)
    PROVE  IInv'
<1>1. queue[p] # <<>> /\ queue[p] \in Seq(1..MaxGroups) /\ Len(queue[p]) <= QueueDepth
  BY TypedParts DEF Take, QueuesTyped
<1>2. /\ Head(queue[p]) \in 1..MaxGroups /\ Tail(queue[p]) \in Seq(1..MaxGroups)
      /\ Len(Tail(queue[p])) <= QueueDepth
  <2>1. /\ Head(queue[p]) \in 1..MaxGroups /\ Tail(queue[p]) \in Seq(1..MaxGroups)
        /\ Len(Tail(queue[p])) = Len(queue[p]) - 1 /\ Len(queue[p]) \in Nat
    BY <1>1, HeadTailProperties, LenProperties
  <2> DEFINE n == Len(queue[p])
             m == Len(Tail(queue[p]))
  <2>2. n \in Nat /\ m = n - 1 /\ n <= QueueDepth /\ QueueDepth \in Nat
    BY <1>1, <2>1, Bounds
  <2> HIDE DEF n, m
  <2>3. m <= QueueDepth
    BY <2>2
  <2>4. QED
    BY <2>1, <2>3 DEF m
<1> DEFINE w == Head(queue[p])
<1>3. /\ thread[p] = "idle" /\ thread' = [thread EXCEPT ![p] = "busy"]
      /\ work' = [work EXCEPT ![p] = w] /\ queue' = [queue EXCEPT ![p] = Tail(queue[p])]
      /\ Aside /\ delivered' = delivered /\ pipe' = pipe /\ callback' = callback
      /\ groups' = groups /\ closeRequested' = closeRequested
  BY DEF Take, Begins, Aside, pipelineVars
<1>4. phase # "start"
  BY <1>1, TypedParts
<1>5. QueuesTyped'
  BY <1>2, <1>3, TypedParts DEF QueuesTyped
<1>6. PipesTyped' /\ delivered' \in 0..(StreamCount + 1) /\ closeRequested' \in BOOLEAN
  BY <1>3, TypedParts DEF PipesTyped
<1>7. p \in Parts /\ p # Scheduler
  BY NamedParts, Other
<1>8. w \in Nat /\ w # 0 /\ w <= MaxGroups
  BY <1>2, Bounds
<1> HIDE DEF w
<1>9. \A s \in 1..StreamCount : Quiet(s) => pipe'[s] = <<>> /\ callback'[s] = 0
  BY <1>3 DEF Quiet
<1>10. QED
  BY <1>3, <1>4, <1>5, <1>6, <1>7, <1>8, <1>9, ThreadMoves

\* The lemmas below are of threads that neither take nor hand on anything.
LEMMA Alone ==
    ASSUME IInv, Aside, NEW p \in Parts, thread[p] \in {"idle", "busy"},
           NEW x \in {"idle", "busy", "ended"}, thread' = [thread EXCEPT ![p] = x],
           NEW w \in Nat, work' = [work EXCEPT ![p] = w],
           w # 0 => x = "busy", p \in StageParts => w = 0 /\ x # "busy" /\ phase # "start",
           p = Scheduler /\ x = "busy" => w \in 1..CameraCount,
           UNCHANGED <<queue, pipelineVars, groups>>,
           delivered' \in 0..(StreamCount + 1), closeRequested' \in BOOLEAN
    PROVE  IInv'
<1>1. queue' = queue /\ pipe' = pipe /\ callback' = callback
  BY DEF pipelineVars
<1>2. QueuesTyped' /\ PipesTyped'
  BY <1>1, TypedParts DEF QueuesTyped, PipesTyped
<1>3. \A s \in 1..StreamCount : Quiet(s) => pipe'[s] = <<>> /\ callback'[s] = 0
  BY <1>1 DEF Quiet
<1>4. p \in StageParts => w <= MaxGroups /\ (x = "busy" => w # 0)
  BY Bounds
<1>5. phase = "start" => p \notin StageParts /\ UNCHANGED <<queue, pipelineVars>>
  OBVIOUS
<1>6. groups' = groups
  OBVIOUS
<1>7. QED
  BY <1>2, <1>3, <1>4, <1>5, <1>6, ThreadMoves

LEMMA ThreadEndsInv ==
    ASSUME IInv, NEW p \in Parts, ThreadEnds(p)
    PROVE  IInv'
<1>1. /\ thread[p] = "idle" /\ p \in told /\ thread' = [thread EXCEPT ![p] = "ended"]
      /\ Aside /\ UNCHANGED <<queue, pipelineVars, groups>>
      /\ delivered' = delivered /\ closeRequested' = closeRequested
  BY DEF ThreadEnds, Aside
<1>2. phase # "start"
  BY <1>1, TypedParts
<1>3. work[p] = 0 /\ work' = [work EXCEPT ![p] = 0]
  <2>1. work[p] = 0
    BY <1>1 DEF IInv, WorkInv
  <2>2. work' = work
    BY DEF ThreadEnds
  <2>3. QED
    BY <2>1, <2>2, TypedParts
<1>4. delivered' \in 0..(StreamCount + 1) /\ closeRequested' \in BOOLEAN
  BY <1>1, TypedParts
<1>5. /\ thread[p] \in {"idle", "busy"} /\ "ended" \in {"idle", "busy", "ended"} /\ 0 \in Nat
      /\ 0 # 0 => "ended" = "busy"
      /\ p \in StageParts => 0 = 0 /\ "ended" # "busy" /\ phase # "start"
      /\ p = Scheduler /\ "ended" = "busy" => 0 \in 1..CameraCount
  BY <1>1, <1>2
<1>6. QED
  BY <1>1, <1>3, <1>4, <1>5, Alone, Zenon

\* A turn ends.
LEMMA EndsInv ==
    ASSUME IInv, Aside, NEW p \in Parts, Ends(p), UNCHANGED <<queue, pipelineVars, groups>>,
           delivered' \in 0..(StreamCount + 1), closeRequested' = closeRequested
    PROVE  IInv'
<1>1. /\ thread[p] = "busy" /\ thread' = [thread EXCEPT ![p] = "idle"]
      /\ work' = [work EXCEPT ![p] = 0]
  BY DEF Ends
<1>2. p \in StageParts => phase # "start"
  BY <1>1, TypedParts
<1>3. closeRequested' \in BOOLEAN
  BY TypedParts
<1>4. QED
  BY <1>1, <1>2, <1>3, Alone

\* A turn begins, of a thread that is no stage.
LEMMA BeginsInv ==
    ASSUME IInv, Aside, NEW p \in Parts \ StageParts, NEW w \in Nat \ {0}, Begins(p, w),
           p = Scheduler => w \in 1..CameraCount,
           UNCHANGED <<queue, pipelineVars, groups, delivered, closeRequested>>
    PROVE  IInv'
<1>1. /\ thread[p] = "idle" /\ thread' = [thread EXCEPT ![p] = "busy"]
      /\ work' = [work EXCEPT ![p] = w]
  BY DEF Begins
<1>2. delivered' \in 0..(StreamCount + 1) /\ closeRequested' \in BOOLEAN
  BY TypedParts
<1>3. UNCHANGED <<queue, pipelineVars, groups>>
  OBVIOUS
<1>4. p \in Parts /\ p \notin StageParts /\ w \in Nat
  OBVIOUS
<1>5. QED
  BY <1>1, <1>2, <1>3, <1>4, Alone

LEMMA IspInv ==
    ASSUME IInv, IspGivesUp \/ IspDelivers \/ IspDone
    PROVE  IInv'
<1>1. CASE IspGivesUp
  <2>1. Ends(Isp) /\ Aside /\ UNCHANGED <<queue, pipelineVars, groups>>
        /\ delivered' = delivered /\ closeRequested' = closeRequested
    BY <1>1 DEF IspGivesUp, Aside
  <2>2. QED
    BY <2>1, TypedParts, NamedParts, EndsInv
<1>2. CASE IspDone
  <2>1. Ends(Isp) /\ Aside /\ UNCHANGED <<queue, pipelineVars, groups>>
        /\ delivered' = 0 /\ closeRequested' = closeRequested
    BY <1>2 DEF IspDone, Aside
  <2>2. delivered' \in 0..(StreamCount + 1)
    BY <2>1, Bounds
  <2>3. QED
    BY <2>1, <2>2, NamedParts, EndsInv
<1>3. CASE IspDelivers
  <2> DEFINE p == IF delivered = 0 THEN Metadata ELSE Encoder(delivered)
  <2>1. /\ thread[Isp] = "busy" /\ delivered <= StreamCount /\ queue' = Offered(p, work[Isp])
        /\ delivered' = delivered + 1
        /\ Aside /\ UNCHANGED threadVars /\ UNCHANGED pipelineVars
        /\ groups' = groups /\ closeRequested' = closeRequested
    BY <1>3 DEF IspDelivers, Aside
  <2>2. delivered \in 0..StreamCount /\ work[Isp] \in 1..MaxGroups /\ phase # "start"
    BY <2>1, TypedParts, NamedParts, Bounds
  <2>3. p \in StageParts
    BY <2>2, NamedParts, Bounds
  <2>4. delivered' \in 0..(StreamCount + 1)
    BY <2>1, <2>2, Bounds
  <2> HIDE DEF p
  <2>5. QueuesTyped'
    BY <2>1, <2>2, <2>3, TypedParts, OfferedIs
  <2>6. PipesTyped' /\ \A s \in 1..StreamCount : Quiet(s) => pipe'[s] = <<>> /\ callback'[s] = 0
    BY <2>1, TypedParts DEF PipesTyped, pipelineVars, Quiet
  <2>7. groups' \in 0..MaxGroups /\ closeRequested' \in BOOLEAN
    BY <2>1, TypedParts
  <2>8. QED
    BY <2>1, <2>2, <2>4, <2>5, <2>6, <2>7, ThreadsStay
<1>4. QED
  BY <1>1, <1>2, <1>3

LEMMA EncoderInv ==
    ASSUME IInv, NEW s \in 1..StreamCount, EncoderPushes(s)
    PROVE  IInv'
<1> DEFINE p == Encoder(s)
           w == work[p]
<1>1. /\ thread[p] = "busy" /\ thread' = [thread EXCEPT ![p] = "idle"]
      /\ work' = [work EXCEPT ![p] = 0]
      /\ pipe' \in {pipe, [pipe EXCEPT ![s] = PushLatest(pipe[s], w)]}
      /\ Aside /\ queue' = queue /\ delivered' = delivered /\ callback' = callback
      /\ groups' = groups /\ closeRequested' = closeRequested
  BY DEF EncoderPushes, Ends, Aside
<1>2. p \in Parts /\ p \in StageParts /\ p # Scheduler
  BY NamedParts, Other
<1>3. w \in 1..MaxGroups /\ phase # "start"
  BY <1>1, <1>2, TypedParts
<1>4. PipesTyped'
  <2>1. pipe[s] \in Seq(1..MaxGroups) /\ Len(pipe[s]) <= QueueDepth
    BY TypedParts DEF PipesTyped
  <2>2. PushLatest(pipe[s], w) \in Seq(1..MaxGroups) /\ Len(PushLatest(pipe[s], w)) <= QueueDepth
    BY <1>3, <2>1, PushedIs
  <2>3. QED
    BY <1>1, <2>2, TypedParts DEF PipesTyped
<1>5. QueuesTyped' /\ delivered' \in 0..(StreamCount + 1) /\ closeRequested' \in BOOLEAN
  BY <1>1, TypedParts DEF QueuesTyped
<1>6. \A t \in 1..StreamCount : Quiet(t) => pipe'[t] = <<>> /\ callback'[t] = 0
  <2> SUFFICES ASSUME NEW t \in 1..StreamCount, Quiet(t)
               PROVE  pipe'[t] = <<>> /\ callback'[t] = 0
    OBVIOUS
  <2>1. t # s
    BY <1>1 DEF Quiet, Ended
  <2>2. pipe'[t] = pipe[t] /\ callback'[t] = callback[t]
    BY <1>1, <2>1, TypedParts DEF PipesTyped
  <2>3. QED
    BY <2>2 DEF Quiet
<1>7. 0 \in Nat /\ (p \in StageParts => 0 <= MaxGroups)
  BY Bounds
<1> HIDE DEF p
<1>8. QED
  BY <1>1, <1>2, <1>3, <1>4, <1>5, <1>6, <1>7, ThreadMoves

LEMMA CallbackInv ==
    ASSUME IInv, NEW s \in 1..StreamCount, Callback(s)
    PROVE  IInv'
<1>1. CASE CallbackBegins(s)
  <2>1. /\ pipe[s] # <<>> /\ callback[s] = 0
        /\ callback' = [callback EXCEPT ![s] = Head(pipe[s])]
        /\ pipe' = [pipe EXCEPT ![s] = Tail(pipe[s])]
        /\ Aside /\ UNCHANGED threadVars /\ queue' = queue /\ delivered' = delivered
        /\ groups' = groups /\ closeRequested' = closeRequested
    BY <1>1 DEF CallbackBegins, Aside
  <2>2. phase # "start"
    BY <2>1, TypedParts
  <2>3. PipesTyped'
    <3>1. pipe[s] \in Seq(1..MaxGroups) /\ Len(pipe[s]) <= QueueDepth
      BY TypedParts DEF PipesTyped
    <3>2. /\ Head(pipe[s]) \in 1..MaxGroups /\ Tail(pipe[s]) \in Seq(1..MaxGroups)
          /\ Len(Tail(pipe[s])) = Len(pipe[s]) - 1 /\ Len(pipe[s]) \in Nat
      BY <2>1, <3>1, HeadTailProperties, LenProperties
    <3> DEFINE n == Len(pipe[s])
               m == Len(Tail(pipe[s]))
    <3>3. n \in Nat /\ m = n - 1 /\ n <= QueueDepth /\ QueueDepth \in Nat
      BY <3>1, <3>2, Bounds
    <3> HIDE DEF n, m
    <3>4. m <= QueueDepth
      BY <3>3
    <3>5. Len(Tail(pipe[s])) <= QueueDepth /\ Head(pipe[s]) \in 0..MaxGroups
      BY <3>2, <3>4, Bounds DEF m
    <3>6. QED
      BY <2>1, <3>2, <3>5, TypedParts DEF PipesTyped
  <2>4. \A t \in 1..StreamCount : Quiet(t) => pipe'[t] = <<>> /\ callback'[t] = 0
    BY <2>1, TypedParts DEF Quiet, PipesTyped
  <2>5. /\ QueuesTyped' /\ delivered' \in 0..(StreamCount + 1) /\ groups' \in 0..MaxGroups
        /\ closeRequested' \in BOOLEAN
    BY <2>1, TypedParts DEF QueuesTyped
  <2>6. QED
    BY <2>1, <2>2, <2>3, <2>4, <2>5, ThreadsStay
<1>2. CASE CallbackSends(s)
  <2>1. /\ callback[s] # 0 /\ queue' = Offered(Output(s), callback[s])
        /\ callback' = [callback EXCEPT ![s] = 0] /\ pipe' = pipe
        /\ Aside /\ UNCHANGED threadVars /\ delivered' = delivered
        /\ groups' = groups /\ closeRequested' = closeRequested
    BY <1>2 DEF CallbackSends, Aside
  <2>2. callback[s] \in 1..MaxGroups /\ phase # "start"
    BY <2>1, TypedParts
  <2>3. QueuesTyped'
    BY <2>1, <2>2, NamedParts, TypedParts, OfferedIs
  <2>4. PipesTyped'
    BY <2>1, TypedParts, Bounds DEF PipesTyped
  <2>5. \A t \in 1..StreamCount : Quiet(t) => pipe'[t] = <<>> /\ callback'[t] = 0
    BY <2>1, TypedParts DEF Quiet, PipesTyped
  <2>6. /\ delivered' \in 0..(StreamCount + 1) /\ groups' \in 0..MaxGroups
        /\ closeRequested' \in BOOLEAN
    BY <2>1, TypedParts
  <2>7. QED
    BY <2>1, <2>2, <2>3, <2>4, <2>5, <2>6, ThreadsStay
<1>3. QED
  BY <1>1, <1>2 DEF Callback

LEMMA WrittenInv ==
    ASSUME IInv, NEW p \in Parts, Written(p)
    PROVE  IInv'
<1>1. Ends(p) /\ Aside /\ UNCHANGED <<queue, pipelineVars, groups>>
      /\ delivered' = delivered /\ closeRequested' = closeRequested
  BY DEF Written, Aside
<1>2. QED
  BY <1>1, TypedParts, EndsInv

LEMMA SchedulerInv ==
    ASSUME IInv, SchedulerBegins \/ SchedulerGoesOn
    PROVE  IInv'
<1>1. CASE SchedulerBegins
  <2>1. Begins(Scheduler, 1) /\ Aside
        /\ UNCHANGED <<queue, pipelineVars, groups, delivered, closeRequested>>
    BY <1>1 DEF SchedulerBegins, Aside
  <2>2. 1 \in 1..CameraCount /\ 1 \in Nat \ {0} /\ Scheduler \in Parts \ StageParts
    BY Bounds, NamedParts, Other
  <2>3. QED
    BY <2>1, <2>2, BeginsInv
<1>2. CASE SchedulerGoesOn /\ work[Scheduler] = CameraCount
  <2>1. Ends(Scheduler) /\ Aside /\ UNCHANGED <<queue, pipelineVars, groups>>
        /\ delivered' = delivered /\ closeRequested' = closeRequested
    BY <1>2 DEF SchedulerGoesOn, Aside
  <2>2. QED
    BY <2>1, TypedParts, NamedParts, EndsInv
<1>3. CASE SchedulerGoesOn /\ work[Scheduler] # CameraCount
  <2> DEFINE w == work[Scheduler] + 1
  <2>1. /\ thread[Scheduler] = "busy" /\ thread' = thread
        /\ work' = [work EXCEPT ![Scheduler] = w]
        /\ Aside /\ UNCHANGED <<queue, pipelineVars, groups>>
        /\ delivered' = delivered /\ closeRequested' = closeRequested
    BY <1>3 DEF SchedulerGoesOn, Aside
  <2>2. w \in 1..CameraCount /\ w \in Nat /\ Scheduler \notin StageParts /\ Scheduler \in Parts
    <3>1. work[Scheduler] \in 1..CameraCount
      BY <2>1 DEF IInv, WorkInv
    <3>2. QED
      BY <1>3, <3>1, Bounds, NamedParts, Other
  <2>3. thread' = [thread EXCEPT ![Scheduler] = "busy"]
    BY <2>1, <2>2, TypedParts
  <2>4. delivered' \in 0..(StreamCount + 1) /\ closeRequested' \in BOOLEAN
    BY <2>1, TypedParts
  <2> HIDE DEF w
  <2>5. QED
    BY <2>1, <2>2, <2>3, <2>4, Alone
<1>4. QED
  BY <1>1, <1>2, <1>3

LEMMA CaptureInv ==
    ASSUME IInv, NEW c \in 1..CameraCount, CaptureBegins(c) \/ CaptureDone(c)
    PROVE  IInv'
<1>1. Camera(c) \in Parts \ StageParts /\ Camera(c) # Scheduler
  BY NamedParts, Other
<1>2. CASE CaptureBegins(c)
  <2>1. Begins(Camera(c), c) /\ Aside
        /\ UNCHANGED <<queue, pipelineVars, groups, delivered, closeRequested>>
    BY <1>2 DEF CaptureBegins, Aside
  <2>2. c \in Nat \ {0}
    BY Bounds
  <2>3. QED
    BY <1>1, <2>1, <2>2, BeginsInv
<1>3. CASE CaptureDone(c)
  <2>1. Ends(Camera(c)) /\ Aside /\ UNCHANGED <<queue, pipelineVars, groups>>
        /\ delivered' = delivered /\ closeRequested' = closeRequested
    BY <1>3 DEF CaptureDone, Aside
  <2>2. QED
    BY <1>1, <2>1, TypedParts, EndsInv
<1>4. QED
  BY <1>2, <1>3

LEMMA PreviewInv ==
    ASSUME IInv, PreviewBegins \/ PreviewDone \/ PreviewCloses
    PROVE  IInv'
<1>1. Preview \in Parts \ StageParts /\ Preview # Scheduler
  BY NamedParts, Other
<1>2. CASE PreviewBegins
  <2>1. Begins(Preview, 1) /\ Aside
        /\ UNCHANGED <<queue, pipelineVars, groups, delivered, closeRequested>>
    BY <1>2 DEF PreviewBegins, Aside
  <2>2. 1 \in Nat \ {0}
    OBVIOUS
  <2>3. QED
    BY <1>1, <2>1, <2>2, BeginsInv
<1>3. CASE PreviewDone
  <2>1. Ends(Preview) /\ Aside /\ UNCHANGED <<queue, pipelineVars, groups>>
        /\ delivered' = delivered /\ closeRequested' = closeRequested
    BY <1>3 DEF PreviewDone, Aside
  <2>2. QED
    BY <1>1, <2>1, TypedParts, EndsInv
<1>4. CASE PreviewCloses
  <2>1. /\ thread[Preview] = "busy" /\ thread' = [thread EXCEPT ![Preview] = "ended"]
        /\ work' = [work EXCEPT ![Preview] = 0] /\ closeRequested' = TRUE
        /\ Aside /\ UNCHANGED <<queue, pipelineVars, groups>> /\ delivered' = delivered
    BY <1>4 DEF PreviewCloses, Aside
  <2>2. delivered' \in 0..(StreamCount + 1) /\ closeRequested' \in BOOLEAN
    BY <2>1, TypedParts
  <2>3. QED
    BY <1>1, <2>1, <2>2, Alone
<1>5. QED
  BY <1>2, <1>3, <1>4

LEMMA GoesOnInv ==
    ASSUME IInv, NEW p \in Parts, GoesOn(p)
    PROVE  IInv'
BY TakeInv, ThreadEndsInv, IspInv, EncoderInv, WrittenInv, SchedulerInv, CaptureInv, PreviewInv
   DEF GoesOn
-----------------------------------------------------------------------------
(* The steps of main.                                                       *)

\* What precedes the first step of a plan has been done.
LEMMA FirstStep ==
    ASSUME plan \in Seq(Steps), plan # <<>>, NEW D, Ordered(plan, D), NEW r \in Steps,
           Precedes(r, Head(plan))
    PROVE  r \in D
<1>1. Len(plan) \in Nat \ {0} /\ Head(plan) = plan[1]
  BY EmptySeq
<1>2. 1 \in 1..Len(plan)
  BY <1>1
<1>3. r \in D \/ \E j \in 1..(1 - 1) : plan[j] = r
  BY <1>1, <1>2 DEF Ordered
<1>4. QED
  BY <1>3

LEMMA PartKinds ==
    /\ \A c \in 1..CameraCount : Camera(c) \in PartsOf({"manager"})
    /\ \A s \in 1..StreamCount :
         /\ Encoder(s) \in PartsOf({"output", "encoder", "metadata"})
         /\ Output(s) \in PartsOf({"output", "metadata"})
    /\ PartsOf({"metadata", "encoder"}) \subseteq PartsOf(Stages \cup {"scheduler"})
    /\ PartsOf({"output", "metadata"}) \subseteq PartsOf({"output", "encoder", "metadata"})
    /\ PartsOf({"output", "encoder", "metadata"}) \subseteq Parts
    /\ \A s \in 1..StreamCount : Output(s) \in PartsOf(Stages \cup {"scheduler"})
<1>1. Count("manager") = CameraCount /\ Count("encoder") = StreamCount /\ Count("output") = StreamCount
  BY DEF Count
<1>2. /\ {"manager"} \in SUBSET Objects /\ {"output", "encoder", "metadata"} \in SUBSET Objects
      /\ {"output", "metadata"} \in SUBSET Objects /\ Stages \cup {"scheduler"} \in SUBSET Objects
      /\ {"manager", "encoder", "output"} \subseteq Objects /\ {"output", "encoder", "metadata"} \subseteq Stages
  BY DEF Objects, Stages
<1>3. /\ \A c \in 1..CameraCount : Camera(c) \in PartsOf({"manager"})
      /\ \A s \in 1..StreamCount :
         /\ Encoder(s) \in PartsOf({"output", "encoder", "metadata"})
         /\ Output(s) \in PartsOf({"output", "metadata"})
         /\ Output(s) \in PartsOf(Stages \cup {"scheduler"})
  BY <1>1, <1>2, PartOf DEF Camera, Encoder, Output
<1>4. /\ PartsOf({"metadata", "encoder"}) \subseteq PartsOf(Stages \cup {"scheduler"})
      /\ PartsOf({"output", "metadata"}) \subseteq PartsOf({"output", "encoder", "metadata"})
      /\ PartsOf({"output", "encoder", "metadata"}) \subseteq Parts
  BY <1>2 DEF PartsOf, Parts
<1>5. QED
  BY <1>3, <1>4

LEMMA ThreadStarts ==
    ASSUME IInv, NEW step \in {"start", "thread"}, Does("start", step),
           alive' = alive \cup {Part[1]}, opened \subseteq opened', opened' \subseteq Parts,
           Part \in PartsOf({"output", "encoder", "metadata"}) => Part \in opened',
           thread' = [thread EXCEPT ![Part] = "idle"],
           UNCHANGED <<phase, grabbing, told, work, queue, delivered, pipelineVars, groups,
                       signalVars, closeRequested>>
    PROVE  IInv'
<1>1. /\ phase = "start" /\ plan \in Seq(Steps) /\ plan # <<>> /\ Head(plan) \in Steps
      /\ Head(plan).step = step /\ Head(plan).part = Part /\ Head(plan) = plan[1]
      /\ 1 \in 1..Len(plan) /\ plan' \in Seq(Steps)
  BY DoesIs DEF IInv
<1>2. Part \in Parts /\ Part[1] \in Objects
  <2>1. Part \in Parts
    BY <1>1, StepIs
  <2>2. QED
    BY <2>1, PartFields
<1>3. thread[Part] = "none" /\ told = {}
  BY <1>1 DEF IInv, StartInv
<1>4. /\ \A p \in Parts : thread'[p] = IF p = Part THEN "idle" ELSE thread[p]
      /\ thread' \in [Parts -> {"none", "idle", "busy", "ended"}]
      /\ told' = told /\ grabbing' = grabbing /\ work' = work /\ queue' = queue
      /\ pipe' = pipe /\ callback' = callback /\ phase' = phase
  BY <1>2 DEF IInv, TypeOK, pipelineVars
<1>5. TypeOK'
  BY <1>1, <1>2, <1>4 DEF IInv, TypeOK, signalVars
<1>6. \A p \in Parts : Live(p) => Live(p)'
  BY <1>4 DEF Live, Running
<1>7. /\ \A p \in Parts \ {Part} : Ended(p)' <=> Ended(p)
      /\ \A s \in 1..StreamCount : Encoder(s) # Part => (Quiet(s)' <=> Quiet(s))
  <2>1. \A p \in Parts \ {Part} : Ended(p)' <=> Ended(p)
    BY <1>4 DEF Ended
  <2>2. \A s \in 1..StreamCount : Encoder(s) # Part => (Quiet(s)' <=> Quiet(s))
    BY <1>4, <2>1, NamedParts DEF Quiet
  <2>3. QED
    BY <2>1, <2>2
<1>8. PlanInv' /\ \A k \in 1..Len(plan') :
                /\ plan'[k].step \in {"start", "thread"} => thread'[plan'[k].part] = "none"
                /\ \A j \in 1..(k - 1) : plan'[j] # plan'[k]
  <2>1. step \in {"start", "open", "grab"} => Head(plan) \in Begun'
    <3>1. PICK p \in Parts : p = Part
      BY <1>2
    <3>2. Live(p)'
      BY <1>2, <1>3, <1>4, <3>1 DEF Live, Running
    <3>3. PICK r \in Steps : r = Head(plan)
      BY <1>1
    <3>4. step = "start" => r.step = "start" /\ r.part = p
      BY <1>1, <3>1, <3>3
    <3>5. step = "start" => r \in Begun'
      BY <3>2, <3>4 DEF Begun
    <3>6. QED
      BY <3>3, <3>5
  <2>2. \A p \in Parts : thread'[p] = thread[p] \/ (step \in {"start", "thread"} /\ p = Part)
    BY <1>4
  <2>3. phase' = "start" /\ alive \subseteq alive' /\ grabbing \subseteq grabbing'
    BY <1>1, <1>4
  <2>4. step \in {"thread", "handle", "reset"} \/ step \in {"start", "open", "grab"}
    OBVIOUS
  <2>5. QED
    BY <1>6, <2>1, <2>2, <2>3, <2>4, StartPlan
<1>9. StartInv'
  <2>1. \A p \in StageParts : thread'[p] \in {"none", "idle"} /\ queue'[p] = <<>>
    BY <1>1, <1>4, NamedParts DEF IInv, StartInv
  <2>2. \A s \in 1..StreamCount : pipe'[s] = <<>> /\ callback'[s] = 0
    BY <1>1, <1>4 DEF IInv, StartInv
  <2>3. QED
    BY <1>3, <1>4, <1>8, <2>1, <2>2 DEF StartInv
<1>10. WorkInv'
  <2>1. work[Part] = 0
    BY <1>2, <1>3 DEF IInv, WorkInv
  <2>2. QED
    BY <1>4, <2>1, NamedParts DEF IInv, WorkInv
<1>11. \A r \in Steps : Precedes(r, Head(plan)) => r \in Begun
  BY <1>1, FirstStep DEF IInv, PlanInv
<1>12. UsersInv'
  <2>1. \A p \in Parts : ~Ended(p)' => p[1] \in alive'
    BY <1>7 DEF IInv, UsersInv
  <2>2. \A p \in PartsOf({"output", "metadata"}) : ~Ended(p)' => p \in opened'
    BY <1>7, PartKinds DEF IInv, UsersInv
  <2>3. \A c \in 1..CameraCount : Part = Scheduler \/ Part = Camera(c) => c \in grabbing
    <3> SUFFICES ASSUME NEW c \in 1..CameraCount, Part = Scheduler \/ Part = Camera(c)
                 PROVE  c \in grabbing
      OBVIOUS
    <3> DEFINE r == Do("grab", Camera(c))
    <3>1. r \in Steps /\ r.step = "grab" /\ r.part = Camera(c)
      BY PartKinds DEF Steps, Do
    <3>2. Precedes(r, Head(plan))
      BY <1>1, <3>1 DEF Precedes
    <3>3. r \in Begun
      BY <1>11, <3>1, <3>2
    <3>4. r.part[2] \in grabbing
      BY <3>1, <3>3 DEF Begun
    <3>5. QED
      BY <3>1, <3>4 DEF Camera
  <2>4. \A c \in 1..CameraCount : ~Ended(Camera(c))' \/ ~Ended(Scheduler)' => c \in grabbing'
    BY <1>4, <1>7, <2>3, NamedParts DEF IInv, UsersInv
  <2>5. ~Ended(Preview)' => "manager" \in alive'
    <3>1. CASE Part = Preview
      <4> DEFINE r == Do("open", Camera(1))
      <4>1. 1 \in 1..CameraCount
        BY Bounds
      <4>2. r \in Steps /\ r.step = "open"
        BY <4>1, PartKinds DEF Steps, Do
      <4>3. Precedes(r, Head(plan))
        BY <1>1, <3>1, <4>2 DEF Precedes
      <4>4. r \in Begun
        BY <1>11, <4>2, <4>3
      <4>5. QED
        BY <4>2, <4>4 DEF Begun
    <3>2. CASE Part # Preview
      BY <1>7, <3>2, NamedParts DEF IInv, UsersInv
    <3>3. QED
      BY <3>1, <3>2
  <2>6. ~Ended(Isp)' => \A p \in PartsOf({"metadata", "encoder"}) : Live(p)'
    <3> SUFFICES ASSUME ~Ended(Isp)', NEW p \in PartsOf({"metadata", "encoder"}) PROVE Live(p)'
      OBVIOUS
    <3>1. p \in Parts
      BY DEF PartsOf, Parts, Objects, Stages
    <3>2. CASE Part = Isp
      <4> DEFINE r == Do("start", p)
      <4>1. r \in Steps /\ r.step = "start" /\ r.part = p
        BY PartKinds DEF Steps, Do
      <4>2. Precedes(r, Head(plan))
        BY <1>1, <3>2, <4>1 DEF Precedes
      <4>3. r \in Begun
        BY <1>11, <4>1, <4>2
      <4>4. Live(p)
        BY <4>1, <4>3 DEF Begun
      <4>5. QED
        BY <1>6, <3>1, <4>4
    <3>3. CASE Part # Isp
      <4>1. Live(p)
        BY <1>7, <3>3, NamedParts DEF IInv, UsersInv
      <4>2. QED
        BY <1>6, <3>1, <4>1
    <3>4. QED
      BY <3>2, <3>3
  <2>7. \A s \in 1..StreamCount : ~Quiet(s)' => Live(Output(s))' /\ Encoder(s) \in opened'
    <3> SUFFICES ASSUME NEW s \in 1..StreamCount, ~Quiet(s)'
                 PROVE  Live(Output(s))' /\ Encoder(s) \in opened'
      OBVIOUS
    <3>1. CASE Part = Encoder(s)
      <4> DEFINE r == Do("start", Output(s))
      <4>1. r \in Steps /\ r.step = "start" /\ r.part = Output(s)
        BY PartKinds DEF Steps, Do
      <4>2. Precedes(r, Head(plan))
        BY <1>1, <3>1, <4>1 DEF Precedes
      <4>3. r \in Begun
        BY <1>11, <4>1, <4>2
      <4>4. Live(Output(s))
        BY <4>1, <4>3 DEF Begun
      <4>5. QED
        BY <1>6, <3>1, <4>4, NamedParts, PartKinds
    <3>2. CASE Part # Encoder(s)
      <4>1. Live(Output(s)) /\ Encoder(s) \in opened
        BY <1>7, <3>2 DEF IInv, UsersInv
      <4>2. QED
        BY <1>6, <4>1, NamedParts
    <3>3. QED
      BY <3>1, <3>2
  <2>8. QED
    BY <2>1, <2>2, <2>4, <2>5, <2>6, <2>7 DEF UsersInv
<1>13. QED
  BY <1>5, <1>8, <1>9, <1>10, <1>12 DEF IInv

LEMMA StartPartInv ==
    ASSUME IInv, StartPart \/ StartThread
    PROVE  IInv'
<1>1. CASE StartPart
  <2>1. /\ Does("start", "start") /\ alive' = alive \cup {Part[1]}
        /\ opened' = opened \cup ({Part} \cap PartsOf({"output", "encoder", "metadata"}))
        /\ thread' = [thread EXCEPT ![Part] = "idle"]
        /\ UNCHANGED <<phase, grabbing, told, work, queue, delivered, pipelineVars, groups,
                       signalVars, closeRequested>>
    BY <1>1 DEF StartPart
  <2>2. opened \subseteq opened' /\ opened' \subseteq Parts
        /\ (Part \in PartsOf({"output", "encoder", "metadata"}) => Part \in opened')
    <3>1. opened \subseteq Parts
      BY DEF IInv, TypeOK
    <3>2. QED
      BY <2>1, <3>1, PartKinds
  <2>3. QED
    BY <2>1, <2>2, ThreadStarts
<1>2. CASE StartThread
  <2>1. /\ Does("start", "thread") /\ alive' = alive \cup {Part[1]}
        /\ opened' = opened
        /\ thread' = [thread EXCEPT ![Part] = "idle"]
        /\ UNCHANGED <<phase, grabbing, told, work, queue, delivered, pipelineVars, groups,
                       signalVars, closeRequested>>
    BY <1>2 DEF StartThread, resourceVars
  <2>2. /\ Part \in Parts /\ Part \notin PartsOf({"output", "encoder", "metadata"})
    <3>1. Head(plan) \in Steps /\ Head(plan).step = "thread" /\ Head(plan).part = Part
      BY <2>1, DoesIs DEF IInv
    <3>2. Part \in Parts /\ Part \in PartsOf({"manager", "preview"})
      BY <3>1, StepIs
    <3>3. {"manager", "preview"} \in SUBSET Objects /\ {"output", "encoder", "metadata"} \in SUBSET Objects
      BY DEF Objects, Stages
    <3>4. /\ Part[1] \in {"manager", "preview"}
          /\ (Part \in PartsOf({"output", "encoder", "metadata"}) <=> Part[1] \in {"output", "encoder", "metadata"})
      BY <3>2, <3>3, PartsOfIs
    <3>5. QED
      BY <3>2, <3>4
  <2>3. opened' \subseteq Parts
    BY <2>1 DEF IInv, TypeOK
  <2>4. QED
    BY <2>1, <2>2, <2>3, ThreadStarts
<1>3. QED
  BY <1>1, <1>2

\* Main's other steps that stop nothing: no thread moves.
LEMMA MainMoves ==
    ASSUME IInv, NothingTaken,
           UNCHANGED <<threadVars, told, queue, delivered, pipelineVars, groups, closeRequested>>,
           phase' \in {"start", "loop", "end", "returned", "killed"}, plan' \in Seq(Steps),
           alive' \subseteq Objects, opened' \subseteq Parts, grabbing' \subseteq 1..CameraCount,
           stopRequested' \in 0..1, installed' \subseteq Signals,
           PlanInv', StartInv'
    PROVE  IInv'
<1>1. TypeOK'
  BY DEF IInv, TypeOK, threadVars, pipelineVars
<1>2. UsersInv'
  BY UsersKept DEF IInv
<1>3. WorkInv'
  BY DEF IInv, WorkInv, threadVars
<1>4. QED
  BY <1>1, <1>2, <1>3 DEF IInv

LEMMA StaysTaken ==
    ASSUME UNCHANGED <<threadVars, told, pipelineVars>>,
           alive \subseteq alive', opened \subseteq opened', grabbing \subseteq grabbing'
    PROVE  NothingTaken
<1>1. thread' = thread /\ told' = told /\ pipe' = pipe /\ callback' = callback
  BY DEF threadVars, pipelineVars
<1>2. \A p \in Parts : (Ended(p) => Ended(p)') /\ (Live(p) => Live(p)')
  BY <1>1 DEF Ended, Live, Running
<1>3. \A s \in 1..StreamCount : Quiet(s) => Quiet(s)'
  BY <1>1 DEF Quiet, Ended
<1>4. QED
  BY <1>2, <1>3 DEF NothingTaken

LEMMA StartMoves ==
    ASSUME IInv, NEW step \in {"open", "grab", "handle", "reset"}, Does("start", step),
           UNCHANGED <<phase, threadVars, told, queue, delivered, pipelineVars, groups, closeRequested>>,
           alive \subseteq alive', opened \subseteq opened', grabbing \subseteq grabbing',
           alive' \subseteq Objects, opened' \subseteq Parts, grabbing' \subseteq 1..CameraCount,
           stopRequested' \in 0..1, installed' \subseteq Signals,
           step \in {"open", "grab"} => Head(plan) \in Begun'
    PROVE  IInv'
<1>1. phase = "start" /\ phase' = "start" /\ plan' \in Seq(Steps)
  BY DoesIs DEF IInv
<1>2. NothingTaken
  BY StaysTaken
<1>3. \A p \in Parts : Live(p) => Live(p)'
  BY <1>2 DEF NothingTaken
<1>4. thread' = thread /\ told' = told /\ queue' = queue /\ pipe' = pipe /\ callback' = callback
  BY DEF threadVars, pipelineVars
<1>5. PlanInv' /\ \A k \in 1..Len(plan') :
                /\ plan'[k].step \in {"start", "thread"} => thread'[plan'[k].part] = "none"
                /\ \A j \in 1..(k - 1) : plan'[j] # plan'[k]
  <2>1. \A p \in Parts : thread'[p] = thread[p] \/ (step \in {"start", "thread"} /\ p = Part)
    BY <1>4
  <2>2. step \in {"start", "open", "grab"} => Head(plan) \in Begun'
    OBVIOUS
  <2>3. step \in {"thread", "handle", "reset"} \/ step \in {"start", "open", "grab"}
    OBVIOUS
  <2>4. QED
    BY <1>1, <1>3, <2>1, <2>2, <2>3, StartPlan
<1>6. StartInv'
  <2>1. told = {} /\ (\A p \in StageParts : thread[p] \in {"none", "idle"} /\ queue[p] = <<>>)
        /\ \A s \in 1..StreamCount : pipe[s] = <<>> /\ callback[s] = 0
    BY <1>1 DEF IInv, StartInv
  <2>2. QED
    BY <1>4, <1>5, <2>1 DEF StartInv
<1>7. QED
  BY <1>1, <1>2, <1>5, <1>6, MainMoves

LEMMA OpenGrabInv ==
    ASSUME IInv, OpenCamera \/ GrabCamera
    PROVE  IInv'
<1>1. ASSUME NEW step \in {"open", "grab"}, Does("start", step)
      PROVE  /\ Head(plan) \in Steps /\ Head(plan).step = step /\ Head(plan).part = Part
             /\ Part \in Parts /\ Part[2] \in 1..CameraCount
  <2>1. Head(plan) \in Steps /\ Head(plan).step = step /\ Head(plan).part = Part
    BY <1>1, DoesIs DEF IInv
  <2>2. Part \in Parts /\ Part \in PartsOf({"manager"})
    BY <2>1, StepIs
  <2>3. {"manager"} \in SUBSET Objects /\ Count("manager") = CameraCount
    BY DEF Objects, Count
  <2>4. Part[1] = "manager" /\ Part[2] \in 1..Count(Part[1])
    BY <2>2, <2>3, PartsOfIs, PartFields
  <2>5. QED
    BY <2>1, <2>2, <2>3, <2>4
<1>2. /\ alive \subseteq Objects /\ opened \subseteq Parts /\ grabbing \subseteq 1..CameraCount
      /\ stopRequested \in 0..1 /\ installed \subseteq Signals /\ "manager" \in Objects
  BY DEF IInv, TypeOK, Objects
<1>3. CASE OpenCamera
  <2>1. /\ Does("start", "open") /\ alive' = alive \cup {"manager"} /\ opened' = opened \cup {Part}
        /\ grabbing' = grabbing /\ stopRequested' = stopRequested /\ installed' = installed
        /\ UNCHANGED <<phase, threadVars, told, queue, delivered, pipelineVars, groups, closeRequested>>
    BY <1>3 DEF OpenCamera, signalVars
  <2>2. Head(plan) \in Begun'
    <3>1. PICK r \in Steps : r = Head(plan)
      BY <1>1, <2>1
    <3>2. r.step = "open" /\ "manager" \in alive'
      BY <1>1, <2>1, <3>1
    <3>3. r \in Begun'
      BY <3>2 DEF Begun
    <3>4. QED
      BY <3>1, <3>3
  <2>3. opened' \subseteq Parts /\ alive' \subseteq Objects
    BY <1>1, <1>2, <2>1
  <2>4. QED
    BY <1>2, <2>1, <2>2, <2>3, StartMoves
<1>4. CASE GrabCamera
  <2>1. /\ Does("start", "grab") /\ alive' = alive /\ opened' = opened
        /\ grabbing' = grabbing \cup {Part[2]}
        /\ stopRequested' = stopRequested /\ installed' = installed
        /\ UNCHANGED <<phase, threadVars, told, queue, delivered, pipelineVars, groups, closeRequested>>
    BY <1>4 DEF GrabCamera, signalVars
  <2>2. Head(plan) \in Begun'
    <3>1. PICK r \in Steps : r = Head(plan)
      BY <1>1, <2>1
    <3>2. r.step = "grab" /\ r.part[2] \in grabbing'
      BY <1>1, <2>1, <3>1
    <3>3. r \in Begun'
      BY <3>2 DEF Begun
    <3>4. QED
      BY <3>1, <3>3
  <2>3. grabbing' \subseteq 1..CameraCount
    BY <1>1, <1>2, <2>1
  <2>4. QED
    BY <1>2, <2>1, <2>2, <2>3, StartMoves
<1>5. QED
  BY <1>3, <1>4

LEMMA HandlerInv ==
    ASSUME IInv, InstallHandler \/ ResetFlag
    PROVE  IInv'
<1>1. /\ alive \subseteq Objects /\ opened \subseteq Parts /\ grabbing \subseteq 1..CameraCount
      /\ stopRequested \in 0..1 /\ installed \subseteq Signals
  BY DEF IInv, TypeOK
<1>2. CASE InstallHandler
  <2>1. /\ Does("start", "handle") /\ alive' = alive /\ opened' = opened /\ grabbing' = grabbing
        /\ stopRequested' = stopRequested /\ installed' = installed \cup {Part}
        /\ UNCHANGED <<phase, threadVars, told, queue, delivered, pipelineVars, groups, closeRequested>>
    BY <1>2 DEF InstallHandler, resourceVars
  <2>2. Part \in Signals
    BY <2>1, DoesIs, StepIs DEF IInv
  <2>3. installed' \subseteq Signals
    BY <1>1, <2>1, <2>2
  <2>4. QED
    BY <1>1, <2>1, <2>3, StartMoves
<1>3. CASE ResetFlag
  <2>1. /\ Does("start", "reset") /\ alive' = alive /\ opened' = opened /\ grabbing' = grabbing
        /\ stopRequested' = 0 /\ installed' = installed
        /\ UNCHANGED <<phase, threadVars, told, queue, delivered, pipelineVars, groups, closeRequested>>
    BY <1>3 DEF ResetFlag, resourceVars
  <2>2. stopRequested' \in 0..1
    BY <2>1
  <2>3. QED
    BY <1>1, <2>1, <2>2, StartMoves
<1>4. QED
  BY <1>2, <1>3

\* Main goes from one phase to the next.
LEMMA PhaseInv ==
    ASSUME IInv, EnterLoop \/ LeaveLoop \/ Return
    PROVE  IInv'
<1>1. /\ alive \subseteq Objects /\ opened \subseteq Parts /\ grabbing \subseteq 1..CameraCount
      /\ stopRequested \in 0..1 /\ installed \subseteq Signals /\ plan \in Seq(Steps)
  BY DEF IInv, TypeOK
<1>2. /\ alive' = alive /\ opened' = opened /\ grabbing' = grabbing
      /\ stopRequested' = stopRequested /\ installed' = installed
      /\ UNCHANGED <<threadVars, told, queue, delivered, pipelineVars, groups, closeRequested>>
  BY DEF EnterLoop, LeaveLoop, Return, resourceVars, signalVars
<1>3. NothingTaken
  BY <1>2, StaysTaken
<1>4. /\ phase' \in {"loop", "end", "returned"} /\ plan' \in Seq(Steps)
      /\ PlanInv'
  <2>1. CASE EnterLoop
    <3>1. phase = "start" /\ plan = <<>> /\ phase' = "loop" /\ plan' = plan
      BY <2>1 DEF EnterLoop
    <3>2. Live(Isp)
      <4>1. Len(plan) = 0
        BY <3>1, EmptySeq
      <4>2. QED
        BY <3>1, <4>1 DEF IInv, PlanInv
    <3>3. Live(Isp)'
      BY <1>3, <3>2, NamedParts DEF NothingTaken
    <3>4. QED
      BY <1>1, <3>1, <3>3 DEF PlanInv
  <2>2. CASE LeaveLoop
    <3>1. phase' = "end" /\ plan' = AfterLoop
      BY <2>2 DEF LeaveLoop
    <3>2. AfterLoop \in Seq(Steps) /\ \A D : Ordered(AfterLoop, D)
      BY AfterLoopOrdered
    <3>3. Ordered(plan', Finished')
      BY <3>1, <3>2
    <3>4. QED
      BY <3>1, <3>2, <3>3 DEF PlanInv
  <2>3. CASE Return
    BY <1>1, <2>3 DEF Return, PlanInv
  <2>4. QED
    BY <2>1, <2>2, <2>3
<1>5. StartInv'
  BY <1>4 DEF StartInv
<1>6. QED
  BY <1>1, <1>2, <1>3, <1>4, <1>5, MainMoves

\* A start that fails leaves a plan in order: what was never started has ended.
LEMMA StartFailsInv ==
    ASSUME IInv, StartFails
    PROVE  IInv'
<1> DEFINE O == alive \cup {Part[1]}
           first == IF Part = Scheduler THEN StopOf("manager") ELSE <<>>
<1>1. /\ phase = "start" /\ plan # <<>> /\ Head(plan).step \in {"start", "open", "grab"}
      /\ plan' = first \o Unwind(O) /\ alive' = O /\ phase' = "end"
      /\ UNCHANGED <<resourceVars, threadVars, told, queue, delivered, pipelineVars, groups,
                   signalVars, closeRequested>>
  BY DEF StartFails
<1>2. /\ plan \in Seq(Steps) /\ Head(plan) \in Steps /\ Head(plan) = plan[1] /\ 1 \in 1..Len(plan)
      /\ Head(plan).part = Part /\ Part \in Parts /\ Part[1] \in Objects
  <2>1. plan \in Seq(Steps)
    BY DEF IInv, TypeOK
  <2>2. Head(plan) \in Steps /\ Head(plan) = plan[1] /\ Len(plan) \in Nat \ {0}
    BY <1>1, <2>1, EmptySeq, HeadTailProperties
  <2>3. Part \in Parts
    BY <1>1, <2>2, StepIs DEF Part
  <2>4. QED
    BY <2>1, <2>2, <2>3, PartFields DEF Part
<1>3. \A o \in Objects \ O : Stopped(o) \subseteq Finished
  <2> SUFFICES ASSUME NEW o \in Objects \ O, NEW r \in Stopped(o) PROVE r \in Finished
    OBVIOUS
  <2>1. r \in Steps /\ r.part[1] = o /\ r.step \in {"join", "release"}
    BY DEF Stopped
  <2>2. r.part \in Parts
    BY <2>1, StepIs
  <2>3. Ended(r.part)
    BY <2>1, <2>2 DEF IInv, UsersInv
  <2>4. \A s \in 1..StreamCount : pipe[s] = <<>> /\ callback[s] = 0
    BY <1>1 DEF IInv, StartInv
  <2>5. QED
    BY <2>1, <2>3, <2>4 DEF Finished, Quiet
<1>4. ASSUME Part = Scheduler
      PROVE  Stopped("scheduler") \subseteq Finished
  <2>1. Head(plan).step = "start"
    <3>1. Head(plan).step \in {"open", "grab"} => Part \in PartsOf({"manager"})
      BY <1>2, StepIs
    <3>2. {"manager"} \in SUBSET Objects
      BY DEF Objects
    <3>3. Part \in PartsOf({"manager"}) => Part[1] = "manager"
      BY <1>2, <3>2, PartsOfIs
    <3>4. Part[1] = "scheduler"
      BY <1>4 DEF Scheduler
    <3>5. QED
      BY <1>1, <3>1, <3>3, <3>4
  <2>2. Ended(Scheduler)
    BY <1>1, <1>2, <1>4, <2>1 DEF IInv, StartInv, Ended
  <2>3. ASSUME NEW r \in Stopped("scheduler") PROVE r \in Finished
    <3>1. "scheduler" \in Objects /\ Count("scheduler") = 1
      BY DEF Objects, Count
    <3>2. PICK i \in 1..1 : r \in {Do("join", <<"scheduler", i>>), Do("release", <<"scheduler", i>>)}
      BY <3>1, StoppedParts
    <3>3. r \in {Do("join", Scheduler), Do("release", Scheduler)}
      BY <3>2 DEF Scheduler
    <3>4. r \in Steps /\ r.step \in {"join", "release"} /\ r.part = Scheduler
      BY <3>3, DoFields DEF Stopped
    <3>5. \A s \in 1..StreamCount : Scheduler # Encoder(s)
      BY DEF Scheduler, Encoder
    <3>6. QED
      BY <2>2, <3>4, <3>5 DEF Finished
  <2>4. QED
    BY <2>3
<1>5. first \in Seq(Steps) /\ Ordered(first, Finished)
  <2>1. CASE Part = Scheduler
    <3>1. "manager" \in Objects /\ \A x \in Before("manager") \ {"preview"} : x = "scheduler"
      BY BeforeIs DEF Objects
    <3>2. StopOf("manager") \in Seq(Steps) /\ Ordered(StopOf("manager"), Finished)
      BY <1>4, <2>1, <3>1, StopOrdered
    <3>3. QED
      BY <2>1, <3>2
  <2>2. CASE Part # Scheduler
    BY <2>2, EmptySeq DEF Ordered
  <2>3. QED
    BY <2>1, <2>2
<1>6. Unwind(O) \in Seq(Steps) /\ Ordered(Unwind(O), Finished \cup Has(first))
  <2> HIDE DEF O, first
  <2>1. \A o \in Objects \ O : Stopped(o) \subseteq Finished \cup Has(first)
    BY <1>3
  <2>2. QED
    BY <2>1, UnwindOrdered
<1> HIDE DEF first
<1>7. plan' \in Seq(Steps) /\ Ordered(plan', Finished)
  BY <1>1, <1>5, <1>6, OrderedConcat, ConcatProperties
<1>8. NothingTaken
  BY <1>1, StaysTaken DEF resourceVars
<1>9. Finished \subseteq Finished'
  BY <1>8, FinishedGrows DEF NothingTaken
<1>10. PlanInv' /\ StartInv'
  <2>1. Ordered(plan', Finished')
    BY <1>7, <1>9, OrderedMore
  <2>2. QED
    BY <1>1, <2>1 DEF PlanInv, StartInv
<1>11. /\ alive' \subseteq Objects /\ opened' \subseteq Parts /\ grabbing' \subseteq 1..CameraCount
       /\ stopRequested' \in 0..1 /\ installed' \subseteq Signals
  BY <1>1, <1>2 DEF IInv, TypeOK, resourceVars, signalVars
<1>12. QED
  BY <1>1, <1>7, <1>8, <1>10, <1>11, MainMoves

\* Without a rate to select at, the objects constructed are destroyed.
LEMMA SelectorThrowsInv ==
    ASSUME IInv, SelectorThrows
    PROVE  IInv'
<1>1. /\ phase = "start" /\ plan = <<>> /\ phase' = "end" /\ plan' = Unwind(alive) /\ alive' = alive
      /\ UNCHANGED <<resourceVars, threadVars, told, queue, delivered, pipelineVars, groups,
                   signalVars, closeRequested>>
  BY DEF SelectorThrows
<1>2. \A o \in Objects \ alive : Stopped(o) \subseteq Finished
  <2> SUFFICES ASSUME NEW o \in Objects \ alive, NEW r \in Stopped(o) PROVE r \in Finished
    OBVIOUS
  <2>1. r \in Steps /\ r.part[1] = o /\ r.step \in {"join", "release"}
    BY DEF Stopped
  <2>2. r.part \in Parts
    BY <2>1, StepIs
  <2>3. Ended(r.part)
    BY <2>1, <2>2 DEF IInv, UsersInv
  <2>4. \A s \in 1..StreamCount : pipe[s] = <<>> /\ callback[s] = 0
    BY <1>1 DEF IInv, StartInv
  <2>5. QED
    BY <2>1, <2>3, <2>4 DEF Finished, Quiet
<1>3. plan' \in Seq(Steps) /\ Ordered(plan', Finished)
  BY <1>1, <1>2, UnwindOrdered
<1>4. NothingTaken
  BY <1>1, StaysTaken DEF resourceVars
<1>5. Finished \subseteq Finished'
  BY <1>4, FinishedGrows DEF NothingTaken
<1>6. PlanInv' /\ StartInv'
  <2>1. Ordered(plan', Finished')
    BY <1>3, <1>5, OrderedMore
  <2>2. QED
    BY <1>1, <2>1 DEF PlanInv, StartInv
<1>7. /\ alive' \subseteq Objects /\ opened' \subseteq Parts /\ grabbing' \subseteq 1..CameraCount
      /\ stopRequested' \in 0..1 /\ installed' \subseteq Signals
  BY <1>1 DEF IInv, TypeOK, resourceVars, signalVars
<1>8. QED
  BY <1>1, <1>3, <1>4, <1>6, <1>7, MainMoves

LEMMA SubmitInv ==
    ASSUME IInv, SubmitGroup
    PROVE  IInv'
<1>1. /\ phase = "loop" /\ groups < MaxGroups /\ groups' = groups + 1
      /\ queue' = Offered(Isp, groups + 1) /\ delivered' = delivered
      /\ pipe' = pipe /\ callback' = callback /\ closeRequested' = closeRequested
      /\ Aside /\ UNCHANGED threadVars
  BY DEF SubmitGroup, Aside, pipelineVars
<1>2. groups + 1 \in 1..MaxGroups
  BY <1>1, TypedParts, Bounds
<1>3. QueuesTyped'
  BY <1>1, <1>2, TypedParts, NamedParts, OfferedIs
<1>4. /\ PipesTyped' /\ delivered' \in 0..(StreamCount + 1) /\ groups' \in 0..MaxGroups
      /\ closeRequested' \in BOOLEAN
  BY <1>1, <1>2, TypedParts DEF PipesTyped
<1>5. \A s \in 1..StreamCount : Quiet(s) => pipe'[s] = <<>> /\ callback'[s] = 0
  BY <1>1 DEF Quiet
<1>6. QED
  BY <1>1, <1>3, <1>4, <1>5, ThreadsStay

LEMMA SignalInv ==
    ASSUME IInv, NEW sig \in Signals, Signal(sig)
    PROVE  IInv'
<1>1. /\ alive' = alive /\ opened' = opened /\ grabbing' = grabbing /\ installed' = installed
      /\ plan' = plan
      /\ UNCHANGED <<threadVars, told, queue, delivered, pipelineVars, groups, closeRequested>>
  BY DEF Signal, resourceVars
<1>2. NothingTaken
  BY <1>1, StaysTaken
<1>3. /\ alive' \subseteq Objects /\ opened' \subseteq Parts /\ grabbing' \subseteq 1..CameraCount
      /\ installed' \subseteq Signals /\ plan' \in Seq(Steps)
  BY <1>1 DEF IInv, TypeOK
<1>4. CASE phase' = phase /\ stopRequested' = 1
  <2>1. PlanInv'
    BY <1>1, <1>2, <1>4, PlanKept
  <2>2. StartInv'
    BY <1>1, <1>4 DEF IInv, StartInv, threadVars, pipelineVars
  <2>3. phase' \in {"start", "loop", "end", "returned", "killed"} /\ stopRequested' \in 0..1
    BY <1>4 DEF IInv, TypeOK
  <2>4. QED
    BY <1>1, <1>2, <1>3, <2>1, <2>2, <2>3, MainMoves
<1>5. CASE phase' = "killed" /\ stopRequested' = stopRequested
  <2>1. PlanInv' /\ StartInv'
    BY <1>5 DEF PlanInv, StartInv
  <2>2. phase' \in {"start", "loop", "end", "returned", "killed"} /\ stopRequested' \in 0..1
    BY <1>5 DEF IInv, TypeOK
  <2>3. QED
    BY <1>1, <1>2, <1>3, <2>1, <2>2, MainMoves
<1>6. QED
  BY <1>4, <1>5 DEF Signal

\* What main has done before the next step of a stop.
LEMMA DoneBefore ==
    ASSUME IInv, NEW step, Does("end", step)
    PROVE  /\ phase = "end" /\ plan' \in Seq(Steps)
           /\ Head(plan) \in Steps /\ Head(plan) = Do(step, Part)
           /\ Head(plan).step = step /\ Head(plan).part = Part
           /\ \A r \in Steps : Precedes(r, Do(step, Part)) => r \in Finished
<1>1. /\ phase = "end" /\ plan \in Seq(Steps) /\ plan # <<>> /\ plan' \in Seq(Steps)
      /\ Head(plan) \in Steps /\ Head(plan) = Do(step, Part)
      /\ Head(plan).step = step /\ Head(plan).part = Part
  BY DoesIs DEF IInv
<1>2. Ordered(plan, Finished)
  BY <1>1 DEF IInv, PlanInv
<1>3. \A r \in Steps : Precedes(r, Head(plan)) => r \in Finished
  BY <1>1, <1>2, FirstStep
<1>4. QED
  BY <1>1, <1>3

LEMMA FinishedIs ==
    ASSUME NEW r \in Finished
    PROVE  /\ Ended(r.part)
           /\ \A s \in 1..StreamCount : r = Do("release", Encoder(s)) => Quiet(s)
BY DoFields DEF Finished

LEMMA JoinInv ==
    ASSUME IInv, Join
    PROVE  IInv'
<1>1. /\ Does("end", "join") /\ Ended(Part) /\ phase' = phase
      /\ alive' = alive /\ opened' = opened /\ grabbing' = grabbing
      /\ stopRequested' = stopRequested /\ installed' = installed
      /\ UNCHANGED <<threadVars, told, queue, delivered, pipelineVars, groups, closeRequested>>
  BY DEF Join, resourceVars, signalVars, Ended
<1>2. /\ phase = "end" /\ plan' \in Seq(Steps) /\ Head(plan) \in Steps
      /\ Head(plan).step = "join" /\ Head(plan).part = Part
  BY <1>1, DoneBefore
<1>3. NothingTaken
  BY <1>1, StaysTaken
<1>4. Finished \subseteq Finished'
  BY <1>3, FinishedGrows DEF NothingTaken
<1>5. Head(plan) \in Finished
  BY <1>1, <1>2 DEF Finished
<1>6. PlanInv' /\ StartInv'
  BY <1>1, <1>2, <1>4, <1>5, EndPlan
<1>7. /\ alive' \subseteq Objects /\ opened' \subseteq Parts /\ grabbing' \subseteq 1..CameraCount
      /\ stopRequested' \in 0..1 /\ installed' \subseteq Signals /\ phase' = "end"
  BY <1>1, <1>2 DEF IInv, TypeOK
<1>8. QED
  BY <1>1, <1>2, <1>3, <1>6, <1>7, MainMoves

\* A part is told to stop only when nothing is on its way to it any more.
LEMMA TellInv ==
    ASSUME IInv, Tell
    PROVE  IInv'
<1>1. /\ Does("end", "tell") /\ told' = told \cup {Part} /\ phase' = phase
      /\ alive' = alive /\ opened' = opened /\ grabbing' = grabbing
      /\ thread' = thread /\ work' = work /\ queue' = queue /\ pipe' = pipe /\ callback' = callback
      /\ UNCHANGED <<delivered, groups, signalVars, closeRequested>>
  BY DEF Tell, resourceVars, threadVars, pipelineVars
<1>2. /\ phase = "end" /\ plan' \in Seq(Steps) /\ Head(plan) \in Steps /\ Head(plan).step = "tell"
      /\ Head(plan).part = Part
      /\ \A r \in Steps : Precedes(r, Do("tell", Part)) => r \in Finished
  BY <1>1, DoneBefore
<1>3. Part \in Parts
  BY <1>2, StepIs
<1>4. TypeOK'
  BY <1>1, <1>2, <1>3 DEF IInv, TypeOK, signalVars
<1>5. (\A p : Ended(p)' <=> Ended(p)) /\ \A s : Quiet(s)' <=> Quiet(s)
  BY <1>1 DEF Ended, Quiet
<1>6. PlanInv' /\ StartInv'
  <2>1. Finished \subseteq Finished'
    BY <1>5, FinishedGrows
  <2>2. QED
    BY <1>1, <1>2, <2>1, EndPlan
<1>7. WorkInv'
  BY <1>1 DEF IInv, WorkInv
<1>8. \A p \in Parts : Live(p) /\ p # Part => Live(p)'
  BY <1>1 DEF Live, Running
<1>9. UsersInv'
  <2>1. ~Ended(Isp)' => \A p \in PartsOf({"metadata", "encoder"}) : Live(p)'
    <3> SUFFICES ASSUME ~Ended(Isp), NEW p \in PartsOf({"metadata", "encoder"}) PROVE Live(p)'
      BY <1>5
    <3>1. p \in Parts /\ p[1] \in {"metadata", "encoder"}
      <4>1. {"metadata", "encoder"} \in SUBSET Objects
        BY DEF Objects, Stages
      <4>2. p \in Parts
        BY <4>1 DEF PartsOf, Parts
      <4>3. QED
        BY <4>1, <4>2, PartsOfIs
    <3>2. p # Part
      <4> SUFFICES ASSUME p = Part PROVE FALSE
        OBVIOUS
      <4>1. Do("join", Isp) \in Steps
        BY NamedParts, StopSteps
      <4>2. Precedes(Do("join", Isp), Do("tell", Part))
        BY <3>1, DoFields DEF Precedes
      <4>3. Ended(Do("join", Isp).part)
        BY <1>2, <4>1, <4>2, FinishedIs
      <4>4. QED
        BY <4>3, DoFields
    <3>3. QED
      BY <1>8, <3>1, <3>2 DEF IInv, UsersInv
  <2>2. \A s \in 1..StreamCount : ~Quiet(s)' => Live(Output(s))' /\ Encoder(s) \in opened'
    <3> SUFFICES ASSUME NEW s \in 1..StreamCount, ~Quiet(s)
                 PROVE  Live(Output(s))' /\ Encoder(s) \in opened'
      BY <1>5
    <3>1. Output(s) # Part
      <4> SUFFICES ASSUME Output(s) = Part PROVE FALSE
        OBVIOUS
      <4> DEFINE r == Do("release", Encoder(s))
      <4>1. r \in Steps
        BY NamedParts, StopSteps
      <4>2. Precedes(r, Do("tell", Part))
        <5>1. Output(s)[1] = "output"
          BY DEF Output
        <5>2. QED
          BY <5>1, DoFields DEF Precedes
      <4>3. QED
        BY <1>2, <4>1, <4>2, FinishedIs
    <3>2. Live(Output(s)) /\ Encoder(s) \in opened
      BY DEF IInv, UsersInv
    <3>3. QED
      BY <1>1, <1>8, <3>1, <3>2, NamedParts
  <2>3. QED
    BY <1>1, <1>5, <2>1, <2>2 DEF IInv, UsersInv
<1>10. QED
  BY <1>4, <1>6, <1>7, <1>9 DEF IInv

\* What a part has open is closed only when its thread, and whoever else uses it,
\* has ended.
LEMMA ReleaseInv ==
    ASSUME IInv, Release
    PROVE  IInv'
<1>1. /\ Does("end", "release") /\ phase' = phase
      /\ \A s \in 1..StreamCount : Part = Encoder(s) => callback[s] = 0
      /\ opened' = opened \ {Part}
      /\ grabbing' = {c \in grabbing : Camera(c) # Part}
      /\ pipe' = [s \in 1..StreamCount |-> IF Part = Encoder(s) THEN <<>> ELSE pipe[s]]
      /\ alive' = alive /\ thread' = thread /\ work' = work /\ told' = told /\ queue' = queue
      /\ callback' = callback
      /\ UNCHANGED <<delivered, groups, signalVars, closeRequested>>
  BY DEF Release, threadVars
<1>2. /\ phase = "end" /\ plan' \in Seq(Steps) /\ Head(plan) \in Steps
      /\ Head(plan) = Do("release", Part) /\ Head(plan).step = "release" /\ Head(plan).part = Part
      /\ \A r \in Steps : Precedes(r, Do("release", Part)) => r \in Finished
  BY <1>1, DoneBefore
<1>3. Part \in Parts
  BY <1>2, StepIs
<1>4. Ended(Part)
  <2>1. Do("join", Part) \in Steps
    BY <1>3, StopSteps
  <2>2. Precedes(Do("join", Part), Do("release", Part))
    BY DoFields DEF Precedes
  <2>3. Ended(Do("join", Part).part)
    BY <1>2, <2>1, <2>2, FinishedIs
  <2>4. QED
    BY <2>3, DoFields
<1>5. Part[1] = "manager" => Ended(Scheduler)
  <2> SUFFICES ASSUME Part[1] = "manager" PROVE Ended(Scheduler)
    OBVIOUS
  <2>1. Do("join", Scheduler) \in Steps
    BY NamedParts, StopSteps
  <2>2. Precedes(Do("join", Scheduler), Do("release", Part))
    BY DoFields DEF Precedes
  <2>3. Ended(Do("join", Scheduler).part)
    BY <1>2, <2>1, <2>2, FinishedIs
  <2>4. QED
    BY <2>3, DoFields
<1>6. PipesTyped'
  <2>1. <<>> \in Seq(1..MaxGroups) /\ Len(<<>>) = 0 /\ 0 <= QueueDepth
    BY EmptySeq, Bounds
  <2>2. \A s \in 1..StreamCount : pipe'[s] = <<>> \/ pipe'[s] = pipe[s]
    BY <1>1
  <2>3. \A s \in 1..StreamCount : pipe'[s] \in Seq(1..MaxGroups) /\ Len(pipe'[s]) <= QueueDepth
    BY <2>1, <2>2, TypedParts DEF PipesTyped
  <2>4. pipe' \in [1..StreamCount -> Seq(1..MaxGroups)]
    BY <1>1, <2>1, TypedParts DEF PipesTyped
  <2>5. QED
    BY <1>1, <2>3, <2>4, TypedParts DEF PipesTyped
<1>7. TypeOK'
  BY <1>1, <1>2, <1>6 DEF IInv, TypeOK, PipesTyped, signalVars
<1>8. /\ \A p : Ended(p)' <=> Ended(p)
      /\ \A p : Live(p)' <=> Live(p)
  BY <1>1 DEF Ended, Live, Running
<1>9. \A s \in 1..StreamCount : (Quiet(s) => Quiet(s)') /\ (Part = Encoder(s) => Quiet(s)')
  <2> SUFFICES ASSUME NEW s \in 1..StreamCount
               PROVE  (Quiet(s) => Quiet(s)') /\ (Part = Encoder(s) => Quiet(s)')
    OBVIOUS
  <2>1. pipe'[s] = (IF Part = Encoder(s) THEN <<>> ELSE pipe[s]) /\ callback'[s] = callback[s]
    BY <1>1
  <2>2. QED
    BY <1>1, <1>4, <1>8, <2>1 DEF Quiet
<1>10. PlanInv' /\ StartInv'
  <2>1. Finished \subseteq Finished'
    BY <1>8, <1>9, FinishedGrows
  <2>2. Head(plan) \in Finished'
    <3>1. PICK r \in Steps : r = Head(plan)
      BY <1>2
    <3>2. r.step = "release" /\ r.part = Part
      BY <1>2, <3>1
    <3>3. Ended(r.part)' /\ \A s \in 1..StreamCount : r.part = Encoder(s) => Quiet(s)'
      BY <1>4, <1>8, <1>9, <3>2
    <3>4. r \in Finished'
      BY <3>2, <3>3 DEF Finished
    <3>5. QED
      BY <3>1, <3>4
  <2>3. QED
    BY <1>1, <1>2, <2>1, <2>2, EndPlan
<1>11. WorkInv'
  BY <1>1 DEF IInv, WorkInv
<1>12. UsersInv'
  <2>1. \A p \in PartsOf({"output", "metadata"}) : ~Ended(p)' => p \in opened'
    BY <1>1, <1>4, <1>8 DEF IInv, UsersInv
  <2>2. \A c \in 1..CameraCount : ~Ended(Camera(c))' \/ ~Ended(Scheduler)' => c \in grabbing'
    <3> SUFFICES ASSUME NEW c \in 1..CameraCount, ~Ended(Camera(c)) \/ ~Ended(Scheduler)
                 PROVE  c \in grabbing'
      BY <1>8
    <3>1. c \in grabbing
      BY DEF IInv, UsersInv
    <3>2. Camera(c)[1] = "manager"
      BY DEF Camera
    <3>3. Camera(c) # Part
      BY <1>4, <1>5, <3>2
    <3>4. QED
      BY <1>1, <3>1, <3>3
  <2>3. \A s \in 1..StreamCount : ~Quiet(s)' => Live(Output(s))' /\ Encoder(s) \in opened'
    BY <1>1, <1>8, <1>9 DEF IInv, UsersInv
  <2>4. QED
    BY <1>1, <1>8, <2>1, <2>2, <2>3 DEF IInv, UsersInv
<1>13. QED
  BY <1>7, <1>10, <1>11, <1>12 DEF IInv

\* An object is destroyed only when its threads, and those that use it, have ended.
LEMMA DestroyInv ==
    ASSUME IInv, Destroy
    PROVE  IInv'
<1> DEFINE o == Part[1]
<1>1. /\ Does("end", "destroy") /\ phase' = phase /\ alive' = alive \ {o}
      /\ opened' = opened /\ grabbing' = grabbing /\ told' = told
      /\ thread' = thread /\ work' = work /\ queue' = queue /\ pipe' = pipe /\ callback' = callback
      /\ UNCHANGED <<delivered, groups, signalVars, closeRequested>>
  BY DEF Destroy, resourceVars, threadVars, pipelineVars
<1>2. /\ phase = "end" /\ plan' \in Seq(Steps) /\ Head(plan) \in Steps /\ Head(plan).step = "destroy"
      /\ Head(plan).part = Part
      /\ \A r \in Steps : Precedes(r, Do("destroy", Part)) => r \in Finished
  BY <1>1, DoneBefore
<1>3. Part \in Parts
  BY <1>2, StepIs
<1> HIDE DEF o
<1>4. /\ \A p \in Parts : p[1] = o \/ (p = Preview /\ o = "manager")
                          \/ (p = Isp /\ o \in {"metadata", "encoder"}) => Ended(p)
  <2> SUFFICES ASSUME NEW p \in Parts,
                      p[1] = o \/ (p = Preview /\ o = "manager")
                      \/ (p = Isp /\ o \in {"metadata", "encoder"})
               PROVE  Ended(p)
    OBVIOUS
  <2>1. Do("join", p) \in Steps
    BY StopSteps
  <2>2. Precedes(Do("join", p), Do("destroy", Part))
    BY DoFields DEF Precedes, o
  <2>3. Ended(Do("join", p).part)
    BY <1>2, <2>1, <2>2, FinishedIs
  <2>4. QED
    BY <2>3, DoFields
<1>5. o = "output" => \A s \in 1..StreamCount : Quiet(s)
  <2> SUFFICES ASSUME o = "output", NEW s \in 1..StreamCount PROVE Quiet(s)
    OBVIOUS
  <2> DEFINE r == Do("release", Encoder(s))
  <2>1. r \in Steps
    BY NamedParts, StopSteps
  <2>2. Precedes(r, Do("destroy", Part))
    BY DoFields DEF Precedes, o
  <2>3. QED
    BY <1>2, <2>1, <2>2, FinishedIs
<1>6. TypeOK'
  BY <1>1, <1>2 DEF IInv, TypeOK, signalVars
<1>7. (\A p : Ended(p)' <=> Ended(p)) /\ \A s : Quiet(s)' <=> Quiet(s)
  BY <1>1 DEF Ended, Quiet
<1>8. PlanInv' /\ StartInv'
  <2>1. Finished \subseteq Finished'
    BY <1>7, FinishedGrows
  <2>2. QED
    BY <1>1, <1>2, <2>1, EndPlan
<1>9. WorkInv'
  BY <1>1 DEF IInv, WorkInv
<1>10. \A p : Live(p) /\ p[1] # o => Live(p)'
  BY <1>1 DEF Live, Running
<1>11. UsersInv'
  <2>1. \A p \in Parts : ~Ended(p)' => p[1] \in alive'
    BY <1>1, <1>4, <1>7 DEF IInv, UsersInv
  <2>2. ~Ended(Preview)' => "manager" \in alive'
    BY <1>1, <1>4, <1>7, NamedParts DEF IInv, UsersInv
  <2>3. ~Ended(Isp)' => \A p \in PartsOf({"metadata", "encoder"}) : Live(p)'
    <3> SUFFICES ASSUME ~Ended(Isp), NEW p \in PartsOf({"metadata", "encoder"}) PROVE Live(p)'
      BY <1>7
    <3>1. p[1] \in {"metadata", "encoder"}
      <4>1. {"metadata", "encoder"} \in SUBSET Objects
        BY DEF Objects, Stages
      <4>2. p \in Parts
        BY <4>1 DEF PartsOf, Parts
      <4>3. QED
        BY <4>1, <4>2, PartsOfIs
    <3>2. o \notin {"metadata", "encoder"}
      BY <1>4, NamedParts
    <3>3. Live(p)
      BY DEF IInv, UsersInv
    <3>4. QED
      BY <1>10, <3>1, <3>2, <3>3
  <2>4. \A s \in 1..StreamCount : ~Quiet(s)' => Live(Output(s))' /\ Encoder(s) \in opened'
    <3> SUFFICES ASSUME NEW s \in 1..StreamCount, ~Quiet(s)
                 PROVE  Live(Output(s))' /\ Encoder(s) \in opened'
      BY <1>7
    <3>1. Output(s)[1] = "output" /\ o # "output"
      BY <1>5 DEF Output
    <3>2. Live(Output(s)) /\ Encoder(s) \in opened
      BY DEF IInv, UsersInv
    <3>3. QED
      BY <1>1, <1>10, <3>1, <3>2
  <2>5. QED
    BY <1>1, <1>7, <2>1, <2>2, <2>3, <2>4 DEF IInv, UsersInv
<1>12. QED
  BY <1>6, <1>8, <1>9, <1>11 DEF IInv
-----------------------------------------------------------------------------
(* The theorems.                                                            *)

LEMMA NextInv ==
    ASSUME IInv, Next
    PROVE  IInv'
<1>1. CASE Starting
  BY <1>1, StartPartInv, OpenGrabInv, HandlerInv, PhaseInv DEF Starting
<1>2. CASE StartFails \/ SelectorThrows
  BY <1>2, StartFailsInv, SelectorThrowsInv
<1>3. CASE SubmitGroup
  BY <1>3, SubmitInv
<1>4. CASE LeaveLoop
  BY <1>4, PhaseInv
<1>5. CASE Ending
  BY <1>5, TellInv, JoinInv, ReleaseInv, DestroyInv, PhaseInv DEF Ending
<1>6. CASE \E sig \in Signals : Signal(sig)
  BY <1>6, SignalInv
<1>7. CASE \E p \in Parts : GoesOn(p)
  BY <1>7, GoesOnInv
<1>8. CASE \E s \in 1..StreamCount : Callback(s)
  BY <1>8, CallbackInv
<1>9. CASE SchedulerBegins
  BY <1>9, SchedulerInv
<1>10. CASE PreviewBegins \/ PreviewCloses
  BY <1>10, PreviewInv
<1>11. CASE \E c \in 1..CameraCount : CaptureBegins(c)
  BY <1>11, CaptureInv
<1>12. QED
  BY <1>1, <1>2, <1>3, <1>4, <1>5, <1>6, <1>7, <1>8, <1>9, <1>10, <1>11 DEF Next

LEMMA StutterInv ==
    ASSUME IInv, UNCHANGED vars
    PROVE  IInv'
<1>1. /\ Aside /\ UNCHANGED threadVars /\ queue' = queue /\ pipe' = pipe /\ callback' = callback
      /\ delivered' = delivered /\ groups' = groups /\ closeRequested' = closeRequested
  BY DEF vars, Aside, pipelineVars
<1>2. QueuesTyped' /\ PipesTyped'
  BY <1>1, TypedParts DEF QueuesTyped, PipesTyped
<1>3. \A s \in 1..StreamCount : Quiet(s) => pipe'[s] = <<>> /\ callback'[s] = 0
  BY <1>1 DEF Quiet
<1>4. delivered' \in 0..(StreamCount + 1) /\ groups' \in 0..MaxGroups /\ closeRequested' \in BOOLEAN
  BY <1>1, TypedParts
<1>5. UNCHANGED <<queue, pipelineVars>>
  BY DEF vars
<1>6. QED
  BY <1>1, <1>2, <1>3, <1>4, <1>5, ThreadsStay

LEMMA Invariant ==
    Spec => []IInv
<1>1. Init => IInv
  BY InitInv
<1>2. IInv /\ [Next]_vars => IInv'
  BY NextInv, StutterInv
<1>3. QED
  BY <1>1, <1>2, PTL DEF Spec

\* Every variable has its type: in particular the plans consist of steps on parts
\* there are, and no queue outgrows its depth.
THEOREM TypeCorrect == Spec => []TypeOK
<1>1. IInv => TypeOK
  BY DEF IInv
<1>2. QED
  BY <1>1, Invariant, PTL

\* For any number of cameras and streams, whatever start fails and whenever main
\* stops: no thread is in a part that is closed or destroyed.
THEOREM PartsSafe == Spec => []PartsOutliveTheirUsers
<1>1. IInv => PartsOutliveTheirUsers
  <2> SUFFICES ASSUME IInv PROVE PartsOutliveTheirUsers
    OBVIOUS
  <2>1. \A p \in Parts : thread[p] = "busy" => ~Ended(p)
    BY DEF Ended
  <2>2. \A c \in 1..CameraCount :
           thread[Camera(c)] = "busy" \/ work[Scheduler] = c => c \in grabbing
    <3> SUFFICES ASSUME NEW c \in 1..CameraCount,
                        thread[Camera(c)] = "busy" \/ work[Scheduler] = c
                 PROVE  c \in grabbing
      OBVIOUS
    <3>1. work[Scheduler] = c => thread[Scheduler] = "busy"
      BY NamedParts, Bounds DEF IInv, WorkInv
    <3>2. QED
      BY <2>1, <3>1, NamedParts DEF IInv, UsersInv
  <2>3. thread[Preview] = "busy" => "manager" \in alive
    BY <2>1, NamedParts DEF IInv, UsersInv
  <2>4. thread[Isp] = "busy" => {"metadata", "encoder"} \subseteq alive
    <3> SUFFICES ASSUME thread[Isp] = "busy" PROVE {"metadata", "encoder"} \subseteq alive
      OBVIOUS
    <3>1. \A p \in PartsOf({"metadata", "encoder"}) : Live(p)
      BY <2>1, NamedParts DEF IInv, UsersInv
    <3>2. /\ Metadata \in PartsOf({"metadata", "encoder"}) /\ Encoder(1) \in PartsOf({"metadata", "encoder"})
      <4>1. {"metadata", "encoder"} \in SUBSET Objects /\ 1 \in 1..Count("metadata") /\ 1 \in 1..Count("encoder")
            /\ "metadata" \in Objects /\ "encoder" \in Objects
        BY Counts DEF Objects, Stages
      <4>2. QED
        BY <4>1, PartOf DEF Metadata, Encoder
    <3>3. Metadata[1] = "metadata" /\ Encoder(1)[1] = "encoder"
      BY DEF Metadata, Encoder
    <3>4. QED
      BY <3>1, <3>2, <3>3 DEF Live
  <2>5. \A s \in 1..StreamCount : callback[s] # 0 => "output" \in alive /\ Encoder(s) \in opened
    <3> SUFFICES ASSUME NEW s \in 1..StreamCount, callback[s] # 0
                 PROVE  "output" \in alive /\ Encoder(s) \in opened
      OBVIOUS
    <3>1. Live(Output(s)) /\ Encoder(s) \in opened
      BY DEF IInv, UsersInv, Quiet
    <3>2. QED
      BY <3>1 DEF Live, Output
  <2>6. \A p \in PartsOf({"output", "encoder", "metadata"}) : thread[p] = "busy" => p \in opened
    <3> SUFFICES ASSUME NEW p \in PartsOf({"output", "encoder", "metadata"}), thread[p] = "busy"
                 PROVE  p \in opened
      OBVIOUS
    <3>1. p \in Parts /\ ~Ended(p)
      BY <2>1, PartKinds
    <3>2. p[1] \in {"output", "encoder", "metadata"}
      <4>1. {"output", "encoder", "metadata"} \in SUBSET Objects
        BY DEF Objects, Stages
      <4>2. QED
        BY <3>1, <4>1, PartsOfIs
    <3>3. CASE p[1] = "encoder"
      <4>1. p[2] \in 1..StreamCount /\ p = Encoder(p[2])
        BY <3>1, <3>3, PartFields DEF Count, Encoder
      <4>2. ~Quiet(p[2])
        BY <3>1, <4>1 DEF Quiet
      <4>3. QED
        BY <4>1, <4>2 DEF IInv, UsersInv
    <3>4. CASE p[1] \in {"output", "metadata"}
      <4>1. p \in PartsOf({"output", "metadata"})
        <5>1. {"output", "metadata"} \in SUBSET Objects
          BY DEF Objects, Stages
        <5>2. QED
          BY <3>1, <3>4, <5>1, PartsOfIs
      <4>2. QED
        BY <3>1, <4>1 DEF IInv, UsersInv
    <3>5. QED
      BY <3>2, <3>3, <3>4
  <2>7. \A p \in Parts : p[1] \notin alive => Ended(p)
    BY DEF IInv, UsersInv
  <2>8. QED
    BY <2>2, <2>3, <2>4, <2>5, <2>6, <2>7 DEF PartsOutliveTheirUsers
<1>2. QED
  BY <1>1, Invariant, PTL

\* For any number of cameras and streams, what a stage still has to hand on finds the
\* next stage running, also during the shutdown and after a failed start.
THEOREM HandedOn == Spec => []NothingRefused
<1>1. IInv => NothingRefused
  <2> SUFFICES ASSUME IInv PROVE NothingRefused
    OBVIOUS
  <2>1. phase = "loop" => Running(Isp)
    BY DEF IInv, PlanInv, Live
  <2>2. ASSUME thread[Isp] = "busy"
        PROVE  Running(Metadata) /\ \A s \in 1..StreamCount : Running(Encoder(s))
    <3>1. ~Ended(Isp)
      BY <2>2 DEF Ended
    <3>2. {"metadata", "encoder"} \in SUBSET Objects /\ 1 \in 1..Count("metadata")
          /\ Count("encoder") = StreamCount /\ "metadata" \in Objects /\ "encoder" \in Objects
      BY Counts DEF Objects, Stages, Count
    <3>3. /\ Metadata \in PartsOf({"metadata", "encoder"})
          /\ \A s \in 1..StreamCount : Encoder(s) \in PartsOf({"metadata", "encoder"})
      BY <3>2, PartOf DEF Metadata, Encoder
    <3>4. QED
      BY <3>1, <3>3 DEF IInv, UsersInv, Live
  <2>3. \A s \in 1..StreamCount : callback[s] # 0 => Running(Output(s))
    BY DEF IInv, UsersInv, Quiet, Live
  <2>4. QED
    BY <2>1, <2>2, <2>3 DEF NothingRefused
<1>2. QED
  BY <1>1, Invariant, PTL
=============================================================================
